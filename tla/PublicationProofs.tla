------------------------- MODULE PublicationProofs -------------------------
(* Proofs about DurablePublication, for any States, teams and bounds, any   *)
(* interleaving of the two writers and any crashes and failed puts: that a  *)
(* durable manifest never names an artifact that is not durable; that what  *)
(* a publication shows is what a restart restores, and comes at once; and   *)
(* that a process left to itself comes to be restored as it is, every       *)
(* surface paired with its bundle.                                          *)
EXTENDS DurablePublication, SequenceTheorems, TLAPS

USE PublicationAssumption

-----------------------------------------------------------------------------
(* The types of what is stored, queued and written.                         *)
Manifests ==
  [forecast : Maybe(Runs), simulation : BOOLEAN, value : Maybe(Runs),
   team : Maybe(Teams), generation : Generations]
Stores ==
  [row : States \cup {0}, pointer : Identities, lastGood : Identities,
   forecasts : SUBSET Runs, simulations : SUBSET Runs, values : SUBSET Runs,
   newest : [States -> [forecast : Maybe(Runs), value : Maybe(Runs)]],
   manifest : [States -> Manifests],
   presented : [States -> Contexts]]
Tasks == [kind : {"snapshot", "identity"}, context : Contexts, stale : BOOLEAN]
Writes == [context : Contexts, todo : Seq(Puts), earlier : BOOLEAN, superseded : BOOLEAN]

(* A context that has evidence has a state.                                 *)
Placed(c) == c.state = 0 => c.forecast = None

Types ==
  /\ durable \in Stores
  /\ published \in Contexts /\ Placed(published)
  /\ working \in Contexts /\ Placed(working)
  /\ queue \in Seq(Tasks) /\ Len(queue) <= MaxQueue
  /\ \A i \in DOMAIN queue : Placed(queue[i].context)
  /\ write \in [Threads -> Writes]
  /\ phase \in Phases
  /\ latestOk \in BOOLEAN /\ up \in BOOLEAN
  /\ runs \in 0..MaxRuns /\ promotions \in Nat /\ events \in Nat /\ faults \in Nat

LEMMA TypesAreTypeOK == Types => TypeOK
<1> SUFFICES ASSUME Types PROVE TypeOK
  OBVIOUS
<1>1. /\ durable.row \in States \cup {0}
      /\ {durable.pointer, durable.lastGood} \subseteq Identities
      /\ durable.forecasts \cup durable.simulations \cup durable.values \subseteq Runs
  BY DEF Types, Stores
<1>2. \A t \in Threads : write[t].context \in Contexts
  BY DEF Types, Writes
<1> QED
  BY <1>1, <1>2 DEF Types, TypeOK

(* What is absent.                                                          *)
LEMMA Absent ==
  /\ None \in Generations /\ 0 \in States \cup {0}
  /\ NoContext \in Contexts /\ Placed(NoContext)
  /\ NoManifest \in Manifests
  /\ EmptyStore \in Stores
  /\ Idle \in Writes
<1>1. None \in Generations
  BY DEF Generations
<1>2. NoContext \in Contexts /\ Placed(NoContext)
  BY <1>1 DEF NoContext, Contexts, Placed, Maybe
<1>3. NoManifest \in Manifests
  BY <1>1 DEF NoManifest, Manifest, NoContext, Manifests, Maybe
<1>4. NoIdentity \in Identities
  BY DEF NoIdentity, Identities, Maybe
<1>5. EmptyStore \in Stores
  BY <1>2, <1>3, <1>4 DEF EmptyStore, Stores, Maybe
<1>6. Idle \in Writes
  BY <1>2, EmptySeq DEF Idle, Writes
<1> QED
  BY <1>1, <1>2, <1>3, <1>5, <1>6

(* A context by its fields, and its identification.                         *)
LEMMA ContextFields ==
  ASSUME NEW c \in Contexts
  PROVE  /\ c = [state |-> c.state, team |-> c.team, forecast |-> c.forecast,
                 simulation |-> c.simulation, value |-> c.value, generation |-> c.generation]
         /\ c.state \in States \cup {0} /\ c.team \in Maybe(Teams)
         /\ c.forecast \in Maybe(Runs) /\ c.simulation \in BOOLEAN
         /\ c.value \in Maybe(Runs) /\ c.generation \in Generations
BY DEF Contexts

(* The same evidence under another publication id.                          *)
LEMMA Renamed ==
  ASSUME NEW c \in Contexts, NEW g \in Generations
  PROVE  LET d == [c EXCEPT !.generation = g]
         IN  /\ d \in Contexts /\ d.generation = g
             /\ d.state = c.state /\ d.team = c.team /\ d.forecast = c.forecast
             /\ d.simulation = c.simulation /\ d.value = c.value
BY DEF Contexts

LEMMA IdentifiedContext ==
  ASSUME NEW c \in Contexts, Placed(c)
  PROVE  LET d == Identified(c)
         IN  /\ d \in Contexts /\ Placed(d)
             /\ d.state = c.state /\ d.team = c.team /\ d.forecast = c.forecast
             /\ d.simulation = c.simulation /\ d.value = c.value
             /\ c.generation # None => d = c
<1>1. CASE Terminal(c) /\ c.generation = None
  <2> DEFINE g == <<"content", c.state, c.team, c.forecast, c.value>>
  <2>1. /\ c.state \in States /\ c.team \in Maybe(Teams) /\ c.forecast \in Runs
        /\ c.value \in Runs
    BY <1>1, ContextFields DEF Terminal, Placed, Maybe
  <2>2. g \in {"content"} \X States \X Maybe(Teams) \X Runs \X Runs
    BY <2>1
  <2>3. g \in Generations
    BY <2>2 DEF Generations
  <2>4. Identified(c) = [c EXCEPT !.generation = g]
    BY <1>1 DEF Identified
  <2> HIDE DEF g
  <2> QED
    BY <1>1, <2>3, <2>4, Renamed DEF Placed
<1>2. CASE ~(Terminal(c) /\ c.generation = None)
  BY <1>2 DEF Identified
<1> QED
  BY <1>1, <1>2

-----------------------------------------------------------------------------
(* The puts that make sense of a context, and the plans made of them.       *)
Allowed(c) ==
  {put \in Puts : /\ put \in {"forecast", "simulation"} => c.forecast # None
                  /\ put = "simulation" => c.simulation
                  /\ put = "value" => c.value # None
                  /\ put = "manifest" => Terminal(c)}

Full == <<"row", "forecast", "simulation", "value", "manifest", "pointer", "lastGood">>

LEMMA Joined ==
  ASSUME NEW S, NEW p \in Seq(S), NEW q \in Seq(S)
  PROVE  p \o q \in Seq(S)
BY ConcatProperties

LEMMA PlanAllowed ==
  ASSUME NEW c, NEW publish \in BOOLEAN
  PROVE  Plan(c, publish) \in Seq(Allowed(c))
<1> DEFINE S == Allowed(c)
           If(b, put) == IF b THEN <<put>> ELSE <<>>
           p1 == <<"row">>
           p2 == If(publish /\ ~Terminal(c), "pointer")
           p3 == If(c.forecast # None, "forecast")
           p4 == If(c.simulation /\ c.forecast # None, "simulation")
           p5 == If(c.value # None, "value")
           p6 == IF publish /\ Terminal(c) THEN <<"manifest", "pointer", "lastGood">> ELSE <<>>
<1>1. \A x \in S : <<x>> \in Seq(S)
  OBVIOUS
<1>2. << >> \in Seq(S)
  BY EmptySeq
<1>3. "row" \in S /\ "pointer" \in S /\ "lastGood" \in S
  BY DEF Allowed, Puts
<1>4. p1 \in Seq(S) /\ p2 \in Seq(S)
  BY <1>1, <1>2, <1>3
<1>5. p3 \in Seq(S)
  BY <1>1, <1>2 DEF Allowed, Puts
<1>6. p4 \in Seq(S)
  BY <1>1, <1>2 DEF Allowed, Puts
<1>7. p5 \in Seq(S)
  BY <1>1, <1>2 DEF Allowed, Puts
<1>8. p6 \in Seq(S)
  <2>1. CASE publish /\ Terminal(c)
    <3>1. "manifest" \in S
      BY <2>1 DEF Allowed, Puts
    <3> HIDE DEF S
    <3> QED
      BY <1>3, <2>1, <3>1
  <2>2. CASE ~(publish /\ Terminal(c))
    BY <1>2, <2>2
  <2> QED
    BY <2>1, <2>2
<1>9. Plan(c, publish) = p1 \o p2 \o p3 \o p4 \o p5 \o p6
  BY Zenon DEF Plan
<1> HIDE DEF S, p1, p2, p3, p4, p5, p6
<1>10. p1 \o p2 \in Seq(S)
  BY <1>4, Joined
<1>11. p1 \o p2 \o p3 \in Seq(S)
  BY <1>5, <1>10, Joined
<1>12. p1 \o p2 \o p3 \o p4 \in Seq(S)
  BY <1>6, <1>11, Joined
<1>13. p1 \o p2 \o p3 \o p4 \o p5 \in Seq(S)
  BY <1>7, <1>12, Joined
<1>14. p1 \o p2 \o p3 \o p4 \o p5 \o p6 \in Seq(S)
  BY <1>8, <1>13, Joined
<1> QED
  BY <1>9, <1>14 DEF S

LEMMA Concatenated ==
  ASSUME NEW S, NEW p \in Seq(S), NEW q \in Seq(S), NEW r \in Seq(S),
         Len(r) = Len(p) + Len(q),
         \A i \in 1..Len(r) : r[i] = IF i <= Len(p) THEN p[i] ELSE q[i - Len(p)]
  PROVE  p \o q = r
<1>1. /\ p \o q \in Seq(S) /\ Len(p \o q) = Len(p) + Len(q)
      /\ \A i \in 1..Len(p) + Len(q) :
           (p \o q)[i] = IF i <= Len(p) THEN p[i] ELSE q[i - Len(p)]
  BY ConcatProperties
<1> DEFINE pq == p \o q
<1> HIDE DEF pq
<1>2. pq \in Seq(S) /\ Len(pq) = Len(r)
  BY <1>1 DEF pq
<1>3. \A i \in 1..Len(pq) : pq[i] = r[i]
  BY <1>1, <1>2 DEF pq
<1>4. pq = r
  BY <1>2, <1>3, SeqEqual, Zenon
<1> QED
  BY <1>4 DEF pq

LEMMA PlanFull ==
  ASSUME NEW c, Terminal(c)
  PROVE  Plan(c, TRUE) = Full
<1>1. Plan(c, TRUE) = <<"row">> \o <<>> \o <<"forecast">> \o <<"simulation">> \o <<"value">>
                      \o <<"manifest", "pointer", "lastGood">>
  BY DEF Plan, Terminal
<1>2. <<"row">> \o <<>> = <<"row">>
  <2>1. <<"row">> \in Seq(Puts)
    BY DEF Puts
  <2> QED
    BY <2>1, ConcatEmptySeq
<1>3. <<"row">> \o <<"forecast">>
      = <<"row", "forecast">>
  <2> DEFINE p == <<"row">>  q == <<"forecast">>
             r == <<"row", "forecast">>
  <2>1. p \in Seq(Puts) /\ q \in Seq(Puts) /\ r \in Seq(Puts)
    BY DEF Puts
  <2>2. Len(p) = 1 /\ Len(q) = 1 /\ Len(r) = 2
    OBVIOUS
  <2>3. \A i \in 1..Len(r) : r[i] = IF i <= 1 THEN p[i] ELSE q[i - 1]
    BY <2>2
  <2> HIDE DEF p, q, r
  <2>4. Len(r) = Len(p) + Len(q)
    BY <2>2
  <2>5. \A i \in 1..Len(r) : r[i] = IF i <= Len(p) THEN p[i] ELSE q[i - Len(p)]
    BY <2>2, <2>3
  <2>6. p \o q = r
    BY <2>1, <2>4, <2>5, Concatenated, Zenon
  <2> QED
    BY <2>6 DEF p, q, r
<1>4. <<"row", "forecast">> \o <<"simulation">>
      = <<"row", "forecast", "simulation">>
  <2> DEFINE p == <<"row", "forecast">>  q == <<"simulation">>
             r == <<"row", "forecast", "simulation">>
  <2>1. p \in Seq(Puts) /\ q \in Seq(Puts) /\ r \in Seq(Puts)
    BY DEF Puts
  <2>2. Len(p) = 2 /\ Len(q) = 1 /\ Len(r) = 3
    OBVIOUS
  <2>3. \A i \in 1..Len(r) : r[i] = IF i <= 2 THEN p[i] ELSE q[i - 2]
    BY <2>2
  <2> HIDE DEF p, q, r
  <2>4. Len(r) = Len(p) + Len(q)
    BY <2>2
  <2>5. \A i \in 1..Len(r) : r[i] = IF i <= Len(p) THEN p[i] ELSE q[i - Len(p)]
    BY <2>2, <2>3
  <2>6. p \o q = r
    BY <2>1, <2>4, <2>5, Concatenated, Zenon
  <2> QED
    BY <2>6 DEF p, q, r
<1>5. <<"row", "forecast", "simulation">> \o <<"value">>
      = <<"row", "forecast", "simulation", "value">>
  <2> DEFINE p == <<"row", "forecast", "simulation">>  q == <<"value">>
             r == <<"row", "forecast", "simulation", "value">>
  <2>1. p \in Seq(Puts) /\ q \in Seq(Puts) /\ r \in Seq(Puts)
    BY DEF Puts
  <2>2. Len(p) = 3 /\ Len(q) = 1 /\ Len(r) = 4
    OBVIOUS
  <2>3. \A i \in 1..Len(r) : r[i] = IF i <= 3 THEN p[i] ELSE q[i - 3]
    BY <2>2
  <2> HIDE DEF p, q, r
  <2>4. Len(r) = Len(p) + Len(q)
    BY <2>2
  <2>5. \A i \in 1..Len(r) : r[i] = IF i <= Len(p) THEN p[i] ELSE q[i - Len(p)]
    BY <2>2, <2>3
  <2>6. p \o q = r
    BY <2>1, <2>4, <2>5, Concatenated, Zenon
  <2> QED
    BY <2>6 DEF p, q, r
<1>6. <<"row", "forecast", "simulation", "value">> \o <<"manifest", "pointer", "lastGood">>
      = <<"row", "forecast", "simulation", "value", "manifest", "pointer", "lastGood">>
  <2> DEFINE p == <<"row", "forecast", "simulation", "value">>  q == <<"manifest", "pointer", "lastGood">>
             r == <<"row", "forecast", "simulation", "value", "manifest", "pointer", "lastGood">>
  <2>1. p \in Seq(Puts) /\ q \in Seq(Puts) /\ r \in Seq(Puts)
    BY DEF Puts
  <2>2. Len(p) = 4 /\ Len(q) = 3 /\ Len(r) = 7
    OBVIOUS
  <2>3. \A i \in 1..Len(r) : r[i] = IF i <= 4 THEN p[i] ELSE q[i - 4]
    BY <2>2
  <2> HIDE DEF p, q, r
  <2>4. Len(r) = Len(p) + Len(q)
    BY <2>2
  <2>5. \A i \in 1..Len(r) : r[i] = IF i <= Len(p) THEN p[i] ELSE q[i - Len(p)]
    BY <2>2, <2>3
  <2>6. p \o q = r
    BY <2>1, <2>4, <2>5, Concatenated, Zenon
  <2> QED
    BY <2>6 DEF p, q, r
<1> QED
  BY <1>1, <1>2, <1>3, <1>4, <1>5, <1>6, Zenon DEF Full

LEMMA PlanPlain ==
  ASSUME NEW c, NEW publish \in BOOLEAN, ~(publish /\ Terminal(c))
  PROVE  \A i \in DOMAIN Plan(c, publish) :
           /\ Plan(c, publish)[i] \notin {"manifest", "lastGood"}
           /\ ~publish => Plan(c, publish)[i] # "pointer"
<1> DEFINE S == Puts \ {"manifest", "lastGood", IF publish THEN "manifest" ELSE "pointer"}
           If(b, put) == IF b THEN <<put>> ELSE <<>>
           p1 == <<"row">>
           p2 == If(publish /\ ~Terminal(c), "pointer")
           p3 == If(c.forecast # None, "forecast")
           p4 == If(c.simulation /\ c.forecast # None, "simulation")
           p5 == If(c.value # None, "value")
<1>1. /\ {"row", "forecast", "simulation", "value"} \subseteq S
      /\ publish => "pointer" \in S
  BY DEF Puts
<1> HIDE DEF S
<1>2. << >> \in Seq(S) /\ \A x \in S : <<x>> \in Seq(S)
  BY EmptySeq
<1>3. p1 \in Seq(S) /\ p2 \in Seq(S) /\ p3 \in Seq(S)
  BY <1>1, <1>2
<1>4. p4 \in Seq(S) /\ p5 \in Seq(S)
  BY <1>1, <1>2
<1>5. Plan(c, publish) = p1 \o p2 \o p3 \o p4 \o p5 \o <<>>
  BY Zenon DEF Plan
<1> HIDE DEF p1, p2, p3, p4, p5
<1>6. p1 \o p2 \in Seq(S)
  BY <1>3, Joined
<1>7. p1 \o p2 \o p3 \in Seq(S)
  BY <1>3, <1>6, Joined
<1>8. p1 \o p2 \o p3 \o p4 \in Seq(S)
  BY <1>4, <1>7, Joined
<1>9. p1 \o p2 \o p3 \o p4 \o p5 \in Seq(S)
  BY <1>4, <1>8, Joined
<1>10. Plan(c, publish) \in Seq(S)
  BY <1>2, <1>5, <1>9, Joined
<1>11. \A i \in DOMAIN Plan(c, publish) : Plan(c, publish)[i] \in S
  BY <1>10
<1> QED
  BY <1>11 DEF S

-----------------------------------------------------------------------------
(* One put keeps the store's types.                                         *)
LEMMA StoredTyped ==
  ASSUME NEW d \in Stores, NEW c \in Contexts, NEW put \in Allowed(c), NEW late \in BOOLEAN
  PROVE  Stored(d, put, c, late) \in Stores
<1>1. /\ c.state \in States \cup {0} /\ c.team \in Maybe(Teams) /\ c.forecast \in Maybe(Runs)
      /\ c.value \in Maybe(Runs)
  BY ContextFields
<1>2. Manifest(c) \in Manifests
  BY ContextFields DEF Manifest, Manifests
<1>3. [state |-> c.state, team |-> c.team] \in Identities
  BY <1>1 DEF Identities
<1>4. put \in Puts
  BY DEF Allowed
<1>5. CASE put = "row"
  BY <1>1, <1>5 DEF Stored, Stores
<1>6. CASE put = "pointer"
  BY <1>3, <1>6 DEF Stored, Stores
<1>7. CASE put = "lastGood"
  BY <1>3, <1>7 DEF Stored, Stores
<1>8. CASE put = "forecast"
  <2>1. c.forecast \in Runs
    BY <1>1, <1>8 DEF Allowed, Maybe
  <2> DEFINE e == [d EXCEPT !.forecasts = @ \cup {c.forecast}]
  <2>2. e \in Stores
    BY <2>1 DEF Stores
  <2> HIDE DEF e
  <2>3. [e EXCEPT !.newest[c.state].forecast = c.forecast] \in Stores
    <3> DEFINE N == [forecast : Maybe(Runs), value : Maybe(Runs)]
               x == c.forecast
               k == c.state
               n == e.newest
    <3>1. n \in [States -> N] /\ x \in Maybe(Runs)
      BY <1>1, <2>2 DEF Stores
    <3> HIDE DEF x, k, n
    <3>2. [n EXCEPT ![k].forecast = x] \in [States -> N]
      BY <3>1
    <3> DEFINE m == [n EXCEPT ![k].forecast = x]
    <3>3. [e EXCEPT !.newest = m] \in Stores
      <4> HIDE DEF m
      <4> QED
        BY <2>2, <3>2 DEF Stores, m
    <3>4. [e EXCEPT !.newest[k].forecast = x] = [e EXCEPT !.newest = m]
      BY DEF n
    <3> QED
      BY <3>3, <3>4 DEF x, k
  <2>4. Stored(d, put, c, late)
        = [d EXCEPT !.forecasts = @ \cup {c.forecast}, !.newest[c.state].forecast = c.forecast]
    BY <1>8 DEF Stored
  <2>5. [e EXCEPT !.newest[c.state].forecast = c.forecast]
        = [d EXCEPT !.forecasts = @ \cup {c.forecast}, !.newest[c.state].forecast = c.forecast]
    BY DEF e
  <2> QED
    BY <2>3, <2>4, <2>5
<1>9. CASE put = "simulation"
  <2>1. c.forecast \in Runs
    BY <1>1, <1>9 DEF Allowed, Maybe
  <2> QED
    BY <1>9, <2>1 DEF Stored, Stores
<1>10. CASE put = "value"
  <2>1. c.value \in Runs
    BY <1>1, <1>10 DEF Allowed, Maybe
  <2> DEFINE e == [d EXCEPT !.values = @ \cup {c.value}]
  <2>2. e \in Stores
    BY <2>1 DEF Stores
  <2> HIDE DEF e
  <2>3. [e EXCEPT !.newest[c.state].value = c.value] \in Stores
    <3> DEFINE N == [forecast : Maybe(Runs), value : Maybe(Runs)]
               x == c.value
               k == c.state
               n == e.newest
    <3>1. n \in [States -> N] /\ x \in Maybe(Runs)
      BY <1>1, <2>2 DEF Stores
    <3> HIDE DEF x, k, n
    <3>2. [n EXCEPT ![k].value = x] \in [States -> N]
      BY <3>1
    <3> DEFINE m == [n EXCEPT ![k].value = x]
    <3>3. [e EXCEPT !.newest = m] \in Stores
      <4> HIDE DEF m
      <4> QED
        BY <2>2, <3>2 DEF Stores, m
    <3>4. [e EXCEPT !.newest[k].value = x] = [e EXCEPT !.newest = m]
      BY DEF n
    <3> QED
      BY <3>3, <3>4 DEF x, k
  <2>4. Stored(d, put, c, late)
        = [d EXCEPT !.values = @ \cup {c.value}, !.newest[c.state].value = c.value]
    BY <1>10 DEF Stored
  <2>5. [e EXCEPT !.newest[c.state].value = c.value]
        = [d EXCEPT !.values = @ \cup {c.value}, !.newest[c.state].value = c.value]
    BY DEF e
  <2> QED
    BY <2>3, <2>4, <2>5
<1>11. CASE put = "manifest"
  BY <1>2, <1>11 DEF Stored, Stores
<1> QED
  BY <1>4, <1>5, <1>6, <1>7, <1>8, <1>9, <1>10, <1>11 DEF Puts

(* What the store gives for a state, and what a restart restores.           *)
LEMMA EvidenceTyped ==
  ASSUME NEW d \in Stores, NEW s \in States, NEW team \in Maybe(Teams)
  PROVE  /\ Evidence(d, s, team) \in Contexts /\ Placed(Evidence(d, s, team))
         /\ Evidence(d, s, team).state = s /\ Evidence(d, s, team).team = team
<1>1. d.manifest[s] \in Manifests /\ d.newest[s] \in [forecast : Maybe(Runs), value : Maybe(Runs)]
  BY DEF Stores
<1>2. Bound(d, s).forecast \in Maybe(Runs) /\ Bound(d, s).value \in Maybe(Runs)
  BY <1>1 DEF Bound, Maybe, Manifests
<1>3. (IF d.manifest[s] # NoManifest /\ d.manifest[s].team = team
       THEN d.manifest[s].generation ELSE None) \in Generations
  BY <1>1, Absent DEF Manifests
<1>4. s # 0
  OBVIOUS
<1> QED
  BY <1>2, <1>3, <1>4 DEF Evidence, Contexts, Placed

LEMMA RestoredTyped ==
  ASSUME NEW d \in Stores
  PROVE  Restored(d) \in Contexts /\ Placed(Restored(d))
<1>1. d.pointer.state \in States \cup {0} /\ d.pointer.team \in Maybe(Teams)
  BY DEF Stores, Identities
<1> QED
  BY <1>1, Absent, EvidenceTyped DEF Restored

(* What an activation exposes.                                              *)
LEMMA ActivatedTyped ==
  ASSUME Types, NEW s \in States
  PROVE  Activated(s) \in Contexts /\ Placed(Activated(s)) /\ Activated(s).state = s
<1>1. published \in Contexts /\ Placed(published) /\ published.team \in Maybe(Teams)
  BY ContextFields DEF Types
<1>2. CASE published.state = s
  BY <1>1, <1>2 DEF Activated
<1>3. CASE published.state # s
  <2> DEFINE c == [NoContext EXCEPT !.state = s, !.team = published.team]
  <2>1. c \in Contexts /\ c.state = s /\ c.forecast = None
    BY <1>1, Absent DEF Contexts, NoContext
  <2> QED
    BY <1>3, <2>1 DEF Activated, Placed
<1> QED
  BY <1>2, <1>3

LEMMA RecoveredTyped ==
  ASSUME Types, NEW s \in States
  PROVE  Recovered(s) \in Contexts /\ Placed(Recovered(s))
<1> DEFINE c == Activated(s)
           owned == IF c.team = None /\ durable.pointer.state = s
                    THEN durable.pointer.team ELSE c.team
           found == Evidence(durable, s, owned)
           team == IF found.team = None THEN durable.manifest[s].team ELSE found.team
<1>1. c \in Contexts /\ Placed(c) /\ c.state = s /\ c.team \in Maybe(Teams)
  BY ActivatedTyped, ContextFields
<1>2. durable \in Stores /\ durable.pointer.team \in Maybe(Teams)
      /\ durable.manifest[s].team \in Maybe(Teams)
  BY DEF Types, Stores, Identities, Manifests
<1>3. owned \in Maybe(Teams)
  BY <1>1, <1>2
<1>4. found.team = owned
  BY <1>2, <1>3, EvidenceTyped
<1>5. team \in Maybe(Teams)
  BY <1>2, <1>3, <1>4
<1>6. Evidence(durable, s, team) \in Contexts /\ Placed(Evidence(durable, s, team))
  BY <1>2, <1>5, EvidenceTyped
<1>7. [c EXCEPT !.team = owned] \in Contexts /\ Placed([c EXCEPT !.team = owned])
  BY <1>1, <1>3 DEF Contexts, Placed
<1>8. Recovered(s) = IF found.forecast = None /\ found.value = None
                     THEN [c EXCEPT !.team = owned] ELSE Evidence(durable, s, team)
  BY Zenon DEF Recovered
<1> HIDE DEF c, owned, found, team
<1> QED
  BY <1>6, <1>7, <1>8

-----------------------------------------------------------------------------
(* A write puts the artifacts of its manifest before the manifest.          *)
Follows(w, i, put) == \E k \in DOMAIN w.todo : k < i /\ w.todo[k] = put

ReadyAt(w, i) ==
  /\ w.context.forecast \in durable.forecasts \/ Follows(w, i, "forecast")
  /\ w.context.forecast \in durable.simulations \/ Follows(w, i, "simulation")
  /\ w.context.value \in durable.values \/ Follows(w, i, "value")

Ready(w) == \A i \in DOMAIN w.todo : w.todo[i] = "manifest" => ReadyAt(w, i)

WritesSound ==
  \A t \in Threads : write[t].todo \in Seq(Allowed(write[t].context)) /\ Ready(write[t])

(* What is durable stays so.                                                *)
Grows ==
  /\ durable.forecasts \subseteq durable'.forecasts
  /\ durable.simulations \subseteq durable'.simulations
  /\ durable.values \subseteq durable'.values

(* A snapshot that a step begins, drops or leaves alone.                    *)
SameEvidence(c, d) ==
  c.forecast = d.forecast /\ c.simulation = d.simulation /\ c.value = d.value

Begun(w, c, publish) == w.todo = Plan(c, publish) /\ SameEvidence(w.context, c)

Kept(t) == write'[t].context = write[t].context /\ write'[t].todo = write[t].todo
Begins(t) ==
  \E c \in Contexts, publish \in BOOLEAN : Begun(write'[t], c, publish)

LEMMA AllowedSame ==
  ASSUME NEW c, NEW d, SameEvidence(c, d)
  PROVE  Allowed(c) = Allowed(d)
BY DEF Allowed, SameEvidence, Terminal

LEMMA BegunReady ==
  ASSUME NEW w \in Writes, NEW c \in Contexts, NEW publish \in BOOLEAN, Begun(w, c, publish)
  PROVE  w.todo \in Seq(Allowed(w.context)) /\ \A i \in DOMAIN w.todo :
           w.todo[i] = "manifest" =>
             Follows(w, i, "forecast") /\ Follows(w, i, "simulation") /\ Follows(w, i, "value")
<1>1. w.todo \in Seq(Allowed(w.context))
  BY PlanAllowed, AllowedSame DEF Begun
<1>2. CASE publish /\ Terminal(c)
  <2>1. w.todo = Full
    BY <1>2, PlanFull DEF Begun
  <2>2. /\ DOMAIN w.todo = 1..7
        /\ w.todo[1] = "row" /\ w.todo[2] = "forecast" /\ w.todo[3] = "simulation"
        /\ w.todo[4] = "value" /\ w.todo[5] = "manifest" /\ w.todo[6] = "pointer"
        /\ w.todo[7] = "lastGood"
    BY <2>1 DEF Full
  <2>3. \A i \in DOMAIN w.todo : w.todo[i] = "manifest" => i = 5
    BY <2>2
  <2> QED
    BY <1>1, <2>2, <2>3 DEF Follows
<1>3. CASE ~(publish /\ Terminal(c))
  BY <1>1, <1>3, PlanPlain DEF Begun
<1> QED
  BY <1>2, <1>3

LEMMA WritesKept ==
  ASSUME WritesSound, Grows, write' \in [Threads -> Writes],
         \A t \in Threads : Kept(t) \/ Begins(t) \/ write'[t].todo = << >>
  PROVE  WritesSound'
<1> SUFFICES ASSUME NEW t \in Threads
             PROVE  write'[t].todo \in Seq(Allowed(write'[t].context)) /\ Ready(write[t])'
  BY DEF WritesSound
<1>1. CASE Kept(t)
  BY <1>1 DEF WritesSound, Kept, Ready, ReadyAt, Follows, Grows
<1>2. CASE Begins(t)
  BY <1>2, BegunReady DEF Begins, Ready, ReadyAt, Follows
<1>3. CASE write'[t].todo = << >>
  BY <1>3, EmptySeq DEF Ready
<1> QED
  BY <1>1, <1>2, <1>3

(* BeginWrite.                                                              *)
LEMMA OtherThread ==
  \A t \in Threads : Other(t) \in Threads /\ Other(t) # t /\ \A u \in Threads : u \in {t, Other(t)}
BY DEF Threads, Other

LEMMA BeginEffect ==
  ASSUME Types, NEW t \in Threads, NEW c \in Contexts, Placed(c), NEW publish \in BOOLEAN,
         BeginWrite(t, c, publish)
  PROVE  /\ write' \in [Threads -> Writes]
         /\ write'[t].context = (IF publish THEN Identified(c) ELSE c)
         /\ Begun(write'[t], c, publish)
         /\ ~write'[t].superseded
         /\ Kept(Other(t)) /\ write'[Other(t)].superseded = write[Other(t)].superseded
<1> DEFINE d == IF publish THEN Identified(c) ELSE c
           w == [context |-> d, todo |-> Plan(c, publish), earlier |-> FALSE,
                 superseded |-> FALSE]
           o == Other(t)
           e == Writing(o)
<1>1. d \in Contexts /\ SameEvidence(d, c)
  BY IdentifiedContext DEF SameEvidence
<1>2. Plan(c, publish) \in Seq(Puts)
  <2>1. Plan(c, publish) \in Seq(Allowed(c)) /\ Allowed(c) \subseteq Puts
    BY PlanAllowed DEF Allowed
  <2> QED
    BY <2>1, SeqMonotonic
<1>3. w \in Writes
  BY <1>1, <1>2 DEF Writes
<1>4. o \in Threads /\ o # t /\ e \in BOOLEAN /\ write \in [Threads -> Writes]
  BY OtherThread DEF Types, Writing
<1>5. write' = [write EXCEPT ![t] = w, ![o].earlier = e]
  BY DEF BeginWrite
<1> HIDE DEF d, o, e
<1>6. write'[t] = w
  BY <1>3, <1>4, <1>5
<1>7. write'[o] = [write[o] EXCEPT !.earlier = e]
  BY <1>4, <1>5
<1>8. write' \in [Threads -> Writes]
  <2> HIDE DEF w
  <2>1. write[o] \in Writes
    BY <1>4
  <2>2. [write[o] EXCEPT !.earlier = e] \in Writes
    BY <1>4, <2>1 DEF Writes
  <2>3. \A u \in Threads : write'[u] \in Writes
    BY <1>3, <1>6, <1>7, <2>2, OtherThread DEF o
  <2>4. DOMAIN write' = Threads /\ write' = [u \in Threads |-> write'[u]]
    BY <1>4, <1>5
  <2> QED
    BY <2>3, <2>4
<1>9. Kept(o) /\ write'[o].superseded = write[o].superseded
  BY <1>4, <1>7 DEF Kept, Writes
<1> QED
  BY <1>1, <1>6, <1>8, <1>9 DEF Begun, d, o

-----------------------------------------------------------------------------
(* One put of a snapshot.                                                   *)
LEMMA StoredEffect ==
  ASSUME NEW d \in Stores, NEW c \in Contexts, NEW put \in Puts, NEW late \in BOOLEAN
  PROVE  LET e == Stored(d, put, c, late)
         IN  /\ d.forecasts \subseteq e.forecasts /\ d.simulations \subseteq e.simulations
             /\ d.values \subseteq e.values
             /\ put = "forecast" => c.forecast \in e.forecasts
             /\ put = "simulation" => c.forecast \in e.simulations
             /\ put = "value" => c.value \in e.values
             /\ put # "manifest" => e.manifest = d.manifest
             /\ put = "manifest" => \A s \in States : e.manifest[s] \in {d.manifest[s], Manifest(c)}
BY DEF Stored, Stores, Puts

LEMMA PutReady ==
  ASSUME NEW t \in Threads, Types, WritesSound, Put(t)
  PROVE  LET w == write[t]
             put == Head(w.todo)
         IN  /\ w \in Writes /\ put \in Allowed(w.context) /\ put = w.todo[1]
             /\ 1 \in DOMAIN w.todo
             /\ durable' = Stored(durable, put, w.context, w.superseded)
             /\ write' \in [Threads -> Writes]
             /\ write'[t] = [w EXCEPT !.todo = Tail(@)]
             /\ Kept(Other(t))
<1> DEFINE w == write[t]
           put == Head(w.todo)
           o == Other(t)
           other == write[o]
           late == other.superseded \/ (/\ put = "manifest" /\ other.earlier
                                       /\ other.context.state = w.context.state)
<1>1. o \in Threads /\ o # t /\ write \in [Threads -> Writes]
  BY OtherThread DEF Types
<1>2. w \in Writes /\ other \in Writes
  BY <1>1
<1>3. w.todo \in Seq(Allowed(w.context)) /\ w.todo # << >>
  BY DEF WritesSound, Put
<1>4. put \in Allowed(w.context) /\ put = w.todo[1] /\ 1 \in DOMAIN w.todo
  BY <1>3
<1>5. late \in BOOLEAN
  BY <1>2 DEF Writes
<1>6. write' = [write EXCEPT ![t].todo = Tail(@), ![o].superseded =
                  @ \/ (/\ put = "manifest" /\ other.earlier
                       /\ other.context.state = w.context.state)]
  BY Zenon DEF Put
<1>7. write'[t] = [w EXCEPT !.todo = Tail(@)]
  BY <1>1, <1>6
<1>8. write'[o] = [other EXCEPT !.superseded = late]
  BY <1>1, <1>6
<1>9. Tail(w.todo) \in Seq(Puts)
  BY <1>2, <1>3 DEF Writes
<1>10. write'[t] \in Writes
  BY <1>2, <1>7, <1>9 DEF Writes
<1>11. write'[o] \in Writes
  <2> HIDE DEF late
  <2> QED
    BY <1>2, <1>5, <1>8 DEF Writes
<1>12. write' \in [Threads -> Writes]
  <2>1. \A u \in Threads : write'[u] \in Writes
    BY <1>10, <1>11, OtherThread
  <2>2. DOMAIN write' = Threads /\ write' = [u \in Threads |-> write'[u]]
    BY <1>1, <1>6
  <2> QED
    BY <2>1, <2>2
<1>13. Kept(o)
  BY <1>2, <1>8 DEF Kept, Writes
<1>14. durable' = Stored(durable, put, w.context, w.superseded)
  BY DEF Put
<1> QED
  BY <1>2, <1>4, <1>7, <1>12, <1>13, <1>14

(* The artifacts of a manifest stay before it in what is left to put, or    *)
(* have just been put.                                                      *)
LEMMA TailReady ==
  ASSUME NEW w \in Writes, w.todo # << >>, Ready(w), Grows,
         w.todo[1] = "forecast" => w.context.forecast \in durable'.forecasts,
         w.todo[1] = "simulation" => w.context.forecast \in durable'.simulations,
         w.todo[1] = "value" => w.context.value \in durable'.values
  PROVE  LET v == [w EXCEPT !.todo = Tail(@)]
         IN  \A i \in DOMAIN v.todo : v.todo[i] = "manifest" =>
               /\ v.context.forecast \in durable'.forecasts \/ Follows(v, i, "forecast")
               /\ v.context.forecast \in durable'.simulations \/ Follows(v, i, "simulation")
               /\ v.context.value \in durable'.values \/ Follows(v, i, "value")
<1> DEFINE v == [w EXCEPT !.todo = Tail(@)]
<1>1. v.context = w.context /\ v.todo = Tail(w.todo) /\ w.todo \in Seq(Puts)
  BY DEF Writes
<1> HIDE DEF v
<1>2. /\ DOMAIN w.todo = 1..Len(w.todo) /\ DOMAIN v.todo = 1..Len(w.todo) - 1
      /\ Len(w.todo) \in Nat
      /\ \A i \in DOMAIN v.todo : v.todo[i] = w.todo[i + 1]
  BY <1>1
<1>3. \A i \in DOMAIN v.todo : \A put : Follows(w, i + 1, put) =>
        w.todo[1] = put \/ Follows(v, i, put)
  <2> SUFFICES ASSUME NEW i \in DOMAIN v.todo, NEW put, Follows(w, i + 1, put), w.todo[1] # put
               PROVE  Follows(v, i, put)
    OBVIOUS
  <2>1. PICK k \in DOMAIN w.todo : k < i + 1 /\ w.todo[k] = put
    BY DEF Follows
  <2>2. k # 1 /\ k \in Nat
    BY <1>2, <2>1
  <2>3. i \in Nat /\ i <= Len(w.todo) - 1 /\ k >= 2 /\ k <= i
    BY <1>2, <2>1, <2>2
  <2>4. k - 1 \in DOMAIN v.todo /\ k - 1 < i /\ (k - 1) + 1 = k
    <3> DEFINE n == Len(w.todo)
    <3>1. n \in Nat /\ k \in Nat /\ i \in Nat /\ i <= n - 1 /\ k >= 2 /\ k <= i
      BY <1>2, <2>2, <2>3
    <3> HIDE DEF n
    <3>2. k - 1 \in 1..(n - 1) /\ k - 1 < i /\ (k - 1) + 1 = k
      BY <3>1
    <3> QED
      BY <1>2, <3>2 DEF n
  <2>5. v.todo[k - 1] = put
    BY <1>2, <2>1, <2>4
  <2> QED
    BY <2>4, <2>5 DEF Follows
<1> SUFFICES ASSUME NEW i \in DOMAIN v.todo, v.todo[i] = "manifest"
             PROVE  /\ v.context.forecast \in durable'.forecasts \/ Follows(v, i, "forecast")
                    /\ v.context.forecast \in durable'.simulations \/ Follows(v, i, "simulation")
                    /\ v.context.value \in durable'.values \/ Follows(v, i, "value")
  BY DEF v
<1>4. ReadyAt(w, i + 1)
  <2>1. i + 1 \in DOMAIN w.todo /\ w.todo[i + 1] = "manifest"
    BY <1>2
  <2> QED
    BY <2>1 DEF Ready
<1> QED
  BY <1>1, <1>3, <1>4 DEF ReadyAt, Grows

LEMMA PutKeeps ==
  ASSUME NEW t \in Threads, Types, WritesSound, ManifestBacked, Put(t)
  PROVE  Types' /\ WritesSound' /\ ManifestBacked'
<1> DEFINE w == write[t]
           put == Head(w.todo)
           o == Other(t)
<1>1. /\ w \in Writes /\ put \in Allowed(w.context) /\ put = w.todo[1] /\ 1 \in DOMAIN w.todo
      /\ durable' = Stored(durable, put, w.context, w.superseded)
      /\ write' \in [Threads -> Writes]
      /\ write'[t] = [w EXCEPT !.todo = Tail(@)]
      /\ Kept(o) /\ o \in Threads
  BY PutReady, OtherThread
<1>2. w.todo # << >> /\ w.context \in Contexts /\ w.superseded \in BOOLEAN /\ put \in Puts
  BY <1>1 DEF Writes, Put, Allowed
<1>3. durable \in Stores
  BY DEF Types
<1> HIDE DEF w, put, o
<1>4. durable' \in Stores
  BY <1>1, <1>2, <1>3, StoredTyped
<1>5. /\ Grows
      /\ put = "forecast" => w.context.forecast \in durable'.forecasts
      /\ put = "simulation" => w.context.forecast \in durable'.simulations
      /\ put = "value" => w.context.value \in durable'.values
      /\ put # "manifest" => durable'.manifest = durable.manifest
      /\ put = "manifest" => \A s \in States :
           durable'.manifest[s] \in {durable.manifest[s], Manifest(w.context)}
  BY <1>1, <1>2, <1>3, StoredEffect DEF Grows
<1>6. Types'
  BY <1>1, <1>4 DEF Put, Types
<1>7. w.todo \in Seq(Allowed(w.context)) /\ Ready(w)
  BY DEF WritesSound, w
<1>8. WritesSound'
  <2>1. write'[t].context = w.context /\ write'[t].todo = Tail(w.todo)
    BY <1>1 DEF Writes
  <2>2. write'[t].todo \in Seq(Allowed(write'[t].context))
    <3>1. Tail(w.todo) \in Seq(Allowed(w.context))
      BY <1>2, <1>7, HeadTailProperties
    <3> QED
      BY <2>1, <3>1, Zenon
  <2>3. Ready(write[t])'
    <3> DEFINE v == [w EXCEPT !.todo = Tail(@)]
    <3>1. \A i \in DOMAIN v.todo : v.todo[i] = "manifest" =>
            /\ v.context.forecast \in durable'.forecasts \/ Follows(v, i, "forecast")
            /\ v.context.forecast \in durable'.simulations \/ Follows(v, i, "simulation")
            /\ v.context.value \in durable'.values \/ Follows(v, i, "value")
      BY <1>1, <1>2, <1>5, <1>7, TailReady
    <3>2. write'[t] = v
      BY <1>1
    <3> HIDE DEF v
    <3> QED
      BY <3>1, <3>2 DEF Ready, ReadyAt, Follows
  <2>4. write'[o].todo \in Seq(Allowed(write'[o].context)) /\ Ready(write[o])'
    <3>1. write[o].todo \in Seq(Allowed(write[o].context)) /\ Ready(write[o])
      BY <1>1 DEF WritesSound
    <3>2. write'[o].todo = write[o].todo /\ write'[o].context = write[o].context
      BY <1>1 DEF Kept
    <3>3. write'[o].todo \in Seq(Allowed(write'[o].context))
      BY <3>1, <3>2, Zenon
    <3>4. Ready(write[o])'
      BY <1>5, <3>1, <3>2 DEF Ready, ReadyAt, Follows, Grows
    <3> QED
      BY <3>3, <3>4
  <2> QED
    BY <2>2, <2>3, <2>4, OtherThread DEF WritesSound, o
<1>9. ManifestBacked'
  <2>1. CASE put # "manifest"
    BY <1>5, <2>1 DEF ManifestBacked, Grows
  <2>2. CASE put = "manifest"
    <3>1. ~\E k \in DOMAIN w.todo : k < 1
      BY <1>2, <1>7
    <3>2. /\ w.context.forecast \in durable.forecasts
          /\ w.context.forecast \in durable.simulations
          /\ w.context.value \in durable.values
      BY <1>1, <1>7, <2>2, <3>1 DEF Ready, ReadyAt, Follows
    <3>3. w.context.simulation
      BY <1>1, <2>2 DEF Allowed, Terminal
    <3> QED
      BY <1>5, <2>2, <3>2, <3>3 DEF ManifestBacked, Grows, Manifest
  <2> QED
    BY <2>1, <2>2
<1> QED
  BY <1>6, <1>8, <1>9

-----------------------------------------------------------------------------
(* Every other step leaves the artifacts and the manifests alone, and only  *)
(* begins, keeps or drops snapshots.                                        *)
Steady ==
  /\ durable'.forecasts = durable.forecasts /\ durable'.simulations = durable.simulations
  /\ durable'.values = durable.values /\ durable'.manifest = durable.manifest

Moves == \A t \in Threads : Kept(t) \/ Begins(t) \/ write'[t].todo = << >>

LEMMA SteadyKeeps ==
  ASSUME WritesSound, ManifestBacked, Steady, Moves, write' \in [Threads -> Writes]
  PROVE  WritesSound' /\ ManifestBacked'
<1>1. Grows
  BY DEF Steady, Grows
<1>2. WritesSound'
  BY <1>1, WritesKept DEF Moves
<1>3. ManifestBacked'
  BY DEF ManifestBacked, Steady
<1> QED
  BY <1>2, <1>3

(* The effects of the parts the actions share.                              *)
LEMMA Begins1 ==
  ASSUME Types, NEW t \in Threads, NEW c \in Contexts, Placed(c), NEW publish \in BOOLEAN,
         BeginWrite(t, c, publish)
  PROVE  write' \in [Threads -> Writes] /\ Moves
<1>1. write' \in [Threads -> Writes] /\ Begins(t) /\ Kept(Other(t))
  BY BeginEffect DEF Begins
<1> QED
  BY <1>1, OtherThread DEF Moves

LEMMA Dropped ==
  ASSUME Types, NEW t \in Threads, NEW o \in Threads, o # t,
         \/ write' = [write EXCEPT ![t] = Idle, ![o].earlier = FALSE]
         \/ write' = [write EXCEPT ![t] = Idle]
  PROVE  write' \in [Threads -> Writes] /\ Moves /\ write'[t] = Idle
<1>1. write \in [Threads -> Writes] /\ Idle \in Writes /\ Idle.todo = << >>
  BY Absent DEF Types, Idle
<1>2. write[o] \in Writes /\ [write[o] EXCEPT !.earlier = FALSE] \in Writes
  BY <1>1 DEF Writes
<1>3. write'[t] = Idle /\ write'[o] \in {write[o], [write[o] EXCEPT !.earlier = FALSE]}
  BY <1>1
<1>4. Kept(o)
  BY <1>2, <1>3 DEF Kept, Writes
<1>5. \A u \in Threads : u \in {t, o}
  BY DEF Threads
<1>6. DOMAIN write' = Threads /\ write' = [u \in Threads |-> write'[u]]
  BY <1>1
<1>7. \A u \in Threads : write'[u] \in Writes
  BY <1>1, <1>2, <1>3, <1>5
<1> QED
  BY <1>1, <1>3, <1>4, <1>5, <1>6, <1>7 DEF Moves

LEMMA Same ==
  ASSUME Types, write' = write
  PROVE  write' \in [Threads -> Writes] /\ Moves
BY DEF Types, Moves, Kept

QueueTyped(q) == q \in Seq(Tasks) /\ \A i \in DOMAIN q : Placed(q[i].context)

LEMMA StaledTyped ==
  ASSUME NEW q, QueueTyped(q)
  PROVE  QueueTyped(Staled(q))
<1> DEFINE r == Staled(q)
<1>1. q \in Seq(Tasks) /\ DOMAIN q = 1..Len(q) /\ Len(q) \in Nat
  BY DEF QueueTyped
<1>2. r = [i \in 1..Len(q) |-> [q[i] EXCEPT !.stale = TRUE]]
  BY <1>1 DEF Staled
<1>3. \A i \in 1..Len(q) : [q[i] EXCEPT !.stale = TRUE] \in Tasks
                           /\ [q[i] EXCEPT !.stale = TRUE].context = q[i].context
  <2> SUFFICES ASSUME NEW i \in 1..Len(q)
               PROVE  [q[i] EXCEPT !.stale = TRUE] \in Tasks
                      /\ [q[i] EXCEPT !.stale = TRUE].context = q[i].context
    OBVIOUS
  <2>1. q[i] \in Tasks
    BY <1>1
  <2> QED
    BY <2>1 DEF Tasks
<1>4. r \in Seq(Tasks)
  BY <1>1, <1>2, <1>3
<1>5. \A i \in DOMAIN r : Placed(r[i].context)
  BY <1>1, <1>2, <1>3 DEF QueueTyped
<1> QED
  BY <1>4, <1>5 DEF QueueTyped, r

LEMMA SubmitTyped ==
  ASSUME NEW q, QueueTyped(q), NEW kind \in {"snapshot", "identity"}, NEW c \in Contexts,
         Placed(c), Submit(q, Task(kind, c))
  PROVE  QueueTyped(queue') /\ Len(queue') <= MaxQueue /\ latestOk' \in BOOLEAN
<1> DEFINE task == Task(kind, c)
<1>1. task \in Tasks /\ task.context = c
  BY DEF Task, Tasks
<1> HIDE DEF task
<1>2. q \in Seq(Tasks)
  BY DEF QueueTyped
<1>3. queue' \in {Append(q, task), [q EXCEPT ![Len(q)] = task]}
  BY DEF Submit, Submitted, task
<1>4. CASE queue' = Append(q, task)
  <2>1. queue' \in Seq(Tasks)
    BY <1>1, <1>2, <1>4
  <2>2. \A i \in DOMAIN queue' : Placed(queue'[i].context)
    BY <1>1, <1>2, <1>4 DEF QueueTyped
  <2> QED
    BY <2>1, <2>2 DEF QueueTyped, Submit
<1>5. CASE queue' = [q EXCEPT ![Len(q)] = task]
  <2>1. queue' \in Seq(Tasks)
    <3> DEFINE n == Len(q)
    <3>0. DOMAIN q = 1..n /\ n \in Nat /\ queue' = [q EXCEPT ![n] = task]
      BY <1>2, <1>5
    <3>1. queue' = [i \in 1..n |-> IF i = n THEN task ELSE q[i]] /\ n \in Nat
      <4> HIDE DEF n
      <4> QED
        BY <3>0
    <3>2. \A i \in 1..n : (IF i = n THEN task ELSE q[i]) \in Tasks
      BY <1>1, <1>2
    <3> HIDE DEF n
    <3> QED
      BY <3>1, <3>2
  <2>2. \A i \in DOMAIN queue' : Placed(queue'[i].context)
    BY <1>1, <1>2, <1>5 DEF QueueTyped
  <2> QED
    BY <2>1, <2>2 DEF QueueTyped, Submit
<1> QED
  BY <1>3, <1>4, <1>5

LEMMA TailTyped ==
  ASSUME Types, queue # << >>
  PROVE  /\ QueueTyped(Tail(queue)) /\ Len(Tail(queue)) <= MaxQueue
         /\ Head(queue).context \in Contexts /\ Placed(Head(queue).context)
<1>1. queue \in Seq(Tasks) /\ Len(queue) \in Nat /\ Len(queue) <= MaxQueue /\ MaxQueue \in Nat
  BY DEF Types
<1>2. Tail(queue) \in Seq(Tasks) /\ Len(Tail(queue)) = Len(queue) - 1
      /\ \A i \in 1..Len(queue) - 1 : Tail(queue)[i] = queue[i + 1] /\ i + 1 \in DOMAIN queue
  BY <1>1
<1>3. Head(queue) = queue[1] /\ 1 \in DOMAIN queue /\ queue[1] \in Tasks
  BY <1>1
<1>4. \A i \in DOMAIN Tail(queue) : Placed(Tail(queue)[i].context)
  <2>1. \A i \in DOMAIN Tail(queue) : i \in 1..Len(queue) - 1
    BY <1>2
  <2> QED
    BY <1>2, <2>1 DEF Types
<1>5. Placed(Head(queue).context) /\ Head(queue).context \in Contexts
  BY <1>3 DEF Types, Tasks
<1> QED
  BY <1>1, <1>2, <1>4, <1>5 DEF QueueTyped

-----------------------------------------------------------------------------
Inv == Types /\ WritesSound /\ ManifestBacked

LEMMA RequestsKeep ==
  ASSUME Inv, Requests
  PROVE  Inv'
<1>1. ASSUME NEW s \in States, Activate(s) PROVE Inv'
  <2>1. PICK c \in {Activated(s), Recovered(s)} :
          /\ published' = c
          /\ Submit(IF published.state = s THEN queue ELSE Staled(queue), Task("snapshot", c))
    BY <1>1 DEF Activate
  <2>2. c \in Contexts /\ Placed(c)
    BY ActivatedTyped, RecoveredTyped DEF Inv
  <2>3. QueueTyped(IF published.state = s THEN queue ELSE Staled(queue))
    BY StaledTyped DEF Inv, Types, QueueTyped
  <2>4. QueueTyped(queue') /\ Len(queue') <= MaxQueue /\ latestOk' \in BOOLEAN
    BY <2>1, <2>2, <2>3, SubmitTyped
  <2>5. Types'
    BY <1>1, <2>1, <2>2, <2>4, Absent DEF Inv, Types, QueueTyped, Activate, Request, Free
  <2>6. Steady /\ write' \in [Threads -> Writes] /\ Moves
    BY <1>1, Same DEF Activate, Steady, Inv
  <2> QED
    BY <2>5, <2>6, SteadyKeeps DEF Inv
<1>2. ASSUME NEW s \in States, Stage(s) PROVE Inv'
  <2>1. PICK f \in {runs'} \cup ({durable.newest[s].forecast} \ {None}) :
          working' = [state |-> s, team |-> published.team, forecast |-> f,
                      simulation |-> TRUE, value |-> runs', generation |-> published.generation]
    BY <1>2 DEF Stage
  <2>2. runs' \in Runs
    BY <1>2 DEF Stage, Inv, Types, Runs
  <2>3. durable.newest[s].forecast \in Maybe(Runs)
    BY DEF Inv, Types, Stores
  <2>4. f \in Runs
    BY <2>2, <2>3 DEF Maybe
  <2>5. published.team \in Maybe(Teams) /\ published.generation \in Generations
    BY ContextFields DEF Inv, Types
  <2>6. working' \in Contexts /\ Placed(working')
    BY <2>1, <2>2, <2>4, <2>5 DEF Contexts, Placed, Maybe
  <2>7. Types'
    BY <1>2, <2>2, <2>6 DEF Inv, Types, Stage, Request, Free, Runs
  <2>8. Steady /\ write' \in [Threads -> Writes] /\ Moves
    BY <1>2, Same DEF Stage, Steady, Inv
  <2> QED
    BY <2>7, <2>8, SteadyKeeps DEF Inv
<1>3. ASSUME NEW s \in States, OtherUser(s) PROVE Inv'
  <2>1. durable' \in Stores
    BY <1>3 DEF OtherUser, Inv, Types, Stores
  <2>2. Steady
    BY <1>3 DEF OtherUser, Steady, Inv, Types, Stores
  <2>3. Types'
    BY <1>3, <2>1 DEF Inv, Types, OtherUser
  <2>4. write' \in [Threads -> Writes] /\ Moves
    BY <1>3, Same DEF OtherUser, Inv
  <2> QED
    BY <2>2, <2>3, <2>4, SteadyKeeps DEF Inv
<1>4. ASSUME NEW t \in Teams, SelectTeam(t) PROVE Inv'
  <2>1. published' \in Contexts /\ Placed(published')
    BY <1>4, Absent DEF SelectTeam, Inv, Types, Contexts, Placed, Maybe
  <2>2. QueueTyped(Staled(queue))
    BY StaledTyped DEF Inv, Types, QueueTyped
  <2>3. Submit(Staled(queue), Task("identity", published'))
    BY <1>4 DEF SelectTeam
  <2>4. QueueTyped(queue') /\ Len(queue') <= MaxQueue /\ latestOk' \in BOOLEAN
    BY <2>1, <2>2, <2>3, SubmitTyped
  <2>5. Types'
    BY <1>4, <2>1, <2>4, Absent DEF Inv, Types, QueueTyped, SelectTeam, Request, Free
  <2>6. Steady /\ write' \in [Threads -> Writes] /\ Moves
    BY <1>4, Same DEF SelectTeam, Steady, Inv
  <2> QED
    BY <2>5, <2>6, SteadyKeeps DEF Inv
<1> QED
  BY <1>1, <1>2, <1>3, <1>4 DEF Requests

LEMMA ExecutorKeeps ==
  ASSUME Inv, Executor
  PROVE  Inv'
<1>1. CASE StartSnapshot
  <2> DEFINE c == Head(queue).context
  <2>1. /\ QueueTyped(Tail(queue)) /\ Len(Tail(queue)) <= MaxQueue
        /\ c \in Contexts /\ Placed(c)
    BY <1>1, TailTyped DEF StartSnapshot, Inv
  <2>2. BeginWrite("queue", c, TRUE) /\ "queue" \in Threads
    BY <1>1 DEF StartSnapshot, Threads
  <2> HIDE DEF c
  <2>3. write' \in [Threads -> Writes] /\ Moves
    BY <2>1, <2>2, Begins1 DEF Inv
  <2>4. Types'
    BY <1>1, <2>1, <2>3 DEF Inv, Types, QueueTyped, StartSnapshot
  <2>5. Steady
    BY <1>1 DEF StartSnapshot, Steady
  <2> QED
    BY <2>3, <2>4, <2>5, SteadyKeeps DEF Inv
<1>2. CASE EndSnapshot
  <2>1. write' \in [Threads -> Writes] /\ Moves
    <3>1. "queue" \in Threads /\ "owner" \in Threads /\ "queue" # "owner"
      BY DEF Threads
    <3> QED
      BY <1>2, <3>1, Dropped DEF EndSnapshot, Inv
  <2>2. Types' /\ Steady
    BY <1>2, <2>1 DEF Inv, Types, EndSnapshot, Steady
  <2> QED
    BY <2>1, <2>2, SteadyKeeps DEF Inv
<1>3. CASE WriteIdentity
  <2> DEFINE c == Head(queue).context
  <2>1. /\ QueueTyped(Tail(queue)) /\ Len(Tail(queue)) <= MaxQueue
        /\ c \in Contexts /\ Placed(c)
    BY <1>3, TailTyped DEF WriteIdentity, Inv
  <2>2. durable' \in {durable, Stored(durable, "pointer", c, FALSE)}
    BY <1>3 DEF WriteIdentity
  <2>3. durable \in Stores /\ "pointer" \in Allowed(c)
    BY DEF Inv, Types, Allowed, Puts
  <2>4. durable' \in Stores
    BY <2>1, <2>2, <2>3, StoredTyped
  <2>5. Steady
    BY <2>2, <2>3 DEF Steady, Stored, Stores
  <2>6. latestOk' \in BOOLEAN
    BY <1>3 DEF WriteIdentity, Inv, Types
  <2>7. Types'
    BY <1>3, <2>1, <2>4, <2>6 DEF Inv, Types, QueueTyped, WriteIdentity
  <2>8. write' \in [Threads -> Writes] /\ Moves
    BY <1>3, Same DEF WriteIdentity, Inv
  <2> QED
    BY <2>5, <2>7, <2>8, SteadyKeeps DEF Inv
<1> QED
  BY <1>1, <1>2, <1>3 DEF Executor

LEMMA Threads2 == "queue" \in Threads /\ "owner" \in Threads /\ "owner" # "queue"
BY DEF Threads

(* The id a published bundle is given restart authority under.              *)
LEMMA BootTyped ==
  ASSUME Types, NeedsBoot
  PROVE  LET c == [published EXCEPT !.generation = BootGeneration]
         IN  c \in Contexts /\ Placed(c) /\ SameEvidence(c, published)
<1>1. published \in Contexts /\ Placed(published) /\ durable \in Stores
  BY DEF Types
<1>2. published.state \in States
  BY <1>1, ContextFields DEF NeedsBoot, Terminal, Placed
<1>3. durable.manifest[published.state].generation \in Generations
  BY <1>1, <1>2 DEF Stores, Manifests
<1>4. <<"bootstrap", published.state>> \in {"bootstrap"} \X States
  BY <1>2
<1>5. BootGeneration \in Generations
  <2>1. <<"bootstrap", published.state>> \in Generations
    BY <1>4 DEF Generations
  <2>2. published.generation \in Generations
    BY <1>1, ContextFields
  <2> QED
    BY <1>3, <2>1, <2>2 DEF BootGeneration
<1> HIDE DEF BootGeneration
<1> QED
  BY <1>1, <1>5, Renamed DEF Placed, SameEvidence

LEMMA PromotedTyped ==
  ASSUME Types, NEW c \in Contexts, NEW p, p \in {Promoted, LastPromoted}
  PROVE  /\ [c EXCEPT !.generation = p] \in Contexts /\ p # None
         /\ Placed(c) => Placed([c EXCEPT !.generation = p])
<1>1. promotions \in Nat
  BY DEF Types
<1>2. p \in {"promoted"} \X Nat
  BY <1>1 DEF Promoted, LastPromoted
<1>3. p \in Generations
  BY <1>2 DEF Generations
<1>4. p # None
  BY <1>2
<1> QED
  BY <1>3, <1>4, Renamed DEF Placed

LEMMA PublicationKeeps ==
  ASSUME Inv, Publication
  PROVE  Inv'
<1>0. /\ durable \in Stores /\ working \in Contexts /\ Placed(working)
      /\ published \in Contexts /\ Placed(published) /\ promotions \in Nat
  BY DEF Inv, Types
<1>1. CASE BeginPublication \/ DrainFails \/ Refuse
  <2>1. Types' /\ Steady /\ write' = write
    BY <1>1, Absent DEF Inv, Types, BeginPublication, DrainFails, Refuse, Abandon, Stays,
       Steady, Phases
  <2> QED
    BY <2>1, Same, SteadyKeeps DEF Inv
<1>2. CASE Boot
  <2>1. write' \in [Threads -> Writes] /\ Moves
    <3>1. CASE NeedsBoot
      BY <1>2, <3>1, BootTyped, Begins1, Threads2 DEF Boot, Inv
    <3>2. CASE ~NeedsBoot
      BY <1>0, <1>2, <3>2, Begins1, Threads2 DEF Boot, Inv
    <3> QED
      BY <3>1, <3>2
  <2>2. phase' \in Phases
    BY <1>2 DEF Boot, Phases
  <2>3. Types' /\ Steady
    BY <1>2, <2>1, <2>2 DEF Inv, Types, Boot, Stays, Steady
  <2> QED
    BY <2>1, <2>3, SteadyKeeps DEF Inv
<1>3. CASE StageArtifacts
  <2>1. write' \in [Threads -> Writes] /\ Moves
    BY <1>0, <1>3, Begins1, Threads2 DEF StageArtifacts, Inv
  <2>2. Types' /\ Steady
    BY <1>3, <2>1 DEF Inv, Types, StageArtifacts, Stays, Steady, Phases
  <2> QED
    BY <2>1, <2>2, SteadyKeeps DEF Inv
<1>4. ASSUME NEW c \in {working, published}, Present(c)
      PROVE  durable' \in Stores /\ Steady /\ promotions' \in Nat
  <2> DEFINE d == [c EXCEPT !.generation = Promoted]
  <2>1. d \in Contexts
    BY <1>0, PromotedTyped DEF Inv
  <2>2. durable' = [durable EXCEPT !.presented[c.state] = d]
    BY <1>4 DEF Present
  <2> HIDE DEF d
  <2>3. [durable.presented EXCEPT ![c.state] = d] \in [States -> Contexts]
    BY <1>0, <2>1 DEF Stores
  <2>4. durable' = [durable EXCEPT !.presented = [durable.presented EXCEPT ![c.state] = d]]
    BY <2>2
  <2>5. durable' \in Stores /\ Steady
    BY <1>0, <2>3, <2>4 DEF Stores, Steady
  <2> QED
    BY <1>0, <1>4, <2>5 DEF Present
<1>5. CASE PromoteWorking
  <2>1. durable' \in Stores /\ Steady /\ promotions' \in Nat
    BY <1>4, <1>5 DEF PromoteWorking
  <2>2. write' \in [Threads -> Writes] /\ Moves
    BY <1>5, Dropped, Threads2 DEF PromoteWorking, Inv
  <2>3. Types'
    BY <1>5, <2>1, <2>2 DEF Inv, Types, PromoteWorking, Phases
  <2> QED
    BY <2>1, <2>2, <2>3, SteadyKeeps DEF Inv
<1>6. CASE Commit
  <2>1. Target \in Contexts /\ Placed(Target)
    BY <1>0, PromotedTyped DEF Target, Inv
  <2>2. write' \in [Threads -> Writes] /\ Moves
    BY <1>6, <2>1, Begins1, Threads2 DEF Commit, Inv
  <2>3. Types' /\ Steady
    BY <1>6, <2>2 DEF Inv, Types, Commit, Stays, Steady, Phases
  <2> QED
    BY <2>2, <2>3, SteadyKeeps DEF Inv
<1>7. CASE Swap
  <2>1. Target \in Contexts /\ Placed(Target)
    BY <1>0, PromotedTyped DEF Target, Inv
  <2>2. write' \in [Threads -> Writes] /\ Moves
    BY <1>7, Dropped, Threads2 DEF Swap, Inv
  <2>3. published' \in Contexts /\ Placed(published') /\ working' \in Contexts /\ Placed(working')
    BY <1>7, <2>1, Absent DEF Swap
  <2>4. Types' /\ Steady
    BY <1>7, <2>2, <2>3 DEF Inv, Types, Swap, Stays, Steady, Phases
  <2> QED
    BY <2>2, <2>4, SteadyKeeps DEF Inv
<1>8. CASE Bind
  <2>1. durable' \in Stores /\ Steady /\ promotions' \in Nat
    BY <1>4, <1>8 DEF Bind
  <2>2. published' \in Contexts /\ Placed(published')
    BY <1>0, <1>8, PromotedTyped DEF Bind, Inv
  <2>3. write' \in [Threads -> Writes] /\ Moves
    BY <1>8, <2>2, Begins1, Threads2 DEF Bind, Inv
  <2>4. Types'
    BY <1>8, <2>1, <2>2, <2>3 DEF Inv, Types, Bind, Phases
  <2> QED
    BY <2>1, <2>3, <2>4, SteadyKeeps DEF Inv
<1>9. CASE EndBind
  <2>1. write' \in [Threads -> Writes] /\ Moves
    BY <1>9, Dropped, Threads2 DEF EndBind, Inv
  <2>2. Types' /\ Steady
    BY <1>9, <2>1 DEF Inv, Types, EndBind, Stays, Steady, Phases
  <2> QED
    BY <2>1, <2>2, SteadyKeeps DEF Inv
<1> QED
  BY <1>1, <1>2, <1>3, <1>5, <1>6, <1>7, <1>8, <1>9 DEF Publication

LEMMA FaultsKeep ==
  ASSUME Inv, (\E t \in Threads : PutFails(t)) \/ Crash \/ Restart
  PROVE  Inv'
<1>1. ASSUME NEW t \in Threads, PutFails(t) PROVE Inv'
  <2>1. write' \in [Threads -> Writes] /\ Moves
    BY <1>1, Dropped, OtherThread DEF PutFails, Inv
  <2>2. phase' \in Phases /\ working' \in Contexts /\ Placed(working') /\ latestOk' \in BOOLEAN
    BY <1>1, Absent DEF PutFails, Inv, Types, Phases
  <2>3. Types' /\ Steady
    BY <1>1, <2>1, <2>2 DEF Inv, Types, PutFails, Fault, Steady
  <2> QED
    BY <2>1, <2>3, SteadyKeeps DEF Inv
<1>2. CASE Crash
  <2>1. write' \in [Threads -> Writes] /\ Moves
    BY <1>2, Absent DEF Crash, Moves, Idle
  <2>2. queue' \in Seq(Tasks) /\ Len(queue') <= MaxQueue /\ \A i \in DOMAIN queue' : Placed(queue'[i].context)
    BY <1>2, EmptySeq DEF Crash
  <2>3. Steady /\ durable' \in Stores
    BY <1>2 DEF Inv, Types, Crash, Steady
  <2>4. /\ published' \in Contexts /\ Placed(published') /\ working' \in Contexts
        /\ Placed(working') /\ phase' \in Phases /\ latestOk' \in BOOLEAN /\ up' \in BOOLEAN
    BY <1>2, Absent DEF Crash, Phases
  <2>5. /\ runs' \in 0..MaxRuns /\ promotions' \in Nat /\ events' \in Nat /\ faults' \in Nat
    BY <1>2 DEF Inv, Types, Crash, Fault
  <2>6. Types'
    BY <2>1, <2>2, <2>3, <2>4, <2>5 DEF Types
  <2> QED
    BY <2>1, <2>3, <2>6, SteadyKeeps DEF Inv
<1>3. CASE Restart
  <2>1. published' \in Contexts /\ Placed(published') /\ durable \in Stores
    BY <1>3, RestoredTyped DEF Restart, Inv, Types
  <2>2. "lastGood" \in Allowed(published')
    BY DEF Allowed, Puts
  <2>3. durable' \in {durable, Stored(durable, "lastGood", published', FALSE)}
    BY <1>3 DEF Restart
  <2>4. durable' \in Stores
    BY <2>1, <2>2, <2>3, StoredTyped
  <2>5. Steady
    BY <2>1, <2>3 DEF Steady, Stored, Stores
  <2>6. Types'
    BY <1>3, <2>1, <2>4 DEF Inv, Types, Restart
  <2>7. write' \in [Threads -> Writes] /\ Moves
    BY <1>3, Same DEF Restart, Inv
  <2> QED
    BY <2>5, <2>6, <2>7, SteadyKeeps DEF Inv
<1> QED
  BY <1>1, <1>2, <1>3

-----------------------------------------------------------------------------
(* The invariant holds, whatever is interrupted.                            *)
THEOREM Invariance == Spec => []Inv
<1>1. Init => Inv
  <2> SUFFICES ASSUME Init PROVE Inv
    OBVIOUS
  <2>1. queue \in Seq(Tasks) /\ Len(queue) = 0 /\ \A i \in DOMAIN queue : Placed(queue[i].context)
    BY EmptySeq DEF Init
  <2>2. Types
    BY <2>1, Absent DEF Init, Types, Phases
  <2>3. WritesSound
    <3>1. \A t \in Threads : write[t].todo = << >>
      BY DEF Init, Idle
    <3>2. DOMAIN << >> = {} /\ \A S : << >> \in Seq(S)
      BY EmptySeq
    <3>3. \A t \in Threads : write[t].todo \in Seq(Allowed(write[t].context))
      BY <3>1, <3>2, Zenon
    <3>4. \A t \in Threads : Ready(write[t])
      BY <3>1, <3>2 DEF Ready
    <3> QED
      BY <3>3, <3>4 DEF WritesSound
  <2>4. ManifestBacked
    BY DEF Init, ManifestBacked, EmptyStore
  <2> QED
    BY <2>2, <2>3, <2>4 DEF Inv
<1>2. Inv /\ [Next]_vars => Inv'
  <2> SUFFICES ASSUME Inv, [Next]_vars PROVE Inv'
    OBVIOUS
  <2>1. ASSUME NEW t \in Threads, Put(t) PROVE Inv'
    BY <2>1, PutKeeps DEF Inv
  <2>2. CASE UNCHANGED vars
    BY <2>2 DEF vars, Inv, Types, WritesSound, Ready, ReadyAt, Follows, ManifestBacked
  <2> QED
    BY <2>1, <2>2, RequestsKeep, ExecutorKeeps, PublicationKeeps, FaultsKeep DEF Next
<1> QED
  BY <1>1, <1>2, PTL DEF Spec

(* The variables have their types.                                          *)
THEOREM TypeCorrect == Spec => []TypeOK
<1>1. Inv => TypeOK
  BY TypesAreTypeOK DEF Inv
<1> QED
  BY <1>1, Invariance, PTL

(* A durable generation manifest names only artifacts that are durable,     *)
(* whichever writes and publications were interrupted.                      *)
THEOREM ManifestsBacked == Spec => []ManifestBacked
<1>1. Inv => ManifestBacked
  BY DEF Inv
<1> QED
  BY <1>1, Invariance, PTL

HIDE PublicationAssumption

LEMMA Times == States \subseteq Nat /\ 0 \notin States
BY PublicationAssumption

LEMMA RowNat ==
  ASSUME NEW d \in Stores
  PROVE  d.row \in States \cup {0} /\ d.row \in Nat
<1>1. d.row \in States \cup {0}
  BY DEF Stores
<1>2. \A r \in States \cup {0} : r \in Nat
  BY Times
<1> QED
  BY <1>1, <1>2, Zenon

LEMMA Ids == \A n \in Nat : <<"promoted", n>> # None /\ <<"bootstrap", n>> # None
<1> SUFFICES ASSUME NEW n \in Nat PROVE <<"promoted", n>> # None /\ <<"bootstrap", n>> # None
  OBVIOUS
<1>1. /\ <<"promoted", n>> \in {"promoted", "bootstrap"} \X Nat
      /\ <<"bootstrap", n>> \in {"promoted", "bootstrap"} \X Nat
  OBVIOUS
<1> QED
  BY <1>1, PublicationAssumption


-----------------------------------------------------------------------------
(* What is left to put of a snapshot.  A bundle published with its manifest *)
(* is always at an end of the full plan.                                    *)
Todo(w) == {w.todo[i] : i \in DOMAIN w.todo}

Ending(w) ==
  /\ Len(w.todo) <= 7
  /\ \A i \in 1..Len(w.todo) : w.todo[i] = Full[7 - Len(w.todo) + i]

LEMMA InTodo ==
  ASSUME NEW w, NEW p
  PROVE  p \in Todo(w) <=> \E i \in DOMAIN w.todo : w.todo[i] = p
BY DEF Todo

LEMMA TodoTail ==
  ASSUME NEW w \in Writes, w.todo # << >>
  PROVE  LET v == [w EXCEPT !.todo = Tail(@)]
         IN  /\ Todo(v) \subseteq Todo(w) /\ Todo(w) = Todo(v) \cup {Head(w.todo)}
             /\ Ending(w) => Ending(v)
<1> DEFINE v == [w EXCEPT !.todo = Tail(@)]
           n == Len(w.todo)
<1>1. v.todo = Tail(w.todo) /\ w.todo \in Seq(Puts)
  BY DEF Writes
<1>2. /\ n \in Nat /\ n >= 1 /\ DOMAIN w.todo = 1..n /\ DOMAIN v.todo = 1..(n - 1)
      /\ Len(v.todo) = n - 1 /\ Head(w.todo) = w.todo[1]
      /\ \A i \in 1..(n - 1) : v.todo[i] = w.todo[i + 1]
  BY <1>1
<1> HIDE DEF n, v
<1>3. \A i \in 1..(n - 1) : i + 1 \in 1..n
  BY <1>2
<1>4. \A i \in 1..n : i = 1 \/ (i - 1 \in 1..(n - 1) /\ (i - 1) + 1 = i)
  BY <1>2
<1>5. Todo(v) \subseteq Todo(w) /\ Head(w.todo) \in Todo(w)
  <2>1. \A i \in DOMAIN v.todo : \E j \in DOMAIN w.todo : v.todo[i] = w.todo[j]
    BY <1>2, <1>3
  <2>2. 1 \in DOMAIN w.todo
    BY <1>2
  <2>3. ASSUME NEW p \in Todo(v) PROVE p \in Todo(w)
    <3>1. PICK i \in DOMAIN v.todo : v.todo[i] = p
      BY InTodo
    <3> QED
      BY <2>1, <3>1, InTodo
  <2>4. Head(w.todo) \in Todo(w)
    BY <1>2, <2>2, InTodo
  <2> QED
    BY <2>3, <2>4
<1>6. Todo(w) \subseteq Todo(v) \cup {Head(w.todo)}
  <2> SUFFICES ASSUME NEW i \in 1..n PROVE w.todo[i] \in Todo(v) \cup {Head(w.todo)}
    BY <1>2, InTodo
  <2>1. CASE i = 1
    BY <1>2, <2>1
  <2>2. CASE i - 1 \in 1..(n - 1) /\ (i - 1) + 1 = i
    <3>1. v.todo[i - 1] = w.todo[i]
      BY <1>2, <2>2
    <3> QED
      BY <1>2, <2>2, <3>1, InTodo
  <2> QED
    BY <1>4, <2>1, <2>2
<1>7. ASSUME Ending(w) PROVE Ending(v)
  <2>1. n <= 7 /\ \A i \in 1..n : w.todo[i] = Full[7 - n + i]
    BY <1>7 DEF Ending, n
  <2>2. \A i \in 1..(n - 1) : 7 - n + (i + 1) = 7 - (n - 1) + i
    BY <1>2
  <2>3. \A i \in 1..(n - 1) : v.todo[i] = Full[7 - (n - 1) + i]
    BY <1>2, <1>3, <2>1, <2>2
  <2> QED
    BY <1>2, <2>1, <2>3 DEF Ending
<1> QED
  BY <1>5, <1>6, <1>7 DEF v

(* What an end of the full plan has left, by its first put.                 *)
LEMMA EndingLeft ==
  ASSUME NEW w \in Writes, Ending(w), w.todo # << >>
  PROVE  LET put == Head(w.todo)
             v == [w EXCEPT !.todo = Tail(@)]
         IN  /\ put \in Puts
             /\ put \in {"manifest", "pointer", "lastGood"} =>
                  Todo(w) \subseteq {"manifest", "pointer", "lastGood"}
             /\ put \in {"pointer", "lastGood"} => Todo(w) \subseteq {"pointer", "lastGood"}
             /\ put = "lastGood" => Todo(w) = {"lastGood"}
             /\ put \notin Todo(v)
             /\ put \notin {"manifest", "pointer", "lastGood"} =>
                  {"manifest", "pointer", "lastGood"} \subseteq Todo(v)
             /\ put \in {"manifest", "pointer"} => "lastGood" \in Todo(v)
             /\ put = "manifest" => "pointer" \in Todo(v)
<1> DEFINE v == [w EXCEPT !.todo = Tail(@)]
           n == Len(w.todo)
           k == 8 - n
           put == Head(w.todo)
<1>1. v.todo = Tail(w.todo) /\ w.todo \in Seq(Puts)
  BY DEF Writes
<1>a. n \in Nat /\ n >= 1
  BY <1>1
<1>2. /\ n \in 1..7 /\ DOMAIN w.todo = 1..n /\ DOMAIN v.todo = 1..(n - 1)
      /\ put = w.todo[1]
      /\ \A i \in 1..(n - 1) : v.todo[i] = w.todo[i + 1]
      /\ \A i \in 1..n : w.todo[i] = Full[7 - n + i]
  <2>1. n <= 7 /\ \A i \in 1..n : w.todo[i] = Full[7 - n + i]
    BY DEF Ending
  <2>2. DOMAIN w.todo = 1..n /\ put = w.todo[1] /\ DOMAIN v.todo = 1..(n - 1)
        /\ \A i \in 1..(n - 1) : v.todo[i] = w.todo[i + 1]
    BY <1>1, <1>a
  <2> HIDE DEF n
  <2> QED
    BY <1>a, <2>1, <2>2
<1> HIDE DEF n, v, put
<1>3. k \in 1..7 /\ put = Full[k]
  <2>1. 1 \in 1..n /\ 7 - n + 1 = k /\ k \in 1..7
    BY <1>2
  <2> QED
    BY <1>2, <2>1
<1>4. \A p \in Todo(w) : \E j \in k..7 : p = Full[j]
  <2> SUFFICES ASSUME NEW p \in Todo(w) PROVE \E j \in k..7 : p = Full[j]
    OBVIOUS
  <2>0. PICK i \in 1..n : w.todo[i] = p
    BY <1>2, InTodo
  <2>1. 7 - n + i \in k..7
    BY <1>2
  <2> QED
    BY <1>2, <2>0, <2>1
<1>5. \A j \in (k + 1)..7 : Full[j] \in Todo(v)
  <2> SUFFICES ASSUME NEW j \in (k + 1)..7 PROVE Full[j] \in Todo(v)
    OBVIOUS
  <2> DEFINE i == j - k
  <2>1. i \in 1..(n - 1) /\ i + 1 \in 1..n /\ 7 - n + (i + 1) = j
    BY <1>2
  <2>2. v.todo[i] = w.todo[i + 1] /\ w.todo[i + 1] = Full[j]
    BY <1>2, <2>1
  <2> QED
    BY <1>2, <2>1, <2>2, InTodo
<1>6. \A p \in Todo(v) : \E j \in (k + 1)..7 : p = Full[j]
  <2> SUFFICES ASSUME NEW p \in Todo(v) PROVE \E j \in (k + 1)..7 : p = Full[j]
    OBVIOUS
  <2>0. PICK i \in 1..(n - 1) : v.todo[i] = p
    BY <1>2, InTodo
  <2>1. 7 - n + (i + 1) \in (k + 1)..7 /\ i + 1 \in 1..n
    BY <1>2
  <2> QED
    BY <1>2, <2>0, <2>1
<1>7. "lastGood" \in Todo(w) \/ put # "lastGood"
  <2>1. put \in Todo(w)
    BY <1>2, InTodo
  <2> QED
    BY <2>1
<1>8. /\ Full[1] = "row" /\ Full[2] = "forecast" /\ Full[3] = "simulation" /\ Full[4] = "value"
      /\ Full[5] = "manifest" /\ Full[6] = "pointer" /\ Full[7] = "lastGood"
  BY DEF Full
<1> HIDE DEF k
<1>9. k \in 1..7 /\ \A j \in 1..7 : j \in {1, 2, 3, 4, 5, 6, 7}
  BY <1>3
<1> HIDE DEF Full
<1>10. put \in Puts /\ put \notin Todo(v)
  <2>1. put \in Puts
    BY <1>3, <1>8, <1>9 DEF Puts
  <2>2. \A i, j \in 1..7 : Full[i] = Full[j] => i = j
    BY <1>8, <1>9
  <2> QED
    BY <1>3, <1>6, <2>1, <2>2
<1>11. put = "manifest" => k = 5
  BY <1>3, <1>8, <1>9
<1>12. put = "pointer" => k = 6
  BY <1>3, <1>8, <1>9
<1>13. put = "lastGood" => k = 7
  BY <1>3, <1>8, <1>9
<1>14. put \notin {"manifest", "pointer", "lastGood"} => k < 5
  BY <1>3, <1>8, <1>9, <1>10 DEF Puts
<1>15. /\ k < 5 => "manifest" \in Todo(v)
       /\ k < 6 => "pointer" \in Todo(v)
       /\ k < 7 => "lastGood" \in Todo(v)
  BY <1>5, <1>8, <1>9
<1>16. \A p \in Todo(w) :
         /\ k = 5 => p \in {"manifest", "pointer", "lastGood"}
         /\ k = 6 => p \in {"pointer", "lastGood"}
         /\ k = 7 => p = "lastGood"
  BY <1>4, <1>8, <1>9
<1>17. put \in {"manifest", "pointer", "lastGood"} => k \in {5, 6, 7}
  BY <1>11, <1>12, <1>13
<1>18. put \in {"manifest", "pointer", "lastGood"} =>
         Todo(w) \subseteq {"manifest", "pointer", "lastGood"}
  BY <1>16, <1>17
<1>19. put \in {"pointer", "lastGood"} => Todo(w) \subseteq {"pointer", "lastGood"}
  BY <1>12, <1>13, <1>16
<1>20. put = "lastGood" => Todo(w) = {"lastGood"}
  BY <1>7, <1>13, <1>16
<1> QED
  BY <1>9, <1>10, <1>11, <1>12, <1>14, <1>15, <1>18, <1>19, <1>20 DEF put, v

LEMMA FullTodo ==
  ASSUME NEW w, w.todo = Full
  PROVE  Todo(w) = Puts /\ Ending(w)
<1>1. DOMAIN Full = 1..7 /\ Len(Full) = 7
  BY DEF Full
<1>2. \A p \in Puts : \E i \in 1..7 : Full[i] = p
  BY DEF Puts, Full
<1>3. \A i \in 1..7 : Full[i] \in Puts
  BY DEF Puts, Full
<1>4. Todo(w) = Puts
  BY <1>1, <1>2, <1>3, InTodo
<1>5. Ending(w)
  BY <1>1 DEF Ending
<1> QED
  BY <1>4, <1>5

-----------------------------------------------------------------------------
(* What one put changes in the store, and what it leaves alone.             *)
Place(c) == [state |-> c.state, team |-> c.team]

LEMMA StoredFields ==
  ASSUME NEW d \in Stores, NEW c \in Contexts, NEW put \in Puts, NEW late \in BOOLEAN,
         NEW e, e = Stored(d, put, c, late)
  PROVE  /\ put = "row" => e.row = IF c.state > d.row THEN c.state ELSE d.row
         /\ put # "row" => e.row = d.row
         /\ put = "pointer" => e.pointer = Place(c)
         /\ put # "pointer" => e.pointer = d.pointer
         /\ put = "lastGood" => e.lastGood = Place(c)
         /\ put # "lastGood" => e.lastGood = d.lastGood
         /\ put = "forecast" => e.forecasts = d.forecasts \cup {c.forecast}
         /\ put # "forecast" => e.forecasts = d.forecasts
         /\ put = "simulation" => e.simulations = d.simulations \cup {c.forecast}
         /\ put # "simulation" => e.simulations = d.simulations
         /\ put = "value" => e.values = d.values \cup {c.value}
         /\ put # "value" => e.values = d.values
         /\ e.presented = d.presented
         /\ \A x \in States :
              /\ put = "forecast" /\ x = c.state => e.newest[x].forecast = c.forecast
              /\ ~(put = "forecast" /\ x = c.state) =>
                   e.newest[x].forecast = d.newest[x].forecast
              /\ put = "value" /\ x = c.state => e.newest[x].value = c.value
              /\ ~(put = "value" /\ x = c.state) => e.newest[x].value = d.newest[x].value
              /\ put = "manifest" /\ ~late /\ x = c.state => e.manifest[x] = Manifest(c)
              /\ ~(put = "manifest" /\ ~late /\ x = c.state) => e.manifest[x] = d.manifest[x]
<1>1. CASE put \in {"row", "pointer", "lastGood"}
  BY <1>1 DEF Stored, Stores, Place
<1>2. CASE put = "forecast"
  BY <1>2 DEF Stored, Stores
<1>3. CASE put = "simulation"
  BY <1>3 DEF Stored, Stores
<1>4. CASE put = "value"
  BY <1>4 DEF Stored, Stores
<1>5. CASE put = "manifest"
  BY <1>5 DEF Stored, Stores
<1> QED
  BY <1>1, <1>2, <1>3, <1>4, <1>5 DEF Puts

(* The evidence of a state, and what a restart restores.                    *)
LEMMA EvidenceManifest ==
  ASSUME NEW d \in Stores, NEW c \in Contexts, Terminal(c), c.state \in States,
         c.forecast \in d.forecasts, c.forecast \in d.simulations, c.value \in d.values,
         d.manifest[c.state] = Manifest(c)
  PROVE  Evidence(d, c.state, c.team) = c
<1> DEFINE s == c.state
           m == d.manifest[s]
<1>1. /\ m.forecast = c.forecast /\ m.simulation = c.simulation /\ m.value = c.value
      /\ m.team = c.team /\ m.generation = c.generation
  BY DEF Manifest
<1>2. m # NoManifest
  <2>1. NoManifest.forecast = None /\ c.forecast # None
    BY DEF NoManifest, Manifest, NoContext, Terminal
  <2> QED
    BY <1>1, <2>1
<1> HIDE DEF m
<1>3. Bound(d, s).forecast = c.forecast /\ Bound(d, s).value = c.value
  BY <1>1, <1>2 DEF Bound, m
<1>4. c.simulation = TRUE /\ c.forecast # None
  BY ContextFields DEF Terminal
<1>5. Evidence(d, s, c.team)
      = [state |-> s, team |-> c.team, forecast |-> c.forecast, simulation |-> TRUE,
         value |-> c.value, generation |-> c.generation]
  BY <1>1, <1>2, <1>3, <1>4 DEF Evidence, m
<1> QED
  BY <1>4, <1>5, ContextFields

LEMMA EvidenceKept ==
  ASSUME NEW d \in Stores, NEW e \in Stores, NEW s \in States, NEW team,
         d.forecasts \subseteq e.forecasts, d.simulations \subseteq e.simulations,
         d.values \subseteq e.values, e.manifest[s] = d.manifest[s],
         IF d.manifest[s] # NoManifest
         THEN /\ d.manifest[s].forecast \in d.forecasts
              /\ d.manifest[s].forecast \in d.simulations /\ d.manifest[s].value \in d.values
         ELSE /\ e.newest[s].forecast = d.newest[s].forecast
              /\ e.newest[s].value = d.newest[s].value
              /\ e.simulations = d.simulations \/ d.newest[s].forecast \in d.simulations
  PROVE  Evidence(e, s, team) = Evidence(d, s, team)
<1>1. /\ d.newest[s] \in [forecast : Maybe(Runs), value : Maybe(Runs)]
      /\ e.newest[s] \in [forecast : Maybe(Runs), value : Maybe(Runs)]
  BY DEF Stores
<1>2. CASE d.manifest[s] # NoManifest
  <2>1. Bound(e, s) = Bound(d, s) /\ Bound(d, s).forecast = d.manifest[s].forecast
    BY <1>2 DEF Bound
  <2> QED
    BY <1>2, <2>1 DEF Evidence
<1>3. CASE d.manifest[s] = NoManifest
  <2>1. e.newest[s] = d.newest[s]
    BY <1>1, <1>3
  <2>2. Bound(e, s) = Bound(d, s) /\ Bound(d, s) = d.newest[s]
    BY <1>3, <2>1 DEF Bound
  <2> QED
    BY <1>3, <2>2 DEF Evidence
<1> QED
  BY <1>2, <1>3

LEMMA RestoredAt ==
  ASSUME NEW d \in Stores, d.pointer.state # 0, d.pointer.state \in {d.row, d.lastGood.state}
  PROVE  Restored(d) = Evidence(d, d.pointer.state, d.pointer.team)
BY DEF Restored

LEMMA RestoredPlaced ==
  ASSUME NEW d \in Stores, Restored(d).state # 0
  PROVE  /\ d.pointer.state = Restored(d).state /\ d.pointer.team = Restored(d).team
         /\ d.pointer.state \in {d.row, d.lastGood.state}
         /\ d.pointer.state \in States
         /\ Restored(d) = Evidence(d, d.pointer.state, d.pointer.team)
<1>1. NoContext.state = 0
  BY DEF NoContext
<1>2. d.pointer.state # 0 /\ d.pointer.state \in {d.row, d.lastGood.state}
  BY <1>1 DEF Restored
<1>3. d.pointer.state \in States /\ d.pointer.team \in Maybe(Teams)
  BY <1>2 DEF Stores, Identities
<1> QED
  BY <1>2, <1>3, RestoredAt, EvidenceTyped

-----------------------------------------------------------------------------
(* What the two writers are doing.  From the drain on, a publication is the *)
(* only writer (Sole); what it writes is the restart authority of the       *)
(* bundle readers see (Granted), then the artifacts of the bundle it        *)
(* stages, then that bundle whole, and what it has put stays put (Laid).    *)
Owner == write["owner"]
Checkpoint == write["queue"]

Sole == phase \in {"boot", "stage", "promote", "commit"} => NothingQueued

Seeded ==
  /\ working # NoContext =>
       /\ Terminal(working) /\ working.state \in States
       /\ published.state \in States /\ published.state <= working.state
       /\ working.team = published.team
       /\ published.generation = None => working.generation = None
  /\ phase \in {"drain", "boot", "stage", "promote", "commit"} => working # NoContext

Laid ==
  LET c == Owner.context
      Left(put) == put \in Todo(Owner)
  IN  /\ Terminal(c) /\ c.state \in States
      /\ Ending(Owner) /\ ~Owner.superseded
      /\ Left("row") \/ c.state <= durable.row
      /\ Left("manifest") \/ durable.manifest[c.state] = Manifest(c)
      /\ Left("pointer") \/ durable.pointer = Place(c)
      /\ Left("lastGood") \/ durable.lastGood = Place(c)

Granted ==
  /\ SameEvidence(Owner.context, published) /\ Place(Owner.context) = Place(published)
  /\ Owner.context.generation # None
  /\ published.generation # None => Owner.context.generation = published.generation

Owning ==
  /\ phase \in {"idle", "drain", "promote"} => Owner = Idle
  /\ phase = "boot" => Laid /\ Granted
  /\ phase = "stage" => /\ Owner.context = working
                        /\ Todo(Owner) \subseteq {"row", "forecast", "simulation", "value"}
  /\ phase = "commit" => Laid /\ Owner.context = Target
  /\ phase = "bind" => /\ Owner.context = published /\ Ending(Owner)
                       /\ Terminal(published) /\ published.generation # None

Authority ==
  phase \in {"stage", "promote", "commit"} /\ Terminal(published) =>
    durable.manifest[published.state] # NoManifest

Down ==
  ~up => /\ published = NoContext /\ working = NoContext /\ queue = << >>
         /\ Checkpoint = Idle /\ Owner = Idle /\ phase = "idle" /\ faults # 0

Publishing == Sole /\ Seeded /\ Owning /\ Authority /\ Down

LEMMA TargetFields ==
  ASSUME Types
  PROVE  /\ Target \in Contexts /\ Target.state = working.state /\ Target.team = working.team
         /\ Target.forecast = working.forecast /\ Target.simulation = working.simulation
         /\ Target.value = working.value /\ Target.generation = LastPromoted
         /\ Target.generation # None /\ (Terminal(Target) <=> Terminal(working))
         /\ Placed(Target)
<1>1. LastPromoted \in Generations /\ LastPromoted # None
  <2>1. promotions \in Nat
    BY DEF Types
  <2>2. LastPromoted \in {"promoted"} \X Nat
    BY <2>1 DEF LastPromoted
  <2>3. LastPromoted # None
    BY <2>1, Ids DEF LastPromoted
  <2> QED
    BY <2>2, <2>3 DEF Generations
<1>2. working \in Contexts /\ Placed(working)
  BY DEF Types
<1> HIDE DEF LastPromoted
<1> QED
  BY <1>1, <1>2, Renamed DEF Target, Terminal, Placed

(* A writer that is idle stays so while the other one writes.               *)
LEMMA IdleSame ==
  [Idle EXCEPT !.earlier = FALSE] = Idle /\ [Idle EXCEPT !.superseded = FALSE] = Idle
<1>1. \A x \in Writes : [x EXCEPT !.earlier = x.earlier] = x
                       /\ [x EXCEPT !.superseded = x.superseded] = x
  BY DEF Writes
<1>2. Idle.earlier = FALSE /\ Idle.superseded = FALSE
  BY DEF Idle
<1>3. [Idle EXCEPT !.earlier = Idle.earlier] = Idle
      /\ [Idle EXCEPT !.superseded = Idle.superseded] = Idle
  BY <1>1, Absent
<1> QED
  BY <1>2, <1>3, Zenon

LEMMA IdleBegin ==
  ASSUME Types, NEW t \in Threads, write[Other(t)] = Idle,
         NEW c \in Contexts, Placed(c), NEW publish \in BOOLEAN, BeginWrite(t, c, publish)
  PROVE  write'[Other(t)] = Idle
<1> DEFINE w == [context |-> IF publish THEN Identified(c) ELSE c, todo |-> Plan(c, publish),
                 earlier |-> FALSE, superseded |-> FALSE]
           o == Other(t)
<1>1. o \in Threads /\ o # t /\ write \in [Threads -> Writes]
  BY OtherThread DEF Types
<1>2. write' = [write EXCEPT ![t] = w, ![o].earlier = Writing(o)]
  BY DEF BeginWrite
<1> HIDE DEF w, o
<1>3. write'[o] = [write[o] EXCEPT !.earlier = Writing(o)]
  BY <1>1, <1>2
<1>4. Writing(o) = FALSE
  BY DEF Writing, o
<1>5. [Idle EXCEPT !.earlier = FALSE] = Idle
  BY IdleSame
<1> QED
  BY <1>3, <1>4, <1>5, Zenon DEF o

LEMMA IdlePut ==
  ASSUME Types, NEW t \in Threads, write[Other(t)] = Idle, Put(t)
  PROVE  write'[Other(t)] = Idle
<1> DEFINE o == Other(t)
           put == Head(write[t].todo)
           late == write[o].superseded
                     \/ (/\ put = "manifest" /\ write[o].earlier
                         /\ write[o].context.state = write[t].context.state)
<1>1. o \in Threads /\ o # t /\ write \in [Threads -> Writes]
  BY OtherThread DEF Types
<1>2. write' = [write EXCEPT ![t].todo = Tail(@), ![o].superseded =
                  @ \/ (/\ put = "manifest" /\ write[o].earlier
                       /\ write[o].context.state = write[t].context.state)]
  BY DEF Put
<1>3. write'[o] = [write[o] EXCEPT !.superseded = late]
  BY <1>1, <1>2
<1>4. late = FALSE
  BY DEF Idle
<1>5. [Idle EXCEPT !.superseded = FALSE] = Idle
  BY IdleSame
<1> HIDE DEF late
<1> QED
  BY <1>3, <1>4, <1>5, Zenon

LEMMA IdleDrop ==
  ASSUME Types, NEW t \in Threads, write[Other(t)] = Idle,
         write' = [write EXCEPT ![t] = Idle, ![Other(t)].earlier = FALSE]
  PROVE  write'[Other(t)] = Idle
<1>1. Other(t) \in Threads /\ Other(t) # t /\ write \in [Threads -> Writes]
  BY OtherThread DEF Types
<1>2. write'[Other(t)] = [Idle EXCEPT !.earlier = FALSE]
  BY <1>1
<1> QED
  BY <1>2, IdleSame

LEMMA Others == Other("owner") = "queue" /\ Other("queue") = "owner"
BY OtherThread, Threads2 DEF Threads

(* What the checkpoint executor does leaves the other writer alone.         *)
LEMMA OwnerApart ==
  ASSUME Inv, StartSnapshot \/ EndSnapshot \/ Put("queue") \/ PutFails("queue")
  PROVE  Kept("owner") /\ (Owner = Idle => Owner' = Idle)
<1>1. Types
  BY DEF Inv
<1>2. CASE StartSnapshot
  <2> DEFINE c == Head(queue).context
  <2>1. c \in Contexts /\ Placed(c) /\ BeginWrite("queue", c, TRUE)
    BY <1>1, <1>2, TailTyped DEF StartSnapshot
  <2> HIDE DEF c
  <2> QED
    BY <1>1, <2>1, BeginEffect, IdleBegin, Others, Threads2 DEF Owner
<1>3. CASE EndSnapshot \/ PutFails("queue")
  <2>1. write' = [write EXCEPT !["queue"] = Idle, !["owner"].earlier = FALSE]
    BY <1>3, Others DEF EndSnapshot, PutFails
  <2>2. Owner = Idle => Owner' = Idle
    BY <1>1, <2>1, IdleDrop, Others, Threads2 DEF Owner
  <2>3. Kept("owner")
    BY <1>1, <2>1, Threads2 DEF Types, Kept, Writes
  <2> QED
    BY <2>2, <2>3
<1>4. CASE Put("queue")
  BY <1>1, <1>4, PutReady, IdlePut, Others, Threads2 DEF Inv, Owner
<1> QED
  BY <1>2, <1>3, <1>4


(* A bundle published with its manifest, from its first put to its last.    *)
LEMMA LaidBegins ==
  ASSUME Types, NEW c \in Contexts, Placed(c), Terminal(c), c.generation # None,
         BeginWrite("owner", c, TRUE)
  PROVE  Laid' /\ Owner'.context = c /\ Owner'.todo = Full /\ Ending(Owner)'
<1>1. /\ Owner'.context = c /\ Begun(Owner', c, TRUE) /\ ~Owner'.superseded
  <2>1. Identified(c) = c
    BY DEF Identified
  <2> QED
    BY <2>1, BeginEffect, Threads2 DEF Owner
<1>2. Owner'.todo = Full
  BY <1>1, PlanFull DEF Begun
<1>3. Todo(Owner') = Puts /\ Ending(Owner')
  BY <1>2, FullTodo
<1>4. c.state \in States
  BY ContextFields DEF Terminal, Placed
<1>5. {"row", "manifest", "pointer", "lastGood"} \subseteq Puts
  BY DEF Puts
<1>6. Todo(Owner)' = Todo(Owner') /\ Ending(Owner)' = Ending(Owner')
  BY DEF Todo, Ending
<1> QED
  BY <1>1, <1>2, <1>3, <1>4, <1>5, <1>6 DEF Laid

(* A put of the owner, whatever it writes.                                  *)
LEMMA OwnerPut ==
  ASSUME Inv, Put("owner")
  PROVE  LET c == Owner.context
             put == Head(Owner.todo)
         IN  /\ Owner \in Writes /\ c \in Contexts /\ put \in Allowed(c) /\ put \in Puts
             /\ Owner.superseded \in BOOLEAN /\ Owner.todo # << >> /\ put \in Todo(Owner)
             /\ durable \in Stores /\ durable' \in Stores
             /\ durable' = Stored(durable, put, c, Owner.superseded)
             /\ Owner' = [Owner EXCEPT !.todo = Tail(@)]
             /\ Owner'.context = c /\ Owner'.superseded = Owner.superseded
             /\ Kept("queue")
<1>1. /\ Owner \in Writes /\ Head(Owner.todo) \in Allowed(Owner.context)
      /\ Head(Owner.todo) = Owner.todo[1] /\ 1 \in DOMAIN Owner.todo
      /\ durable' = Stored(durable, Head(Owner.todo), Owner.context, Owner.superseded)
      /\ Owner' = [Owner EXCEPT !.todo = Tail(@)] /\ Kept("queue")
  BY PutReady, Others, Threads2 DEF Inv, Owner
<1>2. Owner.todo # << >>
  BY DEF Put, Owner
<1>3. Head(Owner.todo) \in Todo(Owner)
  BY <1>1, InTodo
<1>4. durable \in Stores /\ durable' \in Stores
  BY PutKeeps, Threads2 DEF Inv, Types
<1> QED
  BY <1>1, <1>2, <1>3, <1>4 DEF Writes, Allowed

LEMMA LaidPut ==
  ASSUME Inv, Laid, Put("owner")
  PROVE  Laid'
<1> DEFINE c == Owner.context
           put == Head(Owner.todo)
           late == Owner.superseded
<1>1. /\ Owner \in Writes /\ c \in Contexts /\ put \in Puts /\ Owner.todo # << >>
      /\ durable \in Stores /\ durable' \in Stores
      /\ durable' = Stored(durable, put, c, late)
      /\ Owner' = [Owner EXCEPT !.todo = Tail(@)]
      /\ Owner'.context = c /\ Owner'.superseded = late /\ late \in BOOLEAN /\ ~late
  BY OwnerPut DEF Laid, Writes
<1>2. Todo(Owner) = Todo(Owner') \cup {put} /\ Ending(Owner')
  BY <1>1, TodoTail DEF Laid
<1>3. Todo(Owner)' = Todo(Owner') /\ Ending(Owner)' = Ending(Owner')
  BY DEF Todo, Ending
<1>4. c.state \in States /\ Terminal(c)
  BY DEF Laid
<1> HIDE DEF c, put, late
<1>5. /\ put = "row" => durable'.row = IF c.state > durable.row THEN c.state ELSE durable.row
      /\ put # "row" => durable'.row = durable.row
      /\ put = "pointer" => durable'.pointer = Place(c)
      /\ put # "pointer" => durable'.pointer = durable.pointer
      /\ put = "lastGood" => durable'.lastGood = Place(c)
      /\ put # "lastGood" => durable'.lastGood = durable.lastGood
      /\ put = "manifest" => durable'.manifest[c.state] = Manifest(c)
      /\ put # "manifest" => durable'.manifest[c.state] = durable.manifest[c.state]
  <2>1. /\ put # "row" => durable'.row = durable.row
        /\ put = "row" => durable'.row = IF c.state > durable.row THEN c.state ELSE durable.row
    BY <1>1, StoredFields
  <2>2. /\ put = "pointer" => durable'.pointer = Place(c)
        /\ put # "pointer" => durable'.pointer = durable.pointer
        /\ put = "lastGood" => durable'.lastGood = Place(c)
        /\ put # "lastGood" => durable'.lastGood = durable.lastGood
    BY <1>1, StoredFields
  <2>3. /\ put = "manifest" => durable'.manifest[c.state] = Manifest(c)
        /\ put # "manifest" => durable'.manifest[c.state] = durable.manifest[c.state]
    BY <1>1, <1>4, StoredFields
  <2> QED
    BY <2>1, <2>2, <2>3
<1>6. durable.row \in Nat /\ durable'.row \in Nat /\ c.state \in Nat
  BY <1>1, <1>4, Times, RowNat
<1>7. "row" \in Todo(Owner') \/ c.state <= durable'.row
  <2>1. "row" \in Todo(Owner) \/ c.state <= durable.row
    BY DEF Laid, c
  <2> QED
    BY <1>2, <1>5, <1>6, <2>1
<1>8. /\ "manifest" \in Todo(Owner') \/ durable'.manifest[c.state] = Manifest(c)
      /\ "pointer" \in Todo(Owner') \/ durable'.pointer = Place(c)
      /\ "lastGood" \in Todo(Owner') \/ durable'.lastGood = Place(c)
  BY <1>2, <1>5 DEF Laid, c
<1> QED
  BY <1>1, <1>2, <1>3, <1>4, <1>7, <1>8 DEF Laid, c

LEMMA LaidKept ==
  ASSUME Inv, Laid, Owner' = Owner, durable' \in Stores, durable.row <= durable'.row,
         durable'.manifest = durable.manifest, durable'.pointer = durable.pointer,
         durable'.lastGood = durable.lastGood
  PROVE  Laid'
<1>1. Todo(Owner)' = Todo(Owner) /\ Ending(Owner)' = Ending(Owner)
  BY DEF Todo, Ending
<1>2. durable.row \in Nat /\ durable'.row \in Nat /\ Owner.context.state \in Nat
  BY Times, RowNat DEF Inv, Types, Laid
<1> QED
  BY <1>1, <1>2 DEF Laid

(* Once nothing is left to put, a restart restores the bundle.              *)
LEMMA LaidRestored ==
  ASSUME Inv, Laid, Owner.todo = << >>
  PROVE  Restored(durable) = Owner.context
<1> DEFINE c == Owner.context
<1>1. Todo(Owner) = {}
  <2>1. \A p : p \notin Todo(Owner)
    BY InTodo
  <2> QED
    BY <2>1
<1>2. c \in Contexts /\ durable \in Stores /\ c.state \in States /\ Terminal(c)
  BY Threads2 DEF Inv, Types, Writes, Laid, Owner
<1>3. /\ durable.manifest[c.state] = Manifest(c)
      /\ durable.pointer = Place(c) /\ durable.lastGood = Place(c)
  BY <1>1 DEF Laid
<1> HIDE DEF c
<1>4. Evidence(durable, c.state, c.team) = c
  <2>1. Manifest(c) # NoManifest /\ Manifest(c).forecast = c.forecast /\ Manifest(c).value = c.value
    BY <1>2 DEF Manifest, NoManifest, NoContext, Terminal
  <2>2. /\ c.forecast \in durable.forecasts /\ c.forecast \in durable.simulations
        /\ c.value \in durable.values
    BY <1>2, <1>3, <2>1 DEF Inv, ManifestBacked
  <2> QED
    BY <1>2, <1>3, <2>2, EvidenceManifest
<1>5. durable.pointer.state = c.state /\ durable.pointer.team = c.team
      /\ durable.lastGood.state = c.state /\ c.state # 0
  BY <1>2, <1>3, Times DEF Place
<1> QED
  BY <1>2, <1>4, <1>5, RestoredAt DEF c


-----------------------------------------------------------------------------
(* The working generation stays terminal, of the published team and of no   *)
(* earlier a state than the published one.                                  *)
LEMMA DownOnly ==
  ASSUME Publishing, Next, ~up
  PROVE  Restart
<1>1. /\ phase = "idle" /\ Owner = Idle /\ Checkpoint = Idle /\ queue = << >>
      /\ working = NoContext
  BY DEF Publishing, Down
<1>2. \A t \in Threads : write[t] = Idle /\ write[t].todo = << >>
  BY <1>1 DEF Owner, Checkpoint, Threads, Idle
<1>3. ~Requests
  BY DEF Requests, Activate, Stage, OtherUser, SelectTeam, Request, Free
<1>4. ~Executor
  BY <1>1 DEF Executor, StartSnapshot, EndSnapshot, WriteIdentity, Writing, Free, Checkpoint
<1>5. ~Publication
  BY <1>1 DEF Publication, BeginPublication, DrainFails, Boot, StageArtifacts, PromoteWorking,
     Commit, Refuse, Swap, Bind, EndBind, Free
<1>6. \A t \in Threads : ~Put(t) /\ ~PutFails(t)
  BY <1>2 DEF Put, PutFails
<1>7. ~Crash
  BY DEF Crash
<1> QED
  BY <1>3, <1>4, <1>5, <1>6, <1>7 DEF Next

LEMMA DownSteps ==
  ASSUME Inv, Publishing, Next
  PROVE  Down'
<1>1. CASE Crash
  <2>1. Owner' = Idle /\ Checkpoint' = Idle
    BY <1>1, Threads2 DEF Crash, Owner, Checkpoint
  <2>2. faults' # 0
    BY <1>1 DEF Crash, Fault, Inv, Types
  <2> QED
    BY <1>1, <2>1, <2>2 DEF Crash, Down
<1>2. CASE Restart
  BY <1>2 DEF Restart, Down
<1>3. CASE ~Crash /\ ~Restart
  <2>1. up
    BY <1>3, DownOnly
  <2>2. up' = up
    BY <1>3 DEF Next, Requests, Activate, Stage, OtherUser, SelectTeam, Executor, StartSnapshot,
       EndSnapshot, WriteIdentity, Publication, BeginPublication, DrainFails, Boot,
       StageArtifacts, PromoteWorking, Commit, Refuse, Swap, Bind, EndBind, Stays, Put, PutFails
  <2> QED
    BY <2>1, <2>2 DEF Down
<1> QED
  BY <1>1, <1>2, <1>3

LEMMA SeededSteps ==
  ASSUME Inv, Publishing, Next
  PROVE  Seeded'
<1> DEFINE Seeds(w, p) ==
      /\ Terminal(w) /\ w.state \in States /\ p.state \in States /\ p.state <= w.state
      /\ w.team = p.team
      /\ p.generation = None => w.generation = None
           Late == {"drain", "boot", "stage", "promote", "commit"}
<1>0. /\ working # NoContext => Seeds(working, published)
      /\ phase \in Late => working # NoContext
      /\ published \in Contexts /\ working \in Contexts
  BY DEF Publishing, Seeded, Inv, Types
<1>1. ASSUME working' = NoContext, phase' \notin Late PROVE Seeded'
  BY <1>1 DEF Seeded
<1>2. ASSUME working' = working, published' = published, phase' \in Late => working # NoContext
      PROVE  Seeded'
  BY <1>0, <1>2 DEF Seeded, Terminal
<1>3. CASE Requests
  <2>1. ASSUME NEW s \in States, Activate(s) PROVE Seeded'
    BY <1>1, <2>1 DEF Activate, Request, Free
  <2>2. ASSUME NEW t \in Teams, SelectTeam(t) PROVE Seeded'
    BY <1>1, <2>2 DEF SelectTeam, Request, Free
  <2>3. ASSUME NEW s \in States, OtherUser(s) PROVE Seeded'
    BY <1>0, <1>2, <2>3 DEF OtherUser
  <2>4. ASSUME NEW s \in States, Stage(s) PROVE Seeded'
    <3>1. PICK f \in {runs'} \cup ({durable.newest[s].forecast} \ {None}) :
            working' = [state |-> s, team |-> published.team, forecast |-> f,
                        simulation |-> TRUE, value |-> runs', generation |-> published.generation]
      BY <2>4 DEF Stage
    <3>2. runs' \in Nat /\ runs' # None
      <4>1. runs' \in Nat
        BY <2>4 DEF Stage, Inv, Types
      <4> QED
        BY <4>1, PublicationAssumption
    <3>3. Terminal(working')
      BY <3>1, <3>2 DEF Terminal
    <3>4. published.state \in States /\ published.state <= s
      <4>1. published.state # 0 /\ published.state \in States \cup {0}
        BY <1>0, <2>4, ContextFields DEF Stage
      <4> QED
        BY <2>4, <4>1, Times DEF Stage
    <3>5. published' = published /\ phase' = "idle"
      BY <2>4 DEF Stage, Request, Free
    <3> QED
      BY <3>1, <3>3, <3>4, <3>5 DEF Seeded, Terminal
  <2> QED
    BY <1>3, <2>1, <2>2, <2>3, <2>4 DEF Requests
<1>4. CASE Executor
  BY <1>0, <1>2, <1>4 DEF Executor, StartSnapshot, EndSnapshot, WriteIdentity
<1>5. CASE BeginPublication \/ Boot \/ StageArtifacts \/ PromoteWorking \/ Commit \/ EndBind
  BY <1>0, <1>2, <1>5 DEF BeginPublication, Boot, StageArtifacts, PromoteWorking, Commit, EndBind
<1>6. CASE DrainFails \/ Refuse \/ Swap
  BY <1>1, <1>6 DEF DrainFails, Refuse, Abandon, Swap
<1>7. CASE Bind
  <2>1. published' = [published EXCEPT !.generation = Promoted] /\ working' = working
        /\ phase' = "bind"
    BY <1>7 DEF Bind
  <2>2. published'.state = published.state /\ published'.team = published.team
    BY <1>0, <2>1 DEF Contexts
  <2>3. published'.generation # None
    <3>1. published'.generation = <<"promoted", promotions + 1>> /\ promotions + 1 \in Nat
      BY <1>0, <2>1 DEF Contexts, Promoted, Inv, Types
    <3> QED
      BY <3>1, Ids
  <2> QED
    BY <1>0, <2>1, <2>2, <2>3 DEF Seeded, Terminal
<1>8. ASSUME NEW t \in Threads, Put(t) PROVE Seeded'
  BY <1>0, <1>2, <1>8 DEF Put
<1>9. ASSUME NEW t \in Threads, PutFails(t) PROVE Seeded'
  <2>1. CASE t = "owner" /\ phase # "bind"
    BY <1>1, <1>9, <2>1 DEF PutFails
  <2>2. CASE ~(t = "owner" /\ phase # "bind")
    BY <1>0, <1>2, <1>9, <2>2 DEF PutFails
  <2> QED
    BY <2>1, <2>2
<1>10. CASE Crash
  BY <1>1, <1>10 DEF Crash
<1>11. CASE Restart
  <2>1. working = NoContext /\ phase = "idle"
    BY <1>11 DEF Restart, Publishing, Down
  <2> QED
    BY <1>1, <1>11, <2>1 DEF Restart
<1> QED
  BY <1>3, <1>4, <1>5, <1>6, <1>7, <1>8, <1>9, <1>10, <1>11 DEF Next, Publication


(* From the drain on nothing but the publication moves.                     *)
Sealed == {"boot", "stage", "promote", "commit"}

LEMMA SealedStill ==
  ASSUME Publishing, phase \in Sealed
  PROVE  Checkpoint = Idle /\ queue = << >> /\ up
BY DEF Publishing, Sole, NothingQueued, Writing, Checkpoint, Down, Sealed

(* The step in which one of the two writers begins, or ends.                *)
LEMMA StagedTodo ==
  ASSUME Types, NEW c \in Contexts, Placed(c), BeginWrite("owner", c, FALSE)
  PROVE  /\ Owner'.context = c
         /\ Todo(Owner)' \subseteq {"row", "forecast", "simulation", "value"}
<1>1. Owner' \in Writes /\ Owner'.context = c /\ Begun(Owner', c, FALSE)
  <2>1. FALSE \in BOOLEAN
    OBVIOUS
  <2> QED
    BY <2>1, BeginEffect, Threads2 DEF Owner
<1>2. Owner'.todo = Plan(c, FALSE) /\ Owner'.todo \in Seq(Puts)
  BY <1>1 DEF Begun, Writes
<1>3. \A i \in DOMAIN Owner'.todo : Owner'.todo[i] \in Puts
                                    /\ Owner'.todo[i] \notin {"manifest", "lastGood", "pointer"}
  <2>1. \A i \in DOMAIN Plan(c, FALSE) : Plan(c, FALSE)[i] \notin {"manifest", "lastGood", "pointer"}
    BY PlanPlain
  <2>2. \A q \in Seq(Puts) : \A i \in DOMAIN q : q[i] \in Puts
    OBVIOUS
  <2> QED
    BY <1>2, <2>1, <2>2
<1>4. Todo(Owner') \subseteq {"row", "forecast", "simulation", "value"}
  <2> SUFFICES ASSUME NEW p \in Todo(Owner') PROVE p \in {"row", "forecast", "simulation", "value"}
    OBVIOUS
  <2>1. PICK i \in DOMAIN Owner'.todo : Owner'.todo[i] = p
    BY InTodo
  <2> QED
    BY <1>3, <2>1 DEF Puts
<1> QED
  BY <1>1, <1>4 DEF Todo

LEMMA OwnerDropped ==
  ASSUME Types, \/ write' = [write EXCEPT !["owner"] = Idle, !["queue"].earlier = FALSE]
                \/ write' = [write EXCEPT !["owner"] = Idle]
  PROVE  Owner' = Idle
BY Threads2, Dropped DEF Owner

LEMMA BootShape ==
  ASSUME Inv, Boot, NeedsBoot
  PROVE  Laid' /\ Granted' /\ phase' = "boot"
<1> DEFINE c == [published EXCEPT !.generation = BootGeneration]
<1>1. Types /\ published \in Contexts
  BY DEF Inv, Types
<1>2. c \in Contexts /\ Placed(c) /\ SameEvidence(c, published)
  BY <1>1, BootTyped
<1>3. c.generation = BootGeneration /\ c.state = published.state /\ c.team = published.team
  BY <1>1 DEF Contexts
<1>4. BeginWrite("owner", c, TRUE) /\ phase' = "boot" /\ published' = published
  BY DEF Boot
<1>5. Terminal(c)
  BY <1>2 DEF NeedsBoot, Terminal, SameEvidence
<1>6. /\ BootGeneration # None
      /\ published.generation # None => BootGeneration = published.generation
  <2>1. published.state \in Nat
    BY <1>1, ContextFields, Times
  <2>2. <<"bootstrap", published.state>> # None
    BY <2>1, Ids
  <2> QED
    BY <2>2 DEF BootGeneration
<1> HIDE DEF c
<1>7. Laid' /\ Owner'.context = c
  BY <1>1, <1>2, <1>3, <1>4, <1>5, <1>6, LaidBegins
<1>8. Granted'
  BY <1>2, <1>3, <1>4, <1>6, <1>7 DEF Granted, SameEvidence, Place
<1> QED
  BY <1>4, <1>7, <1>8

LEMMA OwningSteps ==
  ASSUME Inv, Publishing, Next
  PROVE  Owning'
<1>0. Types /\ Owning
  BY DEF Inv, Publishing
<1>1. ASSUME phase' \in {"idle", "drain", "promote"}, Owner' = Idle PROVE Owning'
  BY <1>1 DEF Owning
<1>2. ASSUME phase \notin Sealed, phase' = phase, Kept("owner"), Owner = Idle => Owner' = Idle,
             published' = published
      PROVE  Owning'
  <2>1. phase' \notin Sealed /\ (phase' \in {"idle", "drain"} => Owner' = Idle)
    BY <1>0, <1>2 DEF Owning, Sealed
  <2>2. ASSUME phase = "bind"
        PROVE  /\ Owner'.context = published' /\ Ending(Owner)' /\ Terminal(published)'
               /\ published'.generation # None
    <3>1. Owner'.context = Owner.context /\ Owner'.todo = Owner.todo
      BY <1>2 DEF Kept, Owner
    <3>2. Ending(Owner)' = Ending(Owner) /\ Terminal(published)' = Terminal(published)
      BY <1>2, <3>1 DEF Ending, Terminal
    <3> QED
      BY <1>0, <1>2, <2>2, <3>1, <3>2 DEF Owning
  <2> QED
    BY <1>2, <2>1, <2>2 DEF Owning, Sealed
<1>3. CASE Requests
  <2>1. CASE phase = "idle"
    <3>1. phase' = phase /\ write' = write
      BY <1>3 DEF Requests, Activate, Stage, OtherUser, SelectTeam
    <3> QED
      BY <1>0, <1>1, <2>1, <3>1 DEF Owning, Owner
  <2>2. CASE phase # "idle"
    <3>1. PICK s \in States : OtherUser(s)
      BY <1>3, <2>2 DEF Requests, Activate, Stage, SelectTeam, Request, Free
    <3>2. /\ durable' = [durable EXCEPT !.row = s] /\ s > durable.row
          /\ Owner' = Owner /\ phase' = phase /\ published' = published /\ working' = working
          /\ promotions' = promotions
      BY <3>1 DEF OtherUser, Owner
    <3>3. /\ durable' \in Stores /\ durable.row <= durable'.row
          /\ durable'.manifest = durable.manifest /\ durable'.pointer = durable.pointer
          /\ durable'.lastGood = durable.lastGood
      <4>1. /\ durable \in Stores /\ durable' \in Stores
            /\ durable'.row = s /\ durable'.manifest = durable.manifest
            /\ durable'.pointer = durable.pointer /\ durable'.lastGood = durable.lastGood
        BY <1>0, <3>2 DEF Types, Stores
      <4>2. durable.row \in Nat /\ s \in Nat
        BY <4>1, RowNat, Times
      <4> QED
        BY <3>2, <4>1, <4>2
    <3>4. Laid => Laid'
      BY <3>2, <3>3, LaidKept
    <3>5. Target' = Target /\ (Granted => Granted')
      BY <3>2 DEF Target, LastPromoted, Granted, SameEvidence, Place
    <3>6. Todo(Owner)' = Todo(Owner) /\ Ending(Owner)' = Ending(Owner)
          /\ Terminal(published)' = Terminal(published)
      BY <3>2 DEF Todo, Ending, Terminal
    <3> QED
      BY <1>0, <3>2, <3>4, <3>5, <3>6 DEF Owning
  <2> QED
    BY <2>1, <2>2
<1>4. CASE Executor
  <2>1. phase' = phase /\ published' = published /\ phase \notin Sealed
    <3>1. phase' = phase /\ published' = published /\ (Writing("queue") \/ queue # << >>)
      BY <1>4 DEF Executor, StartSnapshot, EndSnapshot, WriteIdentity
    <3> QED
      BY <3>1 DEF Publishing, Sole, NothingQueued, Sealed
  <2>2. Kept("owner") /\ (Owner = Idle => Owner' = Idle)
    <3>1. CASE WriteIdentity
      BY <3>1 DEF WriteIdentity, Kept, Owner
    <3> QED
      BY <1>4, <3>1, OwnerApart DEF Executor
  <2> QED
    BY <1>2, <2>1, <2>2
<1>5. CASE BeginPublication \/ DrainFails \/ Refuse
  <2>1. Owner = Idle /\ Owner' = Owner /\ phase' \in {"idle", "drain"}
    BY <1>0, <1>5 DEF BeginPublication, DrainFails, Refuse, Free, Abandon, Owning, Owner
  <2> QED
    BY <1>1, <2>1
<1>6. CASE Boot
  <2>1. CASE NeedsBoot
    BY <1>6, <2>1, BootShape DEF Owning
  <2>2. CASE ~NeedsBoot
    <3>1. BeginWrite("owner", working, FALSE) /\ phase' = "stage" /\ working' = working
      BY <1>6, <2>2 DEF Boot
    <3> QED
      BY <1>0, <3>1, StagedTodo DEF Owning, Types
  <2> QED
    BY <2>1, <2>2
<1>7. CASE StageArtifacts
  <2>1. BeginWrite("owner", working, FALSE) /\ phase' = "stage" /\ working' = working
    BY <1>7 DEF StageArtifacts
  <2> QED
    BY <1>0, <2>1, StagedTodo DEF Owning, Types
<1>8. CASE PromoteWorking
  BY <1>0, <1>1, <1>8, OwnerDropped DEF PromoteWorking
<1>9. CASE Commit
  <2>1. /\ Target \in Contexts /\ Placed(Target) /\ Terminal(Target) /\ Target.generation # None
    BY <1>0, <1>9, TargetFields DEF Commit, SeedHolds
  <2>2. Laid' /\ Owner'.context = Target
    BY <1>0, <1>9, <2>1, LaidBegins DEF Commit
  <2>3. Target' = Target /\ phase' = "commit"
    BY <1>9 DEF Commit, Stays, Target, LastPromoted
  <2> QED
    BY <2>2, <2>3 DEF Owning
<1>10. CASE Swap \/ EndBind
  BY <1>0, <1>1, <1>10, OwnerDropped DEF Swap, EndBind
<1>11. CASE Bind
  <2>1. published' \in Contexts /\ Placed(published') /\ published'.generation # None
        /\ Terminal(published') /\ BeginWrite("owner", published', TRUE) /\ phase' = "bind"
    <3>1. published \in Contexts /\ Placed(published) /\ Terminal(published)
          /\ published' = [published EXCEPT !.generation = Promoted]
      BY <1>0, <1>11 DEF Types, Bind
    <3>2. published' \in Contexts /\ Placed(published')
      BY <1>0, <3>1, PromotedTyped
    <3>3. published'.generation # None
      <4>1. published'.generation = Promoted /\ Promoted # None
        BY <1>0, <3>1, PromotedTyped DEF Contexts
      <4> QED
        BY <4>1
    <3>4. Terminal(published')
      BY <3>1 DEF Contexts, Terminal
    <3> QED
      BY <1>11, <3>2, <3>3, <3>4 DEF Bind
  <2>2. Owner'.context = published' /\ Ending(Owner)'
    BY <1>0, <2>1, LaidBegins
  <2>3. Terminal(published)'
    BY <2>1 DEF Terminal
  <2> QED
    BY <2>1, <2>2, <2>3 DEF Owning
<1>12. CASE Put("queue")
  <2>1. Kept("owner") /\ (Owner = Idle => Owner' = Idle) /\ phase' = phase /\ published' = published
    BY <1>12, OwnerApart DEF Put
  <2>2. phase \notin Sealed
    BY <1>12, SealedStill DEF Put, Checkpoint, Idle
  <2> QED
    BY <1>2, <2>1, <2>2
<1>13. CASE Put("owner")
  <2>1. /\ phase' = phase /\ published' = published /\ working' = working
        /\ promotions' = promotions
    BY <1>13 DEF Put
  <2>2. /\ Owner \in Writes /\ Owner' = [Owner EXCEPT !.todo = Tail(@)]
        /\ Owner'.context = Owner.context /\ Owner.todo # << >>
    BY <1>13, OwnerPut
  <2>3. phase \notin {"idle", "drain", "promote"}
    BY <1>0, <2>2 DEF Owning, Idle
  <2>4. Laid => Laid'
    BY <1>13, LaidPut
  <2>5. Todo(Owner)' \subseteq Todo(Owner) /\ (Ending(Owner) => Ending(Owner)')
    <3>1. Todo(Owner') \subseteq Todo(Owner) /\ (Ending(Owner) => Ending(Owner'))
      BY <2>2, TodoTail
    <3> QED
      BY <3>1 DEF Todo, Ending
  <2>6. Target' = Target /\ (Granted => Granted') /\ Terminal(published)' = Terminal(published)
    BY <2>1, <2>2 DEF Target, LastPromoted, Granted, SameEvidence, Place, Terminal
  <2> QED
    BY <1>0, <2>1, <2>2, <2>3, <2>4, <2>5, <2>6 DEF Owning
<1>14. CASE PutFails("queue")
  <2>1. Kept("owner") /\ (Owner = Idle => Owner' = Idle) /\ phase' = phase /\ published' = published
    BY <1>14, OwnerApart DEF PutFails
  <2>2. phase \notin Sealed
    BY <1>14, SealedStill DEF PutFails, Checkpoint, Idle
  <2> QED
    BY <1>2, <2>1, <2>2
<1>15. CASE PutFails("owner")
  <2>1. Owner' = Idle /\ phase' = "idle"
    BY <1>0, <1>15, OwnerDropped, Others DEF PutFails
  <2> QED
    BY <1>1, <2>1
<1>16. CASE Crash
  BY <1>1, <1>16, Threads2 DEF Crash, Owner
<1>17. CASE Restart
  BY <1>1, <1>17 DEF Restart, Publishing, Down, Owner
<1> QED
  BY <1>3, <1>4, <1>5, <1>6, <1>7, <1>8, <1>9, <1>10, <1>11, <1>12, <1>13, <1>14, <1>15,
     <1>16, <1>17 DEF Next, Publication, Threads


(* A manifest stays where there was one.                                    *)
LEMMA ManifestNot == ASSUME NEW c, Terminal(c) PROVE Manifest(c) # NoManifest
BY DEF Manifest, NoManifest, NoContext, Terminal

LEMMA ManifestKept ==
  ASSUME Inv, NEW t \in Threads, Put(t), NEW x \in States, durable.manifest[x] # NoManifest
  PROVE  durable'.manifest[x] # NoManifest
<1> DEFINE w == write[t]
           put == Head(w.todo)
<1>1. /\ w \in Writes /\ put \in Allowed(w.context)
      /\ durable' = Stored(durable, put, w.context, w.superseded)
  BY PutReady DEF Inv
<1>2. w.context \in Contexts /\ put \in Puts /\ w.superseded \in BOOLEAN /\ durable \in Stores
  BY <1>1 DEF Writes, Allowed, Inv, Types
<1> HIDE DEF w, put
<1>3. durable'.manifest[x] \in {durable.manifest[x], Manifest(w.context)}
      /\ (put # "manifest" => durable'.manifest[x] = durable.manifest[x])
  BY <1>1, <1>2, StoredFields
<1>4. CASE put = "manifest"
  <2>1. Terminal(w.context)
    BY <1>1, <1>4 DEF Allowed
  <2> QED
    BY <1>3, <2>1, ManifestNot
<1> QED
  BY <1>3, <1>4

LEMMA AuthoritySteps ==
  ASSUME Inv, Publishing, Next
  PROVE  Authority'
<1>0. Types /\ Owning /\ Authority
  BY DEF Inv, Publishing
<1>1. ASSUME phase' \notin {"stage", "promote", "commit"} PROVE Authority'
  BY <1>1 DEF Authority
<1>2. ASSUME durable'.manifest = durable.manifest, published' = published, phase' = phase
      PROVE  Authority'
  BY <1>0, <1>2 DEF Authority, Terminal
<1>3. ASSUME Terminal(published) PROVE published.state \in States
  BY <1>0, <1>3, ContextFields DEF Types, Terminal, Placed
<1>4. CASE Requests
  <2>1. CASE phase = "idle"
    BY <1>1, <1>4, <2>1 DEF Requests, Activate, Stage, OtherUser, SelectTeam
  <2>2. CASE phase # "idle"
    <3>1. PICK s \in States : OtherUser(s)
      BY <1>4, <2>2 DEF Requests, Activate, Stage, SelectTeam, Request, Free
    <3>2. durable'.manifest = durable.manifest
      BY <1>0, <3>1 DEF OtherUser, Types, Stores
    <3> QED
      BY <1>2, <3>1, <3>2 DEF OtherUser
  <2> QED
    BY <2>1, <2>2
<1>5. CASE Executor
  <2>1. phase' = phase /\ phase \notin Sealed
    <3>1. phase' = phase /\ (Writing("queue") \/ queue # << >>)
      BY <1>5 DEF Executor, StartSnapshot, EndSnapshot, WriteIdentity
    <3> QED
      BY <3>1 DEF Publishing, Sole, NothingQueued, Sealed
  <2> QED
    BY <1>1, <2>1 DEF Sealed
<1>6. CASE BeginPublication \/ DrainFails \/ Refuse \/ Swap \/ Bind \/ EndBind
  BY <1>1, <1>6 DEF BeginPublication, DrainFails, Refuse, Swap, Bind, EndBind, Abandon
<1>7. CASE Boot
  <2>1. CASE NeedsBoot
    BY <1>1, <1>7, <2>1 DEF Boot
  <2>2. CASE ~NeedsBoot
    <3>1. Terminal(published) => durable.manifest[published.state].generation # None
      BY <2>2 DEF NeedsBoot, GenerationStale
    <3>2. NoManifest.generation = None
      BY DEF NoManifest, Manifest, NoContext
    <3> QED
      BY <1>7, <3>1, <3>2 DEF Boot, Authority, Terminal
  <2> QED
    BY <2>1, <2>2
<1>8. CASE StageArtifacts
  <2>1. Laid /\ Granted /\ Owner.todo = << >> /\ durable' = durable /\ published' = published
    BY <1>0, <1>8 DEF StageArtifacts, Owning, OwnerWritten, Owner
  <2>2. "manifest" \notin Todo(Owner)
    BY <2>1, InTodo
  <2>3. durable.manifest[published.state] # NoManifest
    BY <2>1, <2>2, ManifestNot DEF Laid, Granted, Place
  <2> QED
    BY <2>1, <2>3 DEF Authority
<1>9. CASE PromoteWorking
  <2>1. durable'.manifest = durable.manifest /\ published' = published /\ phase = "stage"
    BY <1>0, <1>9 DEF PromoteWorking, Present, Types, Stores
  <2> QED
    BY <1>0, <2>1 DEF Authority, Terminal
<1>10. CASE Commit
  BY <1>0, <1>10 DEF Commit, Authority, Terminal
<1>11. ASSUME NEW t \in Threads, Put(t) PROVE Authority'
  <2>1. phase' = phase /\ published' = published
    BY <1>11 DEF Put
  <2>2. ASSUME Terminal(published), durable.manifest[published.state] # NoManifest
        PROVE  durable'.manifest[published.state] # NoManifest
    BY <1>3, <1>11, <2>2, ManifestKept
  <2> QED
    BY <1>0, <2>1, <2>2 DEF Authority, Terminal
<1>12. ASSUME NEW t \in Threads, PutFails(t) PROVE Authority'
  BY <1>1, <1>2, <1>12 DEF PutFails
<1>13. CASE Crash
  BY <1>1, <1>13 DEF Crash
<1>14. CASE Restart
  BY <1>1, <1>14 DEF Restart, Publishing, Down
<1> QED
  BY <1>4, <1>5, <1>6, <1>7, <1>8, <1>9, <1>10, <1>11, <1>12, <1>13, <1>14 DEF Next, Publication

LEMMA SoleSteps ==
  ASSUME Inv, Publishing, Next
  PROVE  Sole'
<1>0. Types /\ Owning
  BY DEF Inv, Publishing
<1>1. ASSUME phase' \notin Sealed PROVE Sole'
  BY <1>1 DEF Sole, Sealed
<1>2. ASSUME phase \in Sealed, queue' = queue, Checkpoint' = Idle PROVE Sole'
  BY <1>2, SealedStill DEF Sole, NothingQueued, Writing, Checkpoint
<1>3. CASE Requests
  <2>1. CASE phase \in Sealed
    <3>1. queue' = queue /\ write' = write
      BY <1>3, <2>1 DEF Requests, Activate, Stage, OtherUser, SelectTeam, Request, Free, Sealed
    <3> QED
      BY <1>2, <2>1, <3>1, SealedStill DEF Checkpoint
  <2> QED
    BY <1>1, <1>3, <2>1 DEF Requests, Activate, Stage, OtherUser, SelectTeam
<1>4. CASE Executor
  <2>1. phase' = phase /\ phase \notin Sealed
    <3>1. phase' = phase /\ (Writing("queue") \/ queue # << >>)
      BY <1>4 DEF Executor, StartSnapshot, EndSnapshot, WriteIdentity
    <3> QED
      BY <3>1 DEF Publishing, Sole, NothingQueued, Sealed
  <2> QED
    BY <1>1, <2>1
<1>5. CASE BeginPublication \/ DrainFails \/ Refuse \/ Swap \/ Bind \/ EndBind
  BY <1>1, <1>5 DEF BeginPublication, DrainFails, Refuse, Swap, Bind, EndBind, Abandon, Sealed
<1>6. CASE Boot
  <2>1. queue' = queue /\ queue = << >> /\ Checkpoint = Idle
    BY <1>6 DEF Boot, Stays, Drained, NothingQueued, Writing, Checkpoint
  <2>2. Checkpoint' = Idle
    <3>1. \E c \in Contexts : Placed(c) /\ \E b \in BOOLEAN : BeginWrite("owner", c, b)
      BY <1>0, <1>6, BootTyped DEF Boot, Types
    <3> QED
      BY <1>0, <2>1, <3>1, IdleBegin, Others, Threads2 DEF Checkpoint
  <2> QED
    BY <2>1, <2>2 DEF Sole, NothingQueued, Writing, Checkpoint
<1>7. CASE StageArtifacts \/ Commit
  <2>1. phase \in Sealed /\ queue' = queue /\ Checkpoint = Idle
    BY <1>7, SealedStill DEF StageArtifacts, Commit, Stays, Sealed
  <2>2. \E c \in Contexts : Placed(c) /\ \E b \in BOOLEAN : BeginWrite("owner", c, b)
    BY <1>0, <1>7, TargetFields DEF StageArtifacts, Commit, Types
  <2>3. Checkpoint' = Idle
    BY <1>0, <2>1, <2>2, IdleBegin, Others, Threads2 DEF Checkpoint
  <2> QED
    BY <1>2, <2>1, <2>3
<1>8. CASE PromoteWorking
  <2>1. phase \in Sealed /\ queue' = queue /\ Checkpoint' = Checkpoint
    BY <1>0, <1>8, Threads2 DEF PromoteWorking, Types, Checkpoint, Sealed
  <2> QED
    BY <1>2, <2>1, SealedStill
<1>9. ASSUME NEW t \in Threads, Put(t) PROVE Sole'
  <2>1. phase' = phase /\ queue' = queue
    BY <1>9 DEF Put
  <2>2. CASE phase \in Sealed
    <3>1. t = "owner"
      BY <1>9, <2>2, SealedStill DEF Put, Checkpoint, Idle, Threads
    <3>2. Checkpoint' = Idle
      BY <1>0, <1>9, <2>2, <3>1, SealedStill, IdlePut, Others, Threads2 DEF Checkpoint
    <3> QED
      BY <1>2, <2>1, <2>2, <3>2
  <2> QED
    BY <1>1, <2>1, <2>2
<1>10. ASSUME NEW t \in Threads, PutFails(t) PROVE Sole'
  <2>1. CASE t = "owner"
    BY <1>1, <1>10, <2>1 DEF PutFails, Sealed
  <2>2. CASE t # "owner"
    <3>1. t = "queue" /\ phase' = phase
      BY <1>10, <2>2 DEF PutFails, Threads
    <3>2. phase \notin Sealed
      BY <1>10, <3>1, SealedStill DEF PutFails, Checkpoint, Idle
    <3> QED
      BY <1>1, <3>1, <3>2
  <2> QED
    BY <2>1, <2>2
<1>11. CASE Crash
  BY <1>1, <1>11 DEF Crash, Sealed
<1>12. CASE Restart
  BY <1>1, <1>12 DEF Restart, Publishing, Down, Sealed
<1> QED
  BY <1>3, <1>4, <1>5, <1>6, <1>7, <1>8, <1>9, <1>10, <1>11, <1>12 DEF Next, Publication

(* All of it holds, whatever is interrupted.                                *)
THEOREM PublishingInvariance == Spec => [](Inv /\ Publishing)
<1>1. Init => Publishing
  <2> SUFFICES ASSUME Init PROVE Publishing
    OBVIOUS
  <2>1. Owner = Idle /\ Checkpoint = Idle
    BY Threads2 DEF Init, Owner, Checkpoint
  <2> QED
    BY <2>1 DEF Init, Publishing, Sole, Seeded, Owning, Authority, Down
<1>2. Inv /\ Publishing /\ [Next]_vars => Publishing'
  <2>1. ASSUME Inv, Publishing, Next PROVE Publishing'
    BY <2>1, SoleSteps, SeededSteps, OwningSteps, AuthoritySteps, DownSteps DEF Publishing
  <2>2. ASSUME Inv, Publishing, UNCHANGED vars PROVE Publishing'
    <3>1. /\ Owner' = Owner /\ Checkpoint' = Checkpoint /\ Target' = Target
          /\ Todo(Owner)' = Todo(Owner) /\ Ending(Owner)' = Ending(Owner)
      BY <2>2 DEF vars, Owner, Checkpoint, Target, LastPromoted, Todo, Ending
    <3>2. (Laid => Laid') /\ (Granted => Granted')
      BY <2>2, <3>1 DEF vars, Laid, Granted, SameEvidence, Place
    <3>3. Sole' /\ Seeded' /\ Authority' /\ Down'
      BY <2>2, <3>1 DEF vars, Publishing, Sole, NothingQueued, Writing, Seeded, Terminal,
         Authority, Down
    <3>4. Owning'
      BY <2>2, <3>1, <3>2 DEF vars, Publishing, Owning, Terminal
    <3> QED
      BY <3>3, <3>4 DEF Publishing
  <2> QED
    BY <2>1, <2>2
<1> QED
  BY <1>1, <1>2, Invariance, PTL DEF Spec

(* When a publication becomes visible, a restart already restores it,       *)
(* exactly: its state, its team, its evidence and its publication id.       *)
THEOREM PublishedIsDurable == Spec => PublishDurable
<1>1. Inv /\ Publishing => (Swap => Restored(durable) = published')
  <2> SUFFICES ASSUME Inv, Publishing, Swap PROVE Restored(durable) = published'
    OBVIOUS
  <2>1. Laid /\ Owner.context = Target /\ Owner.todo = << >> /\ published' = Target
    BY DEF Swap, Publishing, Owning, OwnerWritten, Owner
  <2> QED
    BY <2>1, LaidRestored
<1> QED
  BY <1>1, PublishingInvariance, PTL DEF PublishDurable

-----------------------------------------------------------------------------
(* What a restart would restore, while a publication writes.                *)
LEMMA EvidencedFields ==
  ASSUME NEW c \in Contexts, NEW d \in Contexts
  PROVE  Evidenced(c) = Evidenced(d) <=>
           c.state = d.state /\ c.team = d.team /\ SameEvidence(c, d)
<1>1. Evidenced(c) = [state |-> c.state, team |-> c.team, forecast |-> c.forecast,
                      simulation |-> c.simulation, value |-> c.value, generation |-> None]
  BY DEF Contexts, Evidenced
<1>2. Evidenced(d) = [state |-> d.state, team |-> d.team, forecast |-> d.forecast,
                      simulation |-> d.simulation, value |-> d.value, generation |-> None]
  BY DEF Contexts, Evidenced
<1> QED
  BY <1>1, <1>2 DEF SameEvidence

LEMMA RestoredKept ==
  ASSUME NEW d \in Stores, NEW e \in Stores, Restored(d).state # 0,
         e.pointer.state = d.pointer.state, e.pointer.team = d.pointer.team,
         d.pointer.state \in {e.row, e.lastGood.state},
         Evidence(e, d.pointer.state, d.pointer.team)
           = Evidence(d, d.pointer.state, d.pointer.team)
  PROVE  Restored(e) = Restored(d)
BY RestoredPlaced, RestoredAt, Times

(* A put leaves the evidence of a state alone, unless it is that state's    *)
(* manifest, or an artifact of a state that has none.                       *)
LEMMA PutEvidence ==
  ASSUME Inv, NEW t \in Threads, Put(t), NEW s \in States, NEW team,
         durable'.manifest[s] = durable.manifest[s],
         \/ durable.manifest[s] # NoManifest
         \/ /\ durable'.newest[s].forecast = durable.newest[s].forecast
            /\ durable'.newest[s].value = durable.newest[s].value
            /\ durable.newest[s].forecast \in durable.simulations
  PROVE  Evidence(durable', s, team) = Evidence(durable, s, team)
<1>1. durable \in Stores /\ durable' \in Stores
  BY PutKeeps DEF Inv, Types
<1>2. /\ durable.forecasts \subseteq durable'.forecasts
      /\ durable.simulations \subseteq durable'.simulations
      /\ durable.values \subseteq durable'.values
  <2> DEFINE w == write[t]
             put == Head(w.todo)
  <2>1. /\ w \in Writes /\ put \in Allowed(w.context)
        /\ durable' = Stored(durable, put, w.context, w.superseded)
    BY PutReady DEF Inv
  <2>2. w.context \in Contexts /\ put \in Puts /\ w.superseded \in BOOLEAN
    BY <2>1 DEF Writes, Allowed
  <2> HIDE DEF w, put
  <2> QED
    BY <1>1, <2>1, <2>2, StoredEffect
<1>3. durable.manifest[s] # NoManifest =>
        /\ durable.manifest[s].forecast \in durable.forecasts
        /\ durable.manifest[s].forecast \in durable.simulations
        /\ durable.manifest[s].value \in durable.values
  BY DEF Inv, ManifestBacked
<1> QED
  BY <1>1, <1>2, <1>3, EvidenceKept

(* The manifest of a state, once it is that of a bundle.                    *)
LEMMA ManifestEvidence ==
  ASSUME NEW c \in Contexts, Terminal(c), c.state \in States, durable \in Stores,
         ManifestBacked, durable.manifest[c.state] = Manifest(c)
  PROVE  Evidence(durable, c.state, c.team) = c
<1>1. Manifest(c) # NoManifest /\ Manifest(c).forecast = c.forecast /\ Manifest(c).value = c.value
  BY ManifestNot DEF Manifest
<1>2. /\ c.forecast \in durable.forecasts /\ c.forecast \in durable.simulations
      /\ c.value \in durable.values
  BY <1>1 DEF ManifestBacked
<1> QED
  BY <1>2, EvidenceManifest

LEMMA ManifestEvidencePut ==
  ASSUME Inv, Put("owner"), NEW c \in Contexts, Terminal(c), c.state \in States,
         durable'.manifest[c.state] = Manifest(c)
  PROVE  Evidence(durable', c.state, c.team) = c
<1>1. durable' \in Stores /\ ManifestBacked'
  BY PutKeeps, Threads2 DEF Inv, Types
<1>2. Manifest(c) # NoManifest /\ Manifest(c).forecast = c.forecast /\ Manifest(c).value = c.value
  BY ManifestNot DEF Manifest
<1>3. /\ c.forecast \in durable'.forecasts /\ c.forecast \in durable'.simulations
      /\ c.value \in durable'.values
  BY <1>1, <1>2 DEF ManifestBacked
<1> QED
  BY <1>1, <1>3, EvidenceManifest

(* The bundle readers see is what a restart restores.                       *)
Shown(d) == Serves(Restored(d), published) /\ d.lastGood.state = published.state

LEMMA ShownPlace ==
  ASSUME Inv, Terminal(published), Serves(Restored(durable), published)
  PROVE  /\ published.state \in States /\ published \in Contexts
         /\ Restored(durable) \in Contexts /\ Restored(durable).state = published.state
         /\ Restored(durable).state # 0
         /\ durable.pointer.state = published.state /\ durable.pointer.team = published.team
         /\ Restored(durable) = Evidence(durable, published.state, published.team)
         /\ SameEvidence(Restored(durable), published)
<1>1. published.state \in States /\ published \in Contexts
  BY ContextFields DEF Inv, Types, Terminal, Placed
<1>2. durable \in Stores /\ Restored(durable) \in Contexts
  BY RestoredTyped DEF Inv, Types
<1>3. /\ Restored(durable).state = published.state /\ Restored(durable).team = published.team
      /\ SameEvidence(Restored(durable), published)
  BY <1>1, <1>2, EvidencedFields DEF Serves
<1>4. Restored(durable).state # 0
  BY <1>1, <1>3, Times
<1> QED
  BY <1>1, <1>2, <1>3, <1>4, RestoredPlaced

(* While its restart authority is put, the bundle stays restorable.         *)
LEMMA BootWhole ==
  ASSUME Inv, Publishing, phase = "boot", Put("owner"), Terminal(published), Shown(durable)
  PROVE  Shown(durable')
<1> DEFINE c == Owner.context
           put == Head(Owner.todo)
           late == Owner.superseded
           s == published.state
           e == durable'
<1>1. /\ s \in States /\ published \in Contexts /\ durable.pointer.state = s
      /\ Restored(durable).state # 0
      /\ durable.pointer.team = published.team /\ durable.lastGood.state = s
      /\ Restored(durable) = Evidence(durable, s, published.team)
      /\ SameEvidence(Restored(durable), published)
  BY ShownPlace DEF Shown
<1>2. /\ Laid /\ c.state = s /\ c.team = published.team /\ SameEvidence(c, published)
      /\ published.generation # None => c.generation = published.generation
  BY DEF Publishing, Owning, Granted, Place
<1>3. /\ c \in Contexts /\ put \in Puts /\ late \in BOOLEAN /\ ~late
      /\ durable \in Stores /\ e \in Stores
      /\ e = Stored(durable, put, c, late)
  BY <1>2, OwnerPut DEF Laid
<1> HIDE DEF c, put, late, e
<1>4. e.pointer.state = s /\ e.pointer.team = published.team /\ e.lastGood.state = s
  <2>1. e.pointer \in {Place(c), durable.pointer} /\ e.lastGood \in {Place(c), durable.lastGood}
    BY <1>3, StoredFields
  <2>2. Place(c).state = s /\ Place(c).team = published.team
    BY <1>2 DEF Place
  <2> QED
    BY <1>1, <2>1, <2>2
<1>5. Restored(e) = Evidence(e, s, published.team)
  BY <1>1, <1>3, <1>4, RestoredAt, Times
<1>6. CASE put = "manifest"
  <2>1. e.manifest[s] = Manifest(c)
    BY <1>1, <1>2, <1>3, <1>6, StoredFields
  <2>2. Evidence(e, s, published.team) = c
    BY <1>1, <1>2, <1>3, <2>1, ManifestEvidencePut DEF Laid, c, e
  <2> QED
    BY <1>1, <1>2, <1>3, <1>4, <1>5, <2>2, EvidencedFields DEF Serves, Shown, e
<1>7. CASE put # "manifest"
  <2>1. e.manifest[s] = durable.manifest[s]
    BY <1>1, <1>3, <1>7, StoredFields
  <2>2. ASSUME durable.manifest[s] = NoManifest
        PROVE  /\ durable.newest[s].forecast = published.forecast
               /\ durable.newest[s].value = published.value
               /\ durable.newest[s].forecast \in durable.simulations
    <3>1. Bound(durable, s) = durable.newest[s]
      BY <2>2 DEF Bound
    <3>2. /\ Evidence(durable, s, published.team).forecast = durable.newest[s].forecast
          /\ Evidence(durable, s, published.team).value = durable.newest[s].value
          /\ Evidence(durable, s, published.team).simulation
               => durable.newest[s].forecast \in durable.simulations
      BY <3>1 DEF Evidence
    <3> QED
      BY <1>1, <3>2 DEF SameEvidence, Terminal
  <2>3. ASSUME durable.manifest[s] = NoManifest
        PROVE  e.newest[s].forecast = durable.newest[s].forecast
               /\ e.newest[s].value = durable.newest[s].value
    BY <1>1, <1>2, <1>3, <2>2, <2>3, StoredFields DEF SameEvidence
  <2>4. Evidence(e, s, published.team) = Evidence(durable, s, published.team)
    BY <1>1, <2>1, <2>2, <2>3, PutEvidence, Threads2 DEF e
  <2> QED
    BY <1>1, <1>4, <1>5, <2>4 DEF Shown, Serves, e
<1> QED
  BY <1>6, <1>7

(* From then on its manifest keeps it apart from what is put beside it.     *)
LEMMA AsideWhole ==
  ASSUME Inv, Publishing, phase \in {"stage", "commit"}, Put("owner"), Terminal(published),
         Shown(durable), Head(Owner.todo) \notin {"manifest", "pointer", "lastGood"}
  PROVE  Shown(durable')
<1> DEFINE c == Owner.context
           put == Head(Owner.todo)
           late == Owner.superseded
           s == published.state
           e == durable'
<1>1. /\ s \in States /\ published \in Contexts /\ durable.pointer.state = s
      /\ Restored(durable).state # 0
      /\ durable.pointer.team = published.team /\ durable.lastGood.state = s
      /\ Restored(durable) = Evidence(durable, s, published.team)
  BY ShownPlace DEF Shown
<1>2. /\ c \in Contexts /\ put \in Puts /\ late \in BOOLEAN
      /\ durable \in Stores /\ e \in Stores
      /\ e = Stored(durable, put, c, late)
  BY OwnerPut
<1>3. durable.manifest[s] # NoManifest
  BY DEF Publishing, Authority
<1>4. put \notin {"manifest", "pointer", "lastGood"}
  OBVIOUS
<1> HIDE DEF c, put, late, e
<1>5. e.pointer = durable.pointer /\ e.lastGood = durable.lastGood
      /\ e.manifest[s] = durable.manifest[s]
  BY <1>1, <1>2, <1>4, StoredFields
<1>6. Evidence(e, s, published.team) = Evidence(durable, s, published.team)
  BY <1>1, <1>3, <1>5, PutEvidence, Threads2 DEF e
<1>7. Restored(e) = Evidence(e, s, published.team)
  BY <1>1, <1>2, <1>5, RestoredAt, Times
<1> QED
  BY <1>1, <1>5, <1>6, <1>7 DEF Shown, Serves, e


(* The commit takes it over to the bundle it publishes, at the manifest if  *)
(* the state stays, at the pointer if it changes.                           *)
LEMMA CommitShown ==
  ASSUME Inv, Publishing, phase = "commit", Put("owner"), Terminal(published),
         Shown(durable), durable'.row <= working.state
  PROVE  Shown(durable') \/ Restored(durable') = Target
<1> DEFINE c == Target
           put == Head(Owner.todo)
           late == Owner.superseded
           s == published.state
           e == durable'
<1>0. Types
  BY DEF Inv
<1>1. /\ s \in States /\ published \in Contexts /\ durable.pointer.state = s
      /\ Restored(durable).state # 0
      /\ durable.pointer.team = published.team /\ durable.lastGood.state = s
      /\ Restored(durable) = Evidence(durable, s, published.team)
  BY ShownPlace DEF Shown
<1>2. /\ Laid /\ Owner.context = c /\ c \in Contexts /\ Terminal(c) /\ c.state \in States
      /\ c.state = working.state /\ c.team = published.team /\ Owner \in Writes
      /\ Owner.todo # << >> /\ Ending(Owner)
  <2>1. Laid /\ Owner.context = c /\ working.team = published.team
    BY DEF Publishing, Owning, Seeded
  <2> QED
    BY <1>0, <2>1, TargetFields, OwnerPut DEF Laid
<1>3. /\ put \in Puts /\ late \in BOOLEAN /\ ~late
      /\ durable \in Stores /\ e \in Stores
      /\ e = Stored(durable, put, c, late)
  BY <1>2, OwnerPut DEF Laid
<1>4. /\ put \in {"pointer", "lastGood"} => Todo(Owner) \subseteq {"pointer", "lastGood"}
      /\ put = "lastGood" => Todo(Owner) = {"lastGood"}
  BY <1>2, EndingLeft
<1>5. /\ "row" \in Todo(Owner) \/ c.state <= durable.row
      /\ "manifest" \in Todo(Owner) \/ durable.manifest[c.state] = Manifest(c)
      /\ "pointer" \in Todo(Owner) \/ durable.pointer = Place(c)
  BY <1>2 DEF Laid
<1>6. durable.manifest[s] # NoManifest
  BY DEF Publishing, Authority
<1>7. Place(c).state = c.state /\ Place(c).team = c.team
  BY DEF Place
<1> HIDE DEF c, put, late, e
<1>8. CASE put \notin {"manifest", "pointer", "lastGood"}
  BY <1>8, AsideWhole DEF put
<1>9. CASE put = "manifest"
  <2>1. /\ e.pointer = durable.pointer /\ e.lastGood = durable.lastGood
        /\ e.manifest[c.state] = Manifest(c)
        /\ c.state # s => e.manifest[s] = durable.manifest[s]
    BY <1>1, <1>2, <1>3, <1>9, StoredFields
  <2>2. Restored(e) = Evidence(e, s, published.team)
    BY <1>1, <1>3, <2>1, RestoredAt, Times
  <2>3. CASE c.state = s
    <3>1. Evidence(e, c.state, c.team) = c
      BY <1>2, <2>1, ManifestEvidencePut DEF e
    <3> QED
      BY <1>2, <2>2, <2>3, <3>1 DEF c, e
  <2>4. CASE c.state # s
    <3>1. Evidence(e, s, published.team) = Evidence(durable, s, published.team)
      BY <1>1, <1>6, <2>1, <2>4, PutEvidence, Threads2 DEF e
    <3> QED
      BY <1>1, <2>1, <2>2, <3>1 DEF Shown, Serves, e
  <2> QED
    BY <2>3, <2>4
<1>10. CASE put \in {"pointer", "lastGood"}
  <2>1. durable.manifest[c.state] = Manifest(c) /\ c.state <= durable.row
    BY <1>4, <1>5, <1>10
  <2>2. e.manifest[c.state] = Manifest(c) /\ e.row = durable.row
    BY <1>2, <1>3, <1>10, <2>1, StoredFields
  <2>3. Evidence(e, c.state, c.team) = c
    BY <1>2, <2>2, ManifestEvidencePut DEF e
  <2>4. e.pointer.state = c.state /\ e.pointer.team = c.team
    <3>1. CASE put = "pointer"
      BY <1>2, <1>3, <1>7, <3>1, StoredFields
    <3>2. CASE put = "lastGood"
      <4>1. durable.pointer = Place(c)
        BY <1>4, <1>5, <3>2
      <4> QED
        BY <1>2, <1>3, <1>7, <3>2, <4>1, StoredFields
    <3> QED
      BY <1>10, <3>1, <3>2
  <2>5. e.row = c.state
    <3>1. e.row \in Nat /\ c.state \in Nat /\ e.row <= c.state
      BY <1>2, <1>3, RowNat, Times DEF e
    <3> QED
      BY <2>1, <2>2, <3>1
  <2>6. Restored(e) = c
    BY <1>2, <1>3, <2>3, <2>4, <2>5, RestoredAt, Times
  <2> QED
    BY <2>6 DEF c, e
<1> QED
  BY <1>8, <1>9, <1>10

(* And leaves it there.                                                     *)
LEMMA CommitTarget ==
  ASSUME Inv, Publishing, phase = "commit", Put("owner"), Restored(durable) = Target
  PROVE  Restored(durable') = Target
<1> DEFINE c == Target
           put == Head(Owner.todo)
           late == Owner.superseded
           e == durable'
<1>0. Types
  BY DEF Inv
<1>1. /\ Laid /\ Owner.context = c /\ c \in Contexts /\ Terminal(c) /\ c.state \in States
      /\ c.generation # None
  <2>1. Laid /\ Owner.context = c
    BY DEF Publishing, Owning
  <2> QED
    BY <1>0, <2>1, TargetFields DEF Laid
<1>2. /\ put \in Puts /\ late \in BOOLEAN /\ ~late
      /\ durable \in Stores /\ e \in Stores
      /\ e = Stored(durable, put, c, late)
  BY <1>1, OwnerPut DEF Laid
<1>3. Restored(durable) = c
  OBVIOUS
<1>4. Place(c).state = c.state /\ Place(c).team = c.team
  BY DEF Place
<1> HIDE DEF c, put, late, e
<1>5. /\ durable.pointer.state = c.state /\ durable.pointer.team = c.team
      /\ c.state \in {durable.row, durable.lastGood.state} /\ c.state # 0
      /\ Evidence(durable, c.state, c.team) = c
  BY <1>1, <1>2, <1>3, RestoredPlaced, Times
<1>6. durable.manifest[c.state] # NoManifest
  <2>1. Evidence(durable, c.state, c.team).generation # None
    BY <1>1, <1>5
  <2> QED
    BY <2>1 DEF Evidence
<1>7. e.pointer.state = c.state /\ e.pointer.team = c.team
  <2>1. e.pointer \in {Place(c), durable.pointer}
    BY <1>1, <1>2, StoredFields
  <2> QED
    BY <1>4, <1>5, <2>1
<1>8. c.state \in {e.row, e.lastGood.state}
  <2>1. e.lastGood \in {Place(c), durable.lastGood}
    BY <1>1, <1>2, StoredFields
  <2>2. durable.row = c.state => e.row = c.state
    BY <1>1, <1>2, StoredFields
  <2> QED
    BY <1>4, <1>5, <2>1, <2>2
<1>9. Evidence(e, c.state, c.team) = c
  <2>1. CASE put = "manifest"
    <3>1. e.manifest[c.state] = Manifest(c)
      BY <1>1, <1>2, <2>1, StoredFields
    <3> QED
      BY <1>1, <3>1, ManifestEvidencePut DEF e
  <2>2. CASE put # "manifest"
    <3>1. e.manifest[c.state] = durable.manifest[c.state]
      BY <1>1, <1>2, <2>2, StoredFields
    <3> QED
      BY <1>1, <1>5, <1>6, <3>1, PutEvidence, Threads2 DEF e
  <2> QED
    BY <2>1, <2>2
<1>10. Restored(e) = c
  BY <1>2, <1>5, <1>7, <1>8, <1>9, RestoredAt
<1> QED
  BY <1>10 DEF c, e

(* Another user's observation of the league takes the shared row only.      *)
LEMMA OtherWhole ==
  ASSUME Inv, Publishing, NEW s \in States, OtherUser(s), Restored(durable).state # 0,
         \/ durable.lastGood.state = Restored(durable).state
         \/ durable'.row <= Restored(durable).state
  PROVE  Restored(durable') = Restored(durable) /\ durable'.lastGood = durable.lastGood
<1>1. durable \in Stores /\ s > durable.row /\ durable' = [durable EXCEPT !.row = s]
  BY DEF OtherUser, Inv, Types
<1>2. /\ durable' \in Stores /\ durable'.row = s /\ durable'.pointer = durable.pointer
      /\ durable'.lastGood = durable.lastGood
      /\ \A x, team : Evidence(durable', x, team) = Evidence(durable, x, team)
  BY <1>1 DEF Stores, Evidence, Bound
<1>3. /\ durable.pointer.state = Restored(durable).state
      /\ durable.pointer.state \in {durable.row, durable.lastGood.state}
  BY <1>1, RestoredPlaced
<1>4. durable.lastGood.state = Restored(durable).state
  <2>1. s \in Nat /\ durable.row \in Nat
    BY <1>1, RowNat, Times
  <2> QED
    BY <1>1, <1>2, <1>3, <2>1
<1>5. Evidence(durable', durable.pointer.state, durable.pointer.team)
      = Evidence(durable, durable.pointer.state, durable.pointer.team)
  BY <1>2
<1>6. /\ durable'.pointer.state = durable.pointer.state
      /\ durable'.pointer.team = durable.pointer.team
      /\ durable.pointer.state \in {durable'.row, durable'.lastGood.state}
  BY <1>2, <1>3, <1>4
<1>7. Restored(durable') = Restored(durable)
  BY <1>1, <1>2, <1>5, <1>6, RestoredKept
<1> QED
  BY <1>2, <1>7

(* A publication replaces what a crash would restore as a whole.            *)
THEOREM PublishedAtOnce == Spec => AtomicPublish
<1> DEFINE Step ==
      /\ StageArtifacts => Whole(durable)
      /\ /\ phase \in {"boot", "stage", "promote", "commit"}
         /\ Terminal(published)
         /\ durable'.row <= working.state
         /\ Whole(durable)
         => Whole(durable')
<1>1. ASSUME Inv, Publishing, StageArtifacts PROVE Whole(durable)
  <2>1. Laid /\ Granted /\ Owner.todo = << >>
    BY <1>1 DEF StageArtifacts, Publishing, Owning, OwnerWritten, Owner
  <2>2. Restored(durable) = Owner.context
    BY <1>1, <2>1, LaidRestored
  <2>3. durable.lastGood = Place(Owner.context)
    BY <2>1, InTodo DEF Laid
  <2>4. Owner.context \in Contexts /\ published \in Contexts
    BY <1>1, Threads2 DEF Inv, Types, Writes, Owner
  <2>5. Owner.context.state = published.state /\ Owner.context.team = published.team
        /\ durable.lastGood.state = published.state
    BY <2>1, <2>3 DEF Granted, Place
  <2>6. Serves(Owner.context, published)
    BY <2>1, <2>4, <2>5, EvidencedFields DEF Granted, Serves
  <2> QED
    BY <2>2, <2>5, <2>6 DEF Whole
<1>2. ASSUME Inv, Publishing, Next, phase \in Sealed, Terminal(published),
             durable'.row <= working.state, Whole(durable)
      PROVE  Whole(durable')
  <2>0. Types /\ up /\ Checkpoint = Idle
    BY <1>2, SealedStill DEF Inv
  <2>1. ASSUME Restored(durable') = Restored(durable), durable'.lastGood = durable.lastGood
        PROVE  Whole(durable')
    BY <1>2, <2>1 DEF Whole, Serves
  <2>2. CASE Put("owner")
    <3>1. phase # "promote"
      BY <1>2, <2>2 DEF Publishing, Owning, Put, Owner, Idle
    <3>2. CASE phase = "boot"
      BY <1>2, <2>2, <3>2, BootWhole DEF Whole, Shown
    <3>3. CASE phase = "stage"
      <4>1. Head(Owner.todo) \notin {"manifest", "pointer", "lastGood"}
        BY <1>2, <2>2, <3>3, OwnerPut DEF Publishing, Owning
      <4> QED
        BY <1>2, <2>2, <3>3, <4>1, AsideWhole DEF Whole, Shown
    <3>4. CASE phase = "commit"
      BY <1>2, <2>2, <3>4, CommitShown, CommitTarget DEF Whole, Shown
    <3> QED
      BY <1>2, <3>1, <3>2, <3>3, <3>4 DEF Sealed
  <2>3. ASSUME NEW s \in States, OtherUser(s) PROVE Whole(durable')
    <3>1. CASE Serves(Restored(durable), published) /\ durable.lastGood.state = published.state
      <4>1. Restored(durable).state = published.state /\ Restored(durable).state # 0
        BY <1>2, <3>1, ShownPlace
      <4> QED
        BY <1>2, <2>1, <2>3, <3>1, <4>1, OtherWhole
    <3>2. CASE phase = "commit" /\ Restored(durable) = Target
      <4>1. Target.state = working.state /\ working.state \in States
        BY <1>2, <2>0, <3>2, TargetFields DEF Publishing, Seeded
      <4> QED
        BY <1>2, <2>1, <2>3, <3>2, <4>1, OtherWhole, Times
    <3> QED
      BY <1>2, <3>1, <3>2 DEF Whole
  <2>4. CASE PromoteWorking
    <3>1. \A d, e : (/\ e.row = d.row /\ e.pointer = d.pointer /\ e.lastGood = d.lastGood
                     /\ e.forecasts = d.forecasts /\ e.simulations = d.simulations
                     /\ e.values = d.values /\ e.newest = d.newest /\ e.manifest = d.manifest)
                    => Restored(e) = Restored(d)
      BY DEF Restored, Evidence, Bound
    <3>2. /\ durable'.row = durable.row /\ durable'.pointer = durable.pointer
          /\ durable'.lastGood = durable.lastGood /\ durable'.forecasts = durable.forecasts
          /\ durable'.simulations = durable.simulations /\ durable'.values = durable.values
          /\ durable'.newest = durable.newest /\ durable'.manifest = durable.manifest
      BY <2>0, <2>4 DEF PromoteWorking, Present, Types, Stores
    <3> QED
      BY <2>1, <3>1, <3>2
  <2>5. CASE durable' = durable
    BY <2>1, <2>5
  <2>6. Put("owner") \/ (\E s \in States : OtherUser(s)) \/ PromoteWorking \/ durable' = durable
    <3>1. ~Restart /\ ~WriteIdentity /\ ~Bind
      BY <1>2, <2>0 DEF Restart, WriteIdentity, Bind, Free, Sealed
    <3>2. ~Put("queue")
      <4>1. write["queue"].todo = << >>
        BY <2>0 DEF Checkpoint, Idle
      <4> QED
        BY <4>1 DEF Put
    <3> QED
      BY <1>2, <3>1, <3>2 DEF Next, Requests, Activate, Stage, SelectTeam, Executor, StartSnapshot,
         EndSnapshot, Publication, BeginPublication, DrainFails, Boot, StageArtifacts, Commit,
         Refuse, Swap, EndBind, PutFails, Crash, Threads
  <2> QED
    BY <2>2, <2>3, <2>4, <2>5, <2>6
<1>3. Inv /\ Publishing /\ [Next]_vars => [Step]_vars
  BY <1>1, <1>2 DEF Sealed
<1> QED
  BY <1>3, PublishingInvariance, PTL DEF AtomicPublish, Spec

-----------------------------------------------------------------------------
(* While nothing fails, what a context says of its state is what the store  *)
(* has for it: the manifest's evidence, or before there is one the newest   *)
(* artifacts of the state.                                                  *)
Bundle(c) == Terminal(c) \/ (c.forecast = None /\ ~c.simulation /\ c.value = None)

Held(d, c) ==
  /\ d.newest[c.state].forecast = c.forecast /\ d.newest[c.state].value = c.value
  /\ c.forecast \in d.simulations

Says(d, c) ==
  Terminal(c) =>
    IF d.manifest[c.state] = NoManifest THEN Held(d, c)
    ELSE d.manifest[c.state].forecast = c.forecast /\ d.manifest[c.state].value = c.value

Faithful(d, c) == Placed(c) /\ Bundle(c) /\ Says(d, c)

Telling ==
  /\ Bundle(published) /\ (phase # "commit" => Says(durable, published))
  /\ Faithful(durable, Checkpoint.context)
  /\ \A i \in DOMAIN queue : Faithful(durable, queue[i].context)

(* The newest artifacts of a state without a manifest are a whole bundle,   *)
(* or none, but for the state being staged.                                 *)
Half(d, x) ==
  \/ d.manifest[x] # NoManifest
  \/ d.newest[x].forecast = None /\ d.newest[x].value = None
  \/ /\ d.newest[x].forecast # None /\ d.newest[x].value # None
     /\ d.newest[x].forecast \in d.simulations

Halves == \A x \in States : Half(durable, x) \/ (phase = "stage" /\ x = working.state)

Staging ==
  LET Left(put) == phase = "stage" /\ put \in Todo(Owner)
      n == durable.newest[working.state]
  IN  phase \in {"stage", "promote", "commit"} =>
        /\ Left("forecast") \/ n.forecast = working.forecast
        /\ Left("simulation") \/ working.forecast \in durable.simulations
        /\ Left("value") \/ n.value = working.value

(* Checkpoints are written in the order of their states; the last is the    *)
(* published one's.                                                         *)
Ordered(q, c, p) ==
  /\ c.state <= p.state
  /\ \A i \in DOMAIN q : /\ q[i].context.state \in States
                         /\ c.state <= q[i].context.state
                         /\ q[i].context.state <= p.state
  /\ \A i, j \in DOMAIN q : i <= j => q[i].context.state <= q[j].context.state

Ends(q, c, p) ==
  IF q = << >> THEN c.state # 0 => Place(c) = Place(p)
  ELSE ~q[Len(q)].stale /\ Place(q[Len(q)].context) = Place(p)

Lined ==
  /\ Ordered(queue, Checkpoint.context, published)
  /\ Ends(queue, Checkpoint.context, published)
  /\ Checkpoint.todo # << >> => Checkpoint.context.state # 0

(* The published bundle has been checkpointed, or will be: a checkpoint of  *)
(* its state is queued, or has its last-good record to write, or that       *)
(* record is there and nothing left would take it back.                     *)
Waits(q, x) ==
  \E i \in DOMAIN q : /\ q[i].kind = "snapshot" /\ Terminal(q[i].context)
                      /\ q[i].context.state = x

Settles(w, x) == w.context.state = x /\ Terminal(w.context) /\ "lastGood" \in Todo(w)

Settled(q, w, x, d) ==
  /\ d.lastGood.state = x
  /\ \A i \in DOMAIN q : q[i].context.state = x
  /\ w.context.state \in {0, x}

Covered(q, w, p, d) ==
  Waits(q, p.state) \/ Settles(w, p.state) \/ Settled(q, w, p.state, d)

Pointed(q, w, p, d) ==
  q = << >> => "pointer" \in Todo(w) \/ d.pointer = Place(p)

Carried ==
  phase # "commit" /\ Terminal(published) =>
    Covered(queue, Checkpoint, published, durable) /\ Pointed(queue, Checkpoint, published, durable)

Calm == Telling /\ Halves /\ Staging /\ Lined /\ Carried

LEMMA NoneApart == None \notin Runs
BY PublicationAssumption DEF Runs

(* A put of a context that says what the store has changes nothing the      *)
(* other contexts say.                                                      *)
LEMMA NewestPut ==
  ASSUME NEW d \in Stores, NEW b \in Contexts, Held(d, b), NEW put \in Puts,
         NEW late \in BOOLEAN, NEW e, e = Stored(d, put, b, late)
  PROVE  /\ d.simulations \subseteq e.simulations
         /\ \A x \in States : /\ e.newest[x].forecast = d.newest[x].forecast
                              /\ e.newest[x].value = d.newest[x].value
<1>1. d.simulations \subseteq e.simulations
  BY StoredEffect
<1>2. ASSUME NEW x \in States
      PROVE  e.newest[x].forecast = d.newest[x].forecast /\ e.newest[x].value = d.newest[x].value
  BY StoredFields DEF Held
<1> QED
  BY <1>1, <1>2

LEMMA ManifestPut ==
  ASSUME NEW d \in Stores, NEW b \in Contexts, NEW put \in Puts, NEW late \in BOOLEAN,
         NEW e, e = Stored(d, put, b, late), NEW x \in States
  PROVE  \/ e.manifest[x] = d.manifest[x]
         \/ put = "manifest" /\ x = b.state /\ e.manifest[x] = Manifest(b)
<1>1. CASE put = "manifest"
  BY <1>1 DEF Stored, Stores
<1>2. CASE put # "manifest"
  BY <1>2, StoredEffect
<1> QED
  BY <1>1, <1>2

LEMMA PutsBundle ==
  ASSUME NEW b \in Contexts, Placed(b), Bundle(b), NEW put \in Allowed(b)
  PROVE  /\ put \in Puts
         /\ put \in {"forecast", "simulation", "value", "manifest"} =>
              Terminal(b) /\ b.state \in States
<1>1. Terminal(b) => b.state \in States
  BY ContextFields DEF Terminal, Placed
<1> QED
  BY <1>1 DEF Allowed, Bundle

LEMMA SaysPut ==
  ASSUME NEW d \in Stores, NEW b \in Contexts, Placed(b), Bundle(b), Says(d, b),
         NEW put \in Allowed(b), NEW late \in BOOLEAN, NEW e, e = Stored(d, put, b, late),
         NEW c \in Contexts, Placed(c), Says(d, c)
  PROVE  Says(e, c)
<1> SUFFICES ASSUME Terminal(c) PROVE Says(e, c)
  BY DEF Says
<1>0. c.state \in States /\ put \in Puts
  BY ContextFields, PutsBundle DEF Terminal, Placed
<1>1. d.simulations \subseteq e.simulations
  BY <1>0, StoredEffect
<1>2. CASE d.manifest[c.state] # NoManifest
  <2>1. \/ e.manifest[c.state] = d.manifest[c.state]
        \/ e.manifest[c.state] = Manifest(b) /\ Terminal(b) /\ b.state = c.state
    <3>1. \/ e.manifest[c.state] = d.manifest[c.state]
          \/ put = "manifest" /\ c.state = b.state /\ e.manifest[c.state] = Manifest(b)
      BY <1>0, ManifestPut
    <3>2. put = "manifest" => Terminal(b)
      BY PutsBundle
    <3> QED
      BY <3>1, <3>2
  <2>2. ASSUME Terminal(b), b.state = c.state
        PROVE  b.forecast = c.forecast /\ b.value = c.value
    BY <1>2, <2>2 DEF Says
  <2>3. ASSUME e.manifest[c.state] = Manifest(b), Terminal(b), b.state = c.state
        PROVE  Says(e, c)
    <3>1. e.manifest[c.state] # NoManifest
      BY <2>3, ManifestNot
    <3>2. e.manifest[c.state].forecast = b.forecast /\ e.manifest[c.state].value = b.value
      BY <2>3 DEF Manifest
    <3> QED
      BY <2>2, <2>3, <3>1, <3>2 DEF Says
  <2> QED
    BY <1>2, <2>1, <2>3 DEF Says
<1>3. CASE d.manifest[c.state] = NoManifest
  <2>1. Held(d, c)
    BY <1>3 DEF Says
  <2>2. e.newest[c.state].forecast = d.newest[c.state].forecast
        /\ e.newest[c.state].value = d.newest[c.state].value
    <3>1. CASE Terminal(b) /\ b.state = c.state
      <4>1. Held(d, b)
        BY <1>3, <3>1 DEF Says
      <4> QED
        BY <1>0, <4>1, NewestPut
    <3>2. CASE ~(Terminal(b) /\ b.state = c.state)
      BY <1>0, <3>2, StoredFields, PutsBundle
    <3> QED
      BY <3>1, <3>2
  <2>3. Held(e, c)
    BY <1>1, <2>1, <2>2 DEF Held
  <2>4. CASE e.manifest[c.state] = NoManifest
    BY <2>3, <2>4 DEF Says
  <2>5. CASE e.manifest[c.state] # NoManifest
    <3>1. e.manifest[c.state] = Manifest(b) /\ Terminal(b) /\ b.state = c.state
      BY <1>0, <1>3, <2>5, StoredFields, PutsBundle
    <3>2. Held(d, b)
      BY <1>3, <3>1 DEF Says
    <3>3. b.forecast = c.forecast /\ b.value = c.value
      BY <2>1, <3>1, <3>2 DEF Held
    <3>4. e.manifest[c.state].forecast = b.forecast /\ e.manifest[c.state].value = b.value
      BY <3>1 DEF Manifest
    <3> QED
      BY <2>5, <3>3, <3>4 DEF Says
  <2> QED
    BY <2>4, <2>5
<1> QED
  BY <1>2, <1>3

LEMMA HalfPut ==
  ASSUME NEW d \in Stores, NEW b \in Contexts, Placed(b), Bundle(b), Says(d, b),
         NEW put \in Allowed(b), NEW late \in BOOLEAN, NEW e, e = Stored(d, put, b, late),
         NEW x \in States, Half(d, x)
  PROVE  Half(e, x)
<1>0. put \in Puts /\ d.simulations \subseteq e.simulations
  BY PutsBundle, StoredEffect
<1>1. CASE d.manifest[x] # NoManifest
  <2>1. e.manifest[x] = d.manifest[x] \/ (e.manifest[x] = Manifest(b) /\ Terminal(b))
    <3>1. \/ e.manifest[x] = d.manifest[x]
          \/ put = "manifest" /\ x = b.state /\ e.manifest[x] = Manifest(b)
      BY <1>0, ManifestPut
    <3>2. put = "manifest" => Terminal(b)
      BY PutsBundle
    <3> QED
      BY <3>1, <3>2
  <2> QED
    BY <1>1, <2>1, ManifestNot DEF Half
<1>2. CASE d.manifest[x] = NoManifest
  <2>1. e.newest[x].forecast = d.newest[x].forecast /\ e.newest[x].value = d.newest[x].value
    <3>1. CASE Terminal(b) /\ b.state = x
      <4>1. Held(d, b)
        BY <1>2, <3>1 DEF Says
      <4> QED
        BY <1>0, <4>1, NewestPut
    <3>2. CASE ~(Terminal(b) /\ b.state = x)
      BY <1>0, <3>2, StoredFields, PutsBundle
    <3> QED
      BY <3>1, <3>2
  <2> QED
    BY <1>0, <1>2, <2>1 DEF Half
<1> QED
  BY <1>1, <1>2

-----------------------------------------------------------------------------
(* The checkpoint queue under its operations.                               *)
LEMMA TaskFields ==
  ASSUME NEW q \in Seq(Tasks), NEW i \in DOMAIN q
  PROVE  /\ q[i] \in Tasks /\ q[i].context \in Contexts /\ q[i].stale \in BOOLEAN
         /\ q[i].kind \in {"snapshot", "identity"}
<1>1. q[i] \in Tasks
  OBVIOUS
<1> QED
  BY <1>1 DEF Tasks

LEMMA SubmittedSeq ==
  ASSUME NEW q \in Seq(Tasks), NEW task \in Tasks
  PROVE  Submitted(q, task) \in Seq(Tasks)
BY DEF Submitted

LEMMA SubmittedShape ==
  ASSUME NEW q \in Seq(Tasks), NEW task \in Tasks,
         NEW r \in Seq(Tasks), r = Submitted(q, task)
  PROVE  /\ r # << >> /\ r[Len(r)] = task
         /\ \A i \in DOMAIN r : r[i] = task \/ (i \in DOMAIN q /\ r[i] = q[i])
         /\ \A i \in DOMAIN q : /\ i \in DOMAIN r
                                /\ \/ r[i] = q[i]
                                   \/ q[i].kind = task.kind
         /\ \A i \in DOMAIN r : i # Len(r) => i \in DOMAIN q /\ r[i] = q[i]
<1> DEFINE n == Len(q)
           subsumed == /\ n > 0
                       /\ q[n].kind = task.kind
                       /\ q[n].context.state = task.context.state
<1>1. r = IF subsumed THEN [q EXCEPT ![n] = task] ELSE Append(q, task)
  BY DEF Submitted
<1>2. CASE subsumed
  <2>1. r = [q EXCEPT ![n] = task] /\ n \in DOMAIN q /\ Len(r) = n /\ DOMAIN r = DOMAIN q
    BY <1>1, <1>2
  <2>3. \A i \in DOMAIN q : r[i] = IF i = n THEN task ELSE q[i]
    BY <2>1
  <2> QED
    BY <1>2, <2>1, <2>3
<1>3. CASE ~subsumed
  <2>1. r = Append(q, task) /\ Len(r) = n + 1 /\ r \in Seq(Tasks)
    BY <1>1, <1>3
  <2>2. DOMAIN r = 1..(n + 1) /\ DOMAIN q = 1..n
    BY <2>1
  <2>3. \A i \in DOMAIN r : r[i] = IF i = n + 1 THEN task ELSE q[i]
    BY <2>1
  <2> HIDE DEF subsumed
  <2> QED
    BY <2>1, <2>2, <2>3
<1> QED
  BY <1>2, <1>3

(* The same checkpoints, whether or not they have become stale.             *)
Alike(q, r) ==
  /\ r \in Seq(Tasks) /\ Len(r) = Len(q) /\ DOMAIN r = DOMAIN q
  /\ \A i \in DOMAIN q : r[i].kind = q[i].kind /\ r[i].context = q[i].context

LEMMA StaledAlike ==
  ASSUME NEW q \in Seq(Tasks), NEW r \in {q, Staled(q)}
  PROVE  Alike(q, r)
<1>1. CASE r = q
  BY <1>1 DEF Alike
<1>2. CASE r = Staled(q)
  <2>1. \A i \in DOMAIN q : [q[i] EXCEPT !.stale = TRUE] \in Tasks
    <3> SUFFICES ASSUME NEW i \in DOMAIN q PROVE [q[i] EXCEPT !.stale = TRUE] \in Tasks
      OBVIOUS
    <3>1. q[i] \in Tasks
      BY TaskFields
    <3> QED
      BY <3>1 DEF Tasks
  <2>2. r = [i \in 1..Len(q) |-> [q[i] EXCEPT !.stale = TRUE]]
    BY <1>2 DEF Staled
  <2>3. r \in Seq(Tasks) /\ Len(r) = Len(q) /\ DOMAIN r = DOMAIN q
    BY <2>1, <2>2
  <2>4. \A i \in DOMAIN q : r[i].kind = q[i].kind /\ r[i].context = q[i].context
    BY <2>2, TaskFields DEF Tasks
  <2> QED
    BY <2>3, <2>4 DEF Alike
<1> QED
  BY <1>1, <1>2

LEMMA AlikeSame ==
  ASSUME NEW q \in Seq(Tasks), NEW r, Alike(q, r)
  PROVE  /\ \A c, p : Ordered(q, c, p) => Ordered(r, c, p)
         /\ \A x : Waits(q, x) => Waits(r, x)
         /\ \A d, w, x : Settled(q, w, x, d) => Settled(r, w, x, d)
         /\ \A d : (\A i \in DOMAIN q : Faithful(d, q[i].context)) =>
              \A i \in DOMAIN r : Faithful(d, r[i].context)
BY DEF Alike, Ordered, Waits, Settled

LEMMA TailShape ==
  ASSUME NEW q \in Seq(Tasks), q # << >>
  PROVE  /\ Head(q) = q[1] /\ 1 \in DOMAIN q /\ Tail(q) \in Seq(Tasks)
         /\ Len(Tail(q)) = Len(q) - 1 /\ Len(q) \in Nat \ {0} /\ Len(q) \in DOMAIN q
         /\ \A i \in DOMAIN Tail(q) : i + 1 \in DOMAIN q /\ Tail(q)[i] = q[i + 1]
         /\ \A i \in DOMAIN q : i # 1 => i - 1 \in DOMAIN Tail(q) /\ Tail(q)[i - 1] = q[i]
         /\ Tail(q) = << >> => Len(q) = 1
<1> DEFINE n == Len(q)
<1>1. Head(q) = q[1] /\ n \in Nat \ {0} /\ DOMAIN q = 1..n
  OBVIOUS
<1>2. /\ Tail(q) \in Seq(Tasks) /\ Len(Tail(q)) = n - 1
      /\ \A i \in 1..(n - 1) : Tail(q)[i] = q[i + 1]
  OBVIOUS
<1>3. DOMAIN Tail(q) = 1..(n - 1) /\ (Tail(q) = << >> => Len(Tail(q)) = 0)
  <2>1. DOMAIN Tail(q) = 1..Len(Tail(q))
    BY <1>2
  <2>2. Len(<< >>) = 0
    OBVIOUS
  <2> HIDE DEF n
  <2> QED
    BY <1>2, <2>1, <2>2
<1> HIDE DEF n
<1>4. \A i \in 1..(n - 1) : i + 1 \in 1..n
  BY <1>1
<1>5. \A i \in 1..n : i # 1 => i - 1 \in 1..(n - 1) /\ (i - 1) + 1 = i
  BY <1>1
<1>6. 1 \in 1..n /\ n \in 1..n
  BY <1>1
<1>7. n - 1 = 0 => n = 1
  BY <1>1
<1> QED
  BY <1>1, <1>2, <1>3, <1>4, <1>5, <1>6, <1>7 DEF n

(* A submission keeps the queue ordered, and ends it.                       *)
LEMMA OrderedSubmitted ==
  ASSUME NEW q \in Seq(Tasks), NEW c \in Contexts, NEW p \in Contexts, Ordered(q, c, p),
         NEW task \in Tasks, task.context.state \in States, p.state <= task.context.state,
         NEW m, Place(m) = Place(task.context), ~task.stale
  PROVE  Ordered(Submitted(q, task), c, m) /\ Ends(Submitted(q, task), c, m)
<1>r. PICK r \in Seq(Tasks) : r = Submitted(q, task)
  BY SubmittedSeq
<1>0. task.context.state \in Nat /\ p.state \in Nat /\ c.state \in Nat
  <2>1. \A x \in States \cup {0} : x \in Nat
    BY Times
  <2> QED
    BY <2>1, ContextFields
<1>1. m.state = task.context.state
  BY DEF Place
<1>2. \A i \in DOMAIN q : /\ q[i].context.state \in States /\ q[i].context.state \in Nat
                          /\ c.state <= q[i].context.state /\ q[i].context.state <= p.state
  BY Times DEF Ordered
<1>3. /\ r # << >> /\ r[Len(r)] = task
      /\ \A i \in DOMAIN r : r[i] = task \/ (i \in DOMAIN q /\ r[i] = q[i])
      /\ \A i \in DOMAIN r : i # Len(r) => i \in DOMAIN q /\ r[i] = q[i]
  BY <1>r, SubmittedShape
<1>4. c.state <= m.state
  BY <1>0, <1>1 DEF Ordered
<1>5. \A i \in DOMAIN r : /\ r[i].context.state \in States
                          /\ c.state <= r[i].context.state
                          /\ r[i].context.state <= m.state
  BY <1>0, <1>1, <1>2, <1>3, <1>4
<1>6. ASSUME NEW i \in DOMAIN r, NEW j \in DOMAIN r, i <= j
      PROVE  r[i].context.state <= r[j].context.state
  <2>1. CASE j = Len(r)
    BY <1>1, <1>3, <1>5, <2>1
  <2>2. CASE j # Len(r)
    <3>1. i # Len(r)
      BY <1>3, <1>6, <2>2
    <3>2. i \in DOMAIN q /\ r[i] = q[i] /\ j \in DOMAIN q /\ r[j] = q[j]
      BY <1>3, <2>2, <3>1
    <3> QED
      BY <1>6, <3>2 DEF Ordered
  <2> QED
    BY <2>1, <2>2
<1>7. Ends(r, c, m)
  BY <1>3 DEF Ends
<1> QED
  BY <1>r, <1>4, <1>5, <1>6, <1>7 DEF Ordered

(* The head begins to be written, or is done with.                          *)
LEMMA OrderedTail ==
  ASSUME NEW q \in Seq(Tasks), q # << >>, NEW c \in Contexts, NEW p \in Contexts,
         Ordered(q, c, p), Ends(q, c, p)
  PROVE  /\ \A b : Place(b) = Place(Head(q).context) =>
              Ordered(Tail(q), b, p) /\ Ends(Tail(q), b, p)
         /\ Ordered(Tail(q), c, p)
         /\ c.state = 0 => Ends(Tail(q), c, p)
<1> DEFINE r == Tail(q)
<1>1. /\ Head(q) = q[1] /\ 1 \in DOMAIN q /\ r \in Seq(Tasks)
      /\ Len(r) = Len(q) - 1 /\ Len(q) \in Nat \ {0}
      /\ \A i \in DOMAIN r : i + 1 \in DOMAIN q /\ r[i] = q[i + 1]
      /\ r = << >> => Len(q) = 1
  BY TailShape
<1>2. r # << >> => r[Len(r)] = q[Len(q)]
  BY <1>1
<1> HIDE DEF r
<1>3. \A i \in DOMAIN r : i \in Int /\ i + 1 \in Int /\ 1 <= i + 1
  BY <1>1
<1>4. \A b : b.state = q[1].context.state => Ordered(r, b, p)
  BY <1>1, <1>3 DEF Ordered
<1>5. Ordered(r, c, p)
  BY <1>1, <1>3 DEF Ordered
<1>6. ASSUME NEW b, r = << >> => Place(b) = Place(p) \/ b.state = 0 PROVE Ends(r, b, p)
  BY <1>2, <1>6 DEF Ends
<1>7. r = << >> => Place(q[1].context) = Place(p)
  BY <1>1 DEF Ends
<1> QED
  BY <1>1, <1>4, <1>5, <1>6, <1>7 DEF Place, r

(* What a plan contains.                                                    *)
Occurs(x, s) == \E i \in DOMAIN s : s[i] = x

LEMMA OccursJoined ==
  ASSUME NEW S, NEW p \in Seq(S), NEW q \in Seq(S), NEW x, Occurs(x, p) \/ Occurs(x, q)
  PROVE  Occurs(x, p \o q)
<1>1. /\ Len(p \o q) = Len(p) + Len(q)
      /\ \A i \in 1..Len(p \o q) : (p \o q)[i] = IF i <= Len(p) THEN p[i] ELSE q[i - Len(p)]
  BY ConcatProperties
<1>2. Len(p) \in Nat /\ Len(q) \in Nat /\ DOMAIN p = 1..Len(p) /\ DOMAIN q = 1..Len(q)
      /\ DOMAIN (p \o q) = 1..Len(p \o q)
  BY ConcatProperties
<1>3. ASSUME NEW i \in DOMAIN p, p[i] = x PROVE Occurs(x, p \o q)
  <2>1. i \in 1..Len(p \o q) /\ i <= Len(p)
    BY <1>1, <1>2
  <2> QED
    BY <1>1, <1>2, <1>3, <2>1 DEF Occurs
<1>4. ASSUME NEW i \in DOMAIN q, q[i] = x PROVE Occurs(x, p \o q)
  <2>1. i + Len(p) \in 1..Len(p \o q) /\ ~(i + Len(p) <= Len(p)) /\ (i + Len(p)) - Len(p) = i
    BY <1>1, <1>2
  <2>2. (p \o q)[i + Len(p)] = x
    BY <1>1, <1>4, <2>1
  <2> QED
    BY <1>2, <2>1, <2>2 DEF Occurs
<1> QED
  BY <1>3, <1>4 DEF Occurs

LEMMA PlanHolds ==
  ASSUME NEW c, NEW publish \in BOOLEAN, NEW x,
         \/ x = "pointer" /\ publish
         \/ x \in {"manifest", "lastGood"} /\ publish /\ Terminal(c)
         \/ x = "forecast" /\ c.forecast # None
         \/ x = "simulation" /\ c.simulation /\ c.forecast # None
         \/ x = "value" /\ c.value # None
  PROVE  Occurs(x, Plan(c, publish))
<1> DEFINE If(b, put) == IF b THEN <<put>> ELSE <<>>
           p1 == <<"row">>
           p2 == If(publish /\ ~Terminal(c), "pointer")
           p3 == If(c.forecast # None, "forecast")
           p4 == If(c.simulation /\ c.forecast # None, "simulation")
           p5 == If(c.value # None, "value")
           p6 == IF publish /\ Terminal(c) THEN <<"manifest", "pointer", "lastGood">> ELSE <<>>
<1>1. << >> \in Seq(Puts) /\ \A p \in Puts : <<p>> \in Seq(Puts)
  BY EmptySeq
<1>2. p1 \in Seq(Puts) /\ p2 \in Seq(Puts) /\ p3 \in Seq(Puts)
  BY <1>1 DEF Puts
<1>3. p4 \in Seq(Puts) /\ p5 \in Seq(Puts)
  BY <1>1 DEF Puts
<1>4. p6 \in Seq(Puts)
  <2>1. <<"manifest", "pointer", "lastGood">> \in Seq(Puts)
    BY DEF Puts
  <2> QED
    BY <1>1, <2>1
<1>5. Plan(c, publish) = p1 \o p2 \o p3 \o p4 \o p5 \o p6
  BY Zenon DEF Plan
<1>6. \A p \in Puts : Occurs(p, <<p>>)
  BY DEF Occurs
<1>7. Occurs("manifest", <<"manifest", "pointer", "lastGood">>)
      /\ Occurs("pointer", <<"manifest", "pointer", "lastGood">>)
      /\ Occurs("lastGood", <<"manifest", "pointer", "lastGood">>)
  <2> DEFINE s == <<"manifest", "pointer", "lastGood">>
  <2>1. DOMAIN s = 1..3 /\ s[1] = "manifest" /\ s[2] = "pointer" /\ s[3] = "lastGood"
    OBVIOUS
  <2> HIDE DEF s
  <2>2. 1 \in 1..3 /\ 2 \in 1..3 /\ 3 \in 1..3
    OBVIOUS
  <2>3. Occurs("manifest", s) /\ Occurs("pointer", s) /\ Occurs("lastGood", s)
    BY <2>1, <2>2 DEF Occurs
  <2> QED
    BY <2>3 DEF s
<1>8. \/ Occurs(x, p2) \/ Occurs(x, p3) \/ Occurs(x, p4) \/ Occurs(x, p5) \/ Occurs(x, p6)
  BY <1>6, <1>7 DEF Puts
<1> HIDE DEF p1, p2, p3, p4, p5, p6
<1>9. p1 \o p2 \in Seq(Puts) /\ (Occurs(x, p2) => Occurs(x, p1 \o p2))
  BY <1>2, Joined, OccursJoined
<1>10. /\ p1 \o p2 \o p3 \in Seq(Puts)
       /\ Occurs(x, p1 \o p2) \/ Occurs(x, p3) => Occurs(x, p1 \o p2 \o p3)
  BY <1>2, <1>9, Joined, OccursJoined
<1>11. /\ p1 \o p2 \o p3 \o p4 \in Seq(Puts)
       /\ Occurs(x, p1 \o p2 \o p3) \/ Occurs(x, p4) => Occurs(x, p1 \o p2 \o p3 \o p4)
  BY <1>3, <1>10, Joined, OccursJoined
<1>12. /\ p1 \o p2 \o p3 \o p4 \o p5 \in Seq(Puts)
       /\ Occurs(x, p1 \o p2 \o p3 \o p4) \/ Occurs(x, p5)
            => Occurs(x, p1 \o p2 \o p3 \o p4 \o p5)
  BY <1>3, <1>11, Joined, OccursJoined
<1>13. Occurs(x, p1 \o p2 \o p3 \o p4 \o p5) \/ Occurs(x, p6)
         => Occurs(x, p1 \o p2 \o p3 \o p4 \o p5 \o p6)
  BY <1>4, <1>12, OccursJoined
<1> QED
  BY <1>5, <1>8, <1>9, <1>10, <1>11, <1>12, <1>13

LEMMA PlanTodo ==
  ASSUME NEW c, NEW publish \in BOOLEAN, NEW w, w.todo = Plan(c, publish)
  PROVE  /\ publish => "pointer" \in Todo(w)
         /\ publish /\ Terminal(c) => "lastGood" \in Todo(w)
         /\ Terminal(c) => {"forecast", "simulation", "value"} \subseteq Todo(w)
<1>1. \A x : Occurs(x, Plan(c, publish)) => x \in Todo(w)
  BY DEF Occurs, Todo
<1>2. publish => Occurs("pointer", Plan(c, publish))
  BY PlanHolds
<1>3. publish /\ Terminal(c) => Occurs("lastGood", Plan(c, publish))
  BY PlanHolds
<1>4. Terminal(c) => /\ Occurs("forecast", Plan(c, publish))
                     /\ Occurs("simulation", Plan(c, publish))
                     /\ Occurs("value", Plan(c, publish))
  BY PlanHolds DEF Terminal
<1> QED
  BY <1>1, <1>2, <1>3, <1>4

-----------------------------------------------------------------------------
(* What a step that does not touch it leaves of each part.                  *)
SameStore(d, e) ==
  e.manifest = d.manifest /\ e.newest = d.newest /\ e.simulations = d.simulations

LEMMA SameStoreSays ==
  ASSUME NEW d, NEW e, SameStore(d, e)
  PROVE  /\ \A c : Says(d, c) => Says(e, c)
         /\ \A c : Faithful(d, c) => Faithful(e, c)
         /\ \A x : Half(d, x) => Half(e, x)
BY DEF SameStore, Says, Held, Faithful, Half

LEMMA KeptTodo ==
  ASSUME Kept("queue")
  PROVE  /\ Checkpoint'.context = Checkpoint.context /\ Checkpoint'.todo = Checkpoint.todo
         /\ Todo(Checkpoint') = Todo(Checkpoint)
BY DEF Kept, Checkpoint, Todo

LEMMA TellingFrame ==
  ASSUME Telling, Kept("queue"), queue' = queue, SameStore(durable, durable'),
         SameEvidence(published', published), published'.state = published.state,
         phase' # "commit" => phase # "commit"
  PROVE  Telling'
<1>1. Bundle(published') <=> Bundle(published)
  BY DEF Bundle, Terminal, SameEvidence
<1>2. Says(durable', published) => Says(durable', published')
  BY DEF Says, Held, Terminal, SameEvidence
<1>3. Faithful(durable', Checkpoint'.context)
  BY KeptTodo, SameStoreSays DEF Telling
<1>4. \A i \in DOMAIN queue' : Faithful(durable', queue'[i].context)
  BY SameStoreSays DEF Telling
<1>5. phase' # "commit" => Says(durable', published')
  BY <1>2, SameStoreSays DEF Telling
<1> QED
  BY <1>1, <1>3, <1>4, <1>5 DEF Telling

LEMMA HalvesFrame ==
  ASSUME Halves, SameStore(durable, durable'),
         phase # "stage" \/ (phase' = phase /\ working' = working)
  PROVE  Halves'
BY SameStoreSays DEF Halves

LEMMA StagingFrame ==
  ASSUME Staging, SameStore(durable, durable'), phase' = phase, working' = working,
         Owner'.todo = Owner.todo
  PROVE  Staging'
<1>1. Todo(Owner') = Todo(Owner) /\ Todo(Owner)' = Todo(Owner')
  BY DEF Todo
<1> QED
  BY <1>1 DEF Staging, SameStore

LEMMA LinedFrame ==
  ASSUME Lined, Kept("queue"), queue' = queue, Place(published') = Place(published)
  PROVE  Lined'
<1>1. published'.state = published.state
  BY DEF Place
<1>2. Ordered(queue', Checkpoint'.context, published')
  BY <1>1, KeptTodo DEF Lined, Ordered
<1>3. Ends(queue', Checkpoint'.context, published')
  BY KeptTodo DEF Lined, Ends
<1> QED
  BY <1>2, <1>3, KeptTodo DEF Lined

LEMMA CarriedFrame ==
  ASSUME Carried, Kept("queue"), queue' = queue, Place(published') = Place(published),
         Terminal(published') => Terminal(published), phase' # "commit" => phase # "commit",
         durable'.lastGood = durable.lastGood, durable'.pointer = durable.pointer
  PROVE  Carried'
<1> SUFFICES ASSUME phase' # "commit", Terminal(published')
             PROVE  /\ Covered(queue', Checkpoint', published', durable')
                    /\ Pointed(queue', Checkpoint', published', durable')
  BY DEF Carried
<1>1. published'.state = published.state
  BY DEF Place
<1>2. /\ Covered(queue, Checkpoint, published, durable)
      /\ Pointed(queue, Checkpoint, published, durable)
  BY DEF Carried
<1>3. Waits(queue, published.state) => Waits(queue', published'.state)
  BY <1>1
<1>4. Settles(Checkpoint, published.state) => Settles(Checkpoint', published'.state)
  BY <1>1, KeptTodo DEF Settles
<1>5. Settled(queue, Checkpoint, published.state, durable)
        => Settled(queue', Checkpoint', published'.state, durable')
  BY <1>1, KeptTodo DEF Settled
<1>6. Pointed(queue', Checkpoint', published', durable')
  BY <1>2, KeptTodo DEF Pointed
<1> QED
  BY <1>2, <1>3, <1>4, <1>5, <1>6 DEF Covered

LEMMA WriteSame == ASSUME write' = write PROVE Kept("queue") /\ Owner' = Owner
BY DEF Kept, Owner

-----------------------------------------------------------------------------
(* What a request publishes says what the store has.                        *)
LEMMA EvidenceTrue ==
  ASSUME Inv, NEW s \in States, NEW team \in Maybe(Teams), Half(durable, s),
         LET c == Evidence(durable, s, team) IN c.forecast # None \/ c.value # None
  PROVE  Faithful(durable, Evidence(durable, s, team))
<1> DEFINE c == Evidence(durable, s, team)
<1>1. c.state = s /\ Placed(c) /\ durable \in Stores
  BY EvidenceTyped DEF Inv, Types
<1>2. c.forecast = Bound(durable, s).forecast /\ c.value = Bound(durable, s).value
      /\ c.simulation = (/\ c.forecast # None /\ c.forecast \in durable.simulations
                         /\ durable.manifest[s] = NoManifest \/ durable.manifest[s].simulation)
  BY DEF Evidence
<1>3. c.forecast # None \/ c.value # None
  OBVIOUS
<1> SUFFICES Faithful(durable, c)
  OBVIOUS
<1> HIDE DEF c
<1>4. CASE durable.manifest[s] = NoManifest
  <2>1. c.forecast = durable.newest[s].forecast /\ c.value = durable.newest[s].value
    BY <1>2, <1>4 DEF Bound
  <2>2. c.forecast # None /\ c.value # None /\ c.forecast \in durable.simulations
    BY <1>3, <1>4, <2>1 DEF Half
  <2>3. Terminal(c)
    BY <1>2, <1>4, <2>2 DEF Terminal
  <2> QED
    BY <1>1, <1>4, <2>1, <2>2, <2>3 DEF Faithful, Bundle, Says, Held
<1>5. CASE durable.manifest[s] # NoManifest
  <2> DEFINE m == durable.manifest[s]
  <2>1. m.forecast \in durable.forecasts /\ m.simulation /\ m.forecast \in durable.simulations
        /\ m.value \in durable.values
    BY <1>5 DEF Inv, ManifestBacked
  <2>2. durable.forecasts \subseteq Runs /\ durable.values \subseteq Runs
    BY <1>1 DEF Stores
  <2>3. m.forecast # None /\ m.value # None
    BY <2>1, <2>2, NoneApart
  <2>4. c.forecast = m.forecast /\ c.value = m.value
    BY <1>2, <1>5, <2>1 DEF Bound
  <2>5. Terminal(c)
    BY <1>2, <2>1, <2>3, <2>4 DEF Terminal
  <2> QED
    BY <1>1, <1>5, <2>4, <2>5 DEF Faithful, Bundle, Says
<1> QED
  BY <1>4, <1>5

LEMMA ActivatedTrue ==
  ASSUME Inv, Telling, phase # "commit", NEW s \in States
  PROVE  Activated(s).state = s /\ Faithful(durable, Activated(s))
<1>1. Types /\ Placed(published)
  BY DEF Inv, Types
<1>2. Activated(s).state = s /\ Placed(Activated(s)) /\ Activated(s) \in Contexts
  BY <1>1, ActivatedTyped
<1>3. CASE published.state = s
  BY <1>2, <1>3 DEF Activated, Telling, Faithful
<1>4. CASE published.state # s
  <2>1. Activated(s).forecast = None /\ ~Activated(s).simulation /\ Activated(s).value = None
    BY <1>4 DEF Activated, NoContext
  <2> QED
    BY <1>2, <2>1 DEF Faithful, Bundle, Says, Terminal
<1> QED
  BY <1>2, <1>3, <1>4

LEMMA RecoveredTrue ==
  ASSUME Inv, Telling, Halves, phase = "idle", NEW s \in States
  PROVE  Recovered(s).state = s /\ Faithful(durable, Recovered(s))
<1> DEFINE c == Activated(s)
           owned == IF c.team = None /\ durable.pointer.state = s
                    THEN durable.pointer.team ELSE c.team
           found == Evidence(durable, s, owned)
           team == IF found.team = None THEN durable.manifest[s].team ELSE found.team
<1>0. Types /\ durable \in Stores
  BY DEF Inv, Types
<1>1. c.state = s /\ Faithful(durable, c) /\ c \in Contexts
  BY <1>0, ActivatedTrue, ActivatedTyped
<1>2. owned \in Maybe(Teams)
  BY <1>0, <1>1, ContextFields DEF Stores, Identities
<1>3. Recovered(s) = IF found.forecast = None /\ found.value = None
                     THEN [c EXCEPT !.team = owned] ELSE Evidence(durable, s, team)
  BY DEF Recovered
<1> HIDE DEF c, owned
<1>4. found.team = owned
  BY <1>0, <1>2, EvidenceTyped
<1>5. durable.manifest[s].team \in Maybe(Teams)
  BY <1>0 DEF Stores, Manifests
<1>6. team \in Maybe(Teams)
  BY <1>2, <1>4, <1>5
<1>7. CASE found.forecast = None /\ found.value = None
  <2>1. DEFINE r == [c EXCEPT !.team = owned]
  <2>2. r.state = c.state /\ r.forecast = c.forecast /\ r.simulation = c.simulation
        /\ r.value = c.value
    BY <1>1 DEF Contexts
  <2>3. Recovered(s) = r
    BY <1>3, <1>7
  <2> HIDE DEF r, found, team
  <2> QED
    BY <1>1, <2>2, <2>3 DEF Faithful, Placed, Bundle, Says, Held, Terminal
<1>8. CASE ~(found.forecast = None /\ found.value = None)
  <2>1. Half(durable, s)
    BY DEF Halves
  <2>2. /\ Evidence(durable, s, team).forecast = found.forecast
        /\ Evidence(durable, s, team).value = found.value
    BY DEF Evidence
  <2>3. Recovered(s) = Evidence(durable, s, team)
    BY <1>3, <1>8
  <2>4. Evidence(durable, s, team).state = s
    BY <1>0, <1>6, EvidenceTyped
  <2> HIDE DEF found, team
  <2> QED
    BY <1>6, <1>8, <2>1, <2>2, <2>3, <2>4, EvidenceTrue
<1> QED
  BY <1>7, <1>8

-----------------------------------------------------------------------------
(* What is submitted for the context that becomes the published one.        *)
LEMMA SubmitLined ==
  ASSUME Inv, Lined, NEW q \in {queue, Staled(queue)}, NEW kind \in {"snapshot", "identity"},
         NEW m \in Contexts, Placed(m), m.state \in States, published.state <= m.state,
         Submit(q, Task(kind, m)), published' = m, write' = write
  PROVE  /\ Lined' /\ queue' # << >> /\ queue' \in Seq(Tasks)
         /\ kind = "snapshot" /\ Terminal(m) => Waits(queue', m.state)
         /\ \A x : kind = "identity" /\ Waits(queue, x) => Waits(queue', x)
         /\ Settled(queue, Checkpoint, m.state, durable)
              => Settled(queue', Checkpoint, m.state, durable)
         /\ Faithful(durable, m) /\ (\A i \in DOMAIN queue : Faithful(durable, queue[i].context))
              => \A i \in DOMAIN queue' : Faithful(durable, queue'[i].context)
<1>0. Types /\ queue \in Seq(Tasks) /\ Checkpoint \in Writes /\ published \in Contexts
  BY Threads2 DEF Inv, Types, Checkpoint
<1>1. Checkpoint.context \in Contexts
  BY <1>0 DEF Writes
<1>2. PICK task : task = Task(kind, m)
  OBVIOUS
<1>3. task \in Tasks /\ task.kind = kind /\ task.context = m /\ ~task.stale
  BY <1>2 DEF Tasks, Task
<1>4. Alike(queue, q)
  BY <1>0, StaledAlike
<1>5. q \in Seq(Tasks)
  BY <1>4 DEF Alike
<1>6. queue' = Submitted(q, task)
  BY <1>2 DEF Submit
<1>7. queue' \in Seq(Tasks)
  BY <1>3, <1>5, <1>6, SubmittedSeq
<1>8. PICK r \in Seq(Tasks) : r = queue'
  BY <1>7
<1>9. /\ r # << >> /\ r[Len(r)] = task
      /\ \A i \in DOMAIN r : r[i] = task \/ (i \in DOMAIN q /\ r[i] = q[i])
      /\ \A i \in DOMAIN q : /\ i \in DOMAIN r
                             /\ \/ r[i] = q[i]
                                \/ q[i].kind = task.kind
  BY <1>3, <1>5, <1>6, <1>8, SubmittedShape
<1>10. Len(r) \in DOMAIN r
  BY <1>9
<1>11. Lined'
  <2>1. Ordered(q, Checkpoint.context, published)
    BY <1>0, <1>4, AlikeSame DEF Lined
  <2>2. Ordered(r, Checkpoint.context, m) /\ Ends(r, Checkpoint.context, m)
    BY <1>0, <1>1, <1>3, <1>5, <1>6, <1>8, <2>1, OrderedSubmitted
  <2>3. Checkpoint' = Checkpoint
    BY DEF Checkpoint
  <2> QED
    BY <1>8, <2>2, <2>3 DEF Lined
<1>12. ASSUME kind = "snapshot", Terminal(m) PROVE Waits(r, m.state)
  BY <1>3, <1>9, <1>10, <1>12 DEF Waits
<1>13. ASSUME NEW x, kind = "identity", Waits(queue, x) PROVE Waits(r, x)
  <2>1. Waits(q, x)
    BY <1>0, <1>4, <1>13, AlikeSame
  <2>2. PICK i \in DOMAIN q : /\ q[i].kind = "snapshot" /\ Terminal(q[i].context)
                              /\ q[i].context.state = x
    BY <2>1 DEF Waits
  <2>3. i \in DOMAIN r /\ r[i] = q[i]
    BY <1>3, <1>9, <1>13, <2>2
  <2> QED
    BY <2>2, <2>3 DEF Waits
<1>14. ASSUME Settled(queue, Checkpoint, m.state, durable)
       PROVE  Settled(r, Checkpoint, m.state, durable)
  <2>1. Settled(q, Checkpoint, m.state, durable)
    BY <1>0, <1>4, <1>14, AlikeSame
  <2>2. \A i \in DOMAIN r : r[i].context.state = m.state
    BY <1>3, <1>9, <2>1 DEF Settled
  <2> QED
    BY <2>1, <2>2 DEF Settled
<1>15. ASSUME Faithful(durable, m), \A i \in DOMAIN queue : Faithful(durable, queue[i].context)
       PROVE  \A i \in DOMAIN r : Faithful(durable, r[i].context)
  <2>1. \A i \in DOMAIN q : Faithful(durable, q[i].context)
    BY <1>0, <1>4, <1>15, AlikeSame
  <2> QED
    BY <1>3, <1>9, <1>15, <2>1
<1> QED
  BY <1>7, <1>8, <1>9, <1>11, <1>12, <1>13, <1>14, <1>15

LEMMA CalmActivate ==
  ASSUME Inv, Publishing, Calm, NEW s \in States, Activate(s)
  PROVE  Calm'
<1>0. /\ Types /\ Telling /\ Halves /\ Lined
      /\ phase = "idle" /\ phase' = "idle" /\ durable' = durable /\ write' = write
  BY DEF Inv, Calm, Activate, Request, Free
<1>1. PICK c \in {Activated(s), Recovered(s)} :
        /\ published' = c
        /\ Submit(IF published.state = s THEN queue ELSE Staled(queue), Task("snapshot", c))
  BY DEF Activate
<1>2. c \in Contexts /\ c.state = s /\ Faithful(durable, c) /\ published.state <= c.state
  <2>1. c \in Contexts
    BY <1>0, <1>1, ActivatedTyped, RecoveredTyped
  <2>2. c.state = s /\ Faithful(durable, c)
    BY <1>0, <1>1, ActivatedTrue, RecoveredTrue
  <2>3. published.state <= s
    <3>1. s >= published.state /\ s \in Nat /\ published.state \in Nat
      <4>1. \A x \in States \cup {0} : x \in Nat
        BY Times
      <4> QED
        BY <1>0, <4>1, ContextFields DEF Activate, Types
    <3> QED
      BY <3>1
  <2> QED
    BY <2>1, <2>2, <2>3
<1>3. PICK q \in {queue, Staled(queue)} : Submit(q, Task("snapshot", c))
  BY <1>1
<1>4. /\ Lined' /\ queue' # << >>
      /\ Terminal(c) => Waits(queue', s)
      /\ \A i \in DOMAIN queue' : Faithful(durable, queue'[i].context)
  BY <1>0, <1>1, <1>2, <1>3, SubmitLined DEF Telling, Faithful
<1>5. Checkpoint' = Checkpoint /\ SameStore(durable, durable')
  BY <1>0 DEF Checkpoint, SameStore
<1>6. Telling'
  BY <1>0, <1>1, <1>2, <1>4, <1>5 DEF Telling, Faithful
<1>7. Halves'
  BY <1>0, <1>5, HalvesFrame
<1>8. Staging'
  BY <1>0 DEF Staging
<1>9. Carried'
  BY <1>1, <1>2, <1>4 DEF Carried, Covered, Pointed
<1> QED
  BY <1>4, <1>6, <1>7, <1>8, <1>9 DEF Calm

LEMMA CalmSelect ==
  ASSUME Inv, Publishing, Calm, NEW t \in Teams, SelectTeam(t)
  PROVE  Calm'
<1>0. /\ Types /\ Telling /\ Halves /\ Lined /\ published \in Contexts /\ Placed(published)
      /\ phase = "idle" /\ phase' = "idle" /\ durable' = durable /\ write' = write
      /\ published.state # 0 /\ Carried
  BY DEF Inv, Types, Calm, SelectTeam, Request, Free
<1>1. PICK m : m = [published EXCEPT !.team = t, !.generation = None]
  OBVIOUS
<1>2. /\ m \in Contexts /\ m.state = published.state /\ SameEvidence(m, published)
  BY <1>0, <1>1, Absent, ContextFields DEF Contexts, SameEvidence, Maybe
<1>3. published' = m /\ Submit(Staled(queue), Task("identity", m))
  BY <1>1 DEF SelectTeam
<1>4. m.state \in States /\ published.state <= m.state /\ Placed(m)
  <2>1. published.state \in States
    BY <1>0, ContextFields
  <2>2. published.state \in Nat
    BY <2>1, Times
  <2>3. published.state <= published.state
    BY <2>2
  <2> QED
    BY <1>0, <1>2, <2>1, <2>3 DEF Placed, SameEvidence
<1>5. Bundle(m) /\ Says(durable, m) /\ (Terminal(m) <=> Terminal(published))
  BY <1>0, <1>2 DEF Telling, Bundle, Says, Held, Terminal, SameEvidence
<1>6. Faithful(durable, m)
  BY <1>4, <1>5 DEF Faithful
<1>7. PICK q \in {queue, Staled(queue)} : Submit(q, Task("identity", m))
  BY <1>3
<1>8. /\ Lined' /\ queue' # << >>
      /\ \A x : Waits(queue, x) => Waits(queue', x)
      /\ Settled(queue, Checkpoint, m.state, durable)
           => Settled(queue', Checkpoint, m.state, durable)
      /\ \A i \in DOMAIN queue' : Faithful(durable, queue'[i].context)
  BY <1>0, <1>2, <1>3, <1>4, <1>6, <1>7, SubmitLined DEF Telling
<1>9. Checkpoint' = Checkpoint /\ SameStore(durable, durable')
  BY <1>0 DEF Checkpoint, SameStore
<1>10. Telling'
  BY <1>0, <1>3, <1>5, <1>8, <1>9 DEF Telling
<1>11. Halves'
  BY <1>0, <1>9, HalvesFrame
<1>12. Staging'
  BY <1>0 DEF Staging
<1>13. Carried'
  <2>1. ASSUME Terminal(m) PROVE Covered(queue', Checkpoint, m, durable)
    BY <1>0, <1>2, <1>5, <1>8, <2>1 DEF Carried, Covered
  <2>2. Pointed(queue', Checkpoint', published', durable')
    BY <1>8 DEF Pointed
  <2> QED
    BY <1>0, <1>3, <1>9, <2>1, <2>2 DEF Carried
<1> QED
  BY <1>8, <1>10, <1>11, <1>12, <1>13 DEF Calm

(* A step that leaves all that Calm is about, but for Staging.              *)
LEMMA CalmBut ==
  ASSUME Calm, SameStore(durable, durable'), durable'.lastGood = durable.lastGood,
         durable'.pointer = durable.pointer, Kept("queue"), queue' = queue,
         SameEvidence(published', published), Place(published') = Place(published),
         phase' # "commit" => phase # "commit",
         phase # "stage" \/ (phase' = phase /\ working' = working),
         Staging'
  PROVE  Calm'
<1>1. published'.state = published.state
  BY DEF Place
<1>2. Terminal(published') => Terminal(published)
  BY DEF SameEvidence, Terminal
<1>3. Telling' /\ Lined' /\ Carried'
  BY <1>1, <1>2, TellingFrame, LinedFrame, CarriedFrame DEF Calm
<1>4. Halves'
  BY HalvesFrame DEF Calm
<1> QED
  BY <1>3, <1>4 DEF Calm

LEMMA CalmFrame ==
  ASSUME Calm, SameStore(durable, durable'), durable'.lastGood = durable.lastGood,
         durable'.pointer = durable.pointer, Kept("queue"), queue' = queue,
         published' = published, phase' # "commit" => phase # "commit",
         \/ phase' \notin {"stage", "promote", "commit"} /\ phase # "stage"
         \/ phase' = phase /\ working' = working /\ Owner'.todo = Owner.todo
  PROVE  Calm'
<1>1. SameEvidence(published', published) /\ Place(published') = Place(published)
  BY DEF SameEvidence
<1>2. Staging'
  <2>1. CASE phase' \notin {"stage", "promote", "commit"}
    BY <2>1 DEF Staging
  <2>2. CASE phase' = phase /\ working' = working /\ Owner'.todo = Owner.todo
    BY <2>2, StagingFrame DEF Calm
  <2> QED
    BY <2>1, <2>2
<1> QED
  BY <1>1, <1>2, CalmBut

LEMMA CalmRequests ==
  ASSUME Inv, Publishing, Calm, Requests
  PROVE  Calm'
<1>1. ASSUME NEW s \in States, Activate(s) PROVE Calm'
  BY <1>1, CalmActivate
<1>2. ASSUME NEW t \in Teams, SelectTeam(t) PROVE Calm'
  BY <1>2, CalmSelect
<1>3. ASSUME NEW s \in States, Stage(s) PROVE Calm'
  <2>1. /\ phase = "idle" /\ phase' = phase /\ durable' = durable /\ write' = write
        /\ queue' = queue /\ published' = published
    BY <1>3 DEF Stage, Request, Free
  <2>2. SameStore(durable, durable')
    BY <2>1 DEF SameStore
  <2> QED
    BY <2>1, <2>2, WriteSame, CalmFrame
<1>4. ASSUME NEW s \in States, OtherUser(s) PROVE Calm'
  <2>1. /\ phase' = phase /\ working' = working /\ write' = write
        /\ queue' = queue /\ published' = published /\ durable' = [durable EXCEPT !.row = s]
    BY <1>4 DEF OtherUser
  <2>2. SameStore(durable, durable') /\ durable'.lastGood = durable.lastGood
        /\ durable'.pointer = durable.pointer
    BY <2>1 DEF Inv, Types, Stores, SameStore
  <2> QED
    BY <2>1, <2>2, WriteSame, CalmFrame
<1> QED
  BY <1>1, <1>2, <1>3, <1>4 DEF Requests

-----------------------------------------------------------------------------
(* The checkpoint executor.                                                 *)
LEMMA NotSealed ==
  ASSUME Publishing, queue # << >> \/ Writing("queue")
  PROVE  phase \notin Sealed
BY DEF Publishing, Sole, NothingQueued, Sealed

LEMMA CalmStartSnapshot ==
  ASSUME Inv, Publishing, Calm, StartSnapshot
  PROVE  Calm'
<1>0. /\ Types /\ queue \in Seq(Tasks) /\ queue # << >> /\ queue' = Tail(queue)
      /\ durable' = durable /\ published' = published /\ working' = working /\ phase' = phase
      /\ published \in Contexts /\ phase \notin Sealed /\ Checkpoint = Idle
      /\ Head(queue).kind = "snapshot" /\ Telling /\ Halves /\ Lined /\ Carried
  BY NotSealed DEF Inv, Types, StartSnapshot, Calm, Writing, Checkpoint
<1>1. PICK b : b = Head(queue).context
  OBVIOUS
<1>2. /\ b \in Contexts /\ Placed(b) /\ 1 \in DOMAIN queue /\ Head(queue) = queue[1]
      /\ Faithful(durable, b) /\ b.state \in States
  <2>1. 1 \in DOMAIN queue /\ Head(queue) = queue[1]
    BY <1>0, TailShape
  <2>2. b \in Contexts /\ Placed(b)
    BY <1>0, <1>1, TailTyped
  <2> QED
    BY <1>0, <1>1, <2>1, <2>2 DEF Telling, Lined, Ordered
<1>3. PICK i : i = Identified(b)
  OBVIOUS
<1>4. /\ i \in Contexts /\ Placed(i) /\ Place(i) = Place(b) /\ SameEvidence(i, b)
      /\ i.state = b.state
  BY <1>2, <1>3, IdentifiedContext DEF Place, SameEvidence
<1>5. BeginWrite("queue", b, TRUE)
  BY <1>1 DEF StartSnapshot
<1>6. Checkpoint'.context = i /\ Checkpoint'.todo = Plan(b, TRUE)
  BY <1>0, <1>2, <1>3, <1>5, BeginEffect, Threads2 DEF Begun, Checkpoint
<1>7. "pointer" \in Todo(Checkpoint') /\ (Terminal(b) => "lastGood" \in Todo(Checkpoint'))
  BY <1>6, PlanTodo
<1>8. Terminal(i) <=> Terminal(b)
  BY <1>4 DEF Terminal, SameEvidence
<1>9. Faithful(durable, i)
  BY <1>2, <1>4, <1>8 DEF Faithful, Bundle, Says, Held, SameEvidence, Terminal
<1>10. PICK r \in Seq(Tasks) : r = Tail(queue)
  BY <1>0, TailShape
<1>11. /\ \A k \in DOMAIN r : k + 1 \in DOMAIN queue /\ r[k] = queue[k + 1]
       /\ \A k \in DOMAIN queue : k # 1 => k - 1 \in DOMAIN r /\ r[k - 1] = queue[k]
  BY <1>0, <1>10, TailShape
<1>12. Telling'
  <2>1. \A k \in DOMAIN r : Faithful(durable, r[k].context)
    BY <1>0, <1>11 DEF Telling
  <2> QED
    BY <1>0, <1>6, <1>9, <1>10, <2>1 DEF Telling
<1>13. Halves'
  BY <1>0, HalvesFrame DEF SameStore, Sealed
<1>14. Staging'
  BY <1>0 DEF Staging, Sealed
<1>15. Lined'
  <2>1. Ordered(r, i, published) /\ Ends(r, i, published)
    <3>1. Checkpoint.context \in Contexts
      BY <1>0, Absent DEF Idle
    <3>2. Ordered(queue, Checkpoint.context, published) /\ Ends(queue, Checkpoint.context, published)
      BY <1>0 DEF Lined
    <3>3. \A x : Place(x) = Place(Head(queue).context) =>
            Ordered(Tail(queue), x, published) /\ Ends(Tail(queue), x, published)
      BY <1>0, <3>1, <3>2, OrderedTail
    <3> QED
      BY <1>1, <1>4, <1>10, <3>3
  <2>2. i.state # 0
    BY <1>2, <1>4, Times
  <2> QED
    BY <1>0, <1>6, <1>10, <2>1, <2>2 DEF Lined
<1>16. Carried'
  <2> SUFFICES ASSUME Terminal(published)
               PROVE  Covered(r, Checkpoint', published, durable)
                      /\ Pointed(r, Checkpoint', published, durable)
    BY <1>0, <1>10 DEF Carried
  <2>1. Covered(queue, Checkpoint, published, durable)
    BY <1>0 DEF Carried, Sealed
  <2>2. ASSUME Waits(queue, published.state) PROVE Covered(r, Checkpoint', published, durable)
    <3>1. PICK k \in DOMAIN queue : /\ queue[k].kind = "snapshot" /\ Terminal(queue[k].context)
                                    /\ queue[k].context.state = published.state
      BY <2>2 DEF Waits
    <3>2. CASE k = 1
      BY <1>1, <1>2, <1>4, <1>6, <1>7, <1>8, <3>1, <3>2 DEF Covered, Settles
    <3>3. CASE k # 1
      <4>1. k - 1 \in DOMAIN r /\ r[k - 1] = queue[k]
        BY <1>11, <3>3
      <4> QED
        BY <3>1, <4>1 DEF Covered, Waits
    <3> QED
      BY <3>2, <3>3
  <2>3. ~Settles(Checkpoint, published.state)
    BY <1>0 DEF Settles, Idle, NoContext, Terminal
  <2>4. ASSUME Settled(queue, Checkpoint, published.state, durable)
        PROVE  Covered(r, Checkpoint', published, durable)
    <3>1. b.state = published.state
      BY <1>1, <1>2, <2>4 DEF Settled
    <3>2. \A k \in DOMAIN r : r[k].context.state = published.state
      BY <1>11, <2>4 DEF Settled
    <3> QED
      BY <1>4, <1>6, <2>4, <3>1, <3>2 DEF Covered, Settled
  <2> QED
    BY <1>7, <2>1, <2>2, <2>3, <2>4 DEF Covered, Pointed
<1> QED
  BY <1>12, <1>13, <1>14, <1>15, <1>16 DEF Calm

LEMMA CalmEndSnapshot ==
  ASSUME Inv, Publishing, Calm, EndSnapshot
  PROVE  Calm'
<1>0. /\ Types /\ published \in Contexts /\ phase \notin Sealed
      /\ durable' = durable /\ published' = published /\ working' = working /\ phase' = phase
      /\ queue' = queue /\ Checkpoint.todo = << >>
      /\ Telling /\ Halves /\ Lined /\ Carried
  BY NotSealed DEF Inv, Types, EndSnapshot, Calm, Checkpoint
<1>1. Checkpoint' = Idle
  BY <1>0, Threads2 DEF EndSnapshot, Types, Checkpoint
<1>2. Idle.context = NoContext /\ NoContext.state = 0 /\ Idle.todo = << >>
  BY DEF Idle, NoContext
<1>3. Todo(Checkpoint) = {}
  BY <1>0 DEF Todo
<1>4. \A i \in DOMAIN queue : queue[i].context.state \in Nat /\ 0 <= queue[i].context.state
  <2>1. \A x \in States : x \in Nat /\ 0 <= x
    BY Times
  <2> QED
    BY <1>0, <2>1 DEF Lined, Ordered
<1>5. published.state \in Nat /\ 0 <= published.state
  <2>1. \A x \in States \cup {0} : x \in Nat
    BY Times
  <2> QED
    BY <1>0, <2>1, ContextFields
<1>6. Lined'
  BY <1>0, <1>1, <1>2, <1>4, <1>5 DEF Lined, Ordered, Ends
<1>7. Telling'
  BY <1>0, <1>1, <1>2, Absent DEF Telling, Faithful, Bundle, Says, Terminal, NoContext
<1>8. Halves'
  BY <1>0, HalvesFrame DEF SameStore, Sealed
<1>9. Staging'
  BY <1>0 DEF Staging, Sealed
<1>10. Carried'
  BY <1>0, <1>1, <1>2, <1>3 DEF Carried, Covered, Settles, Settled, Pointed
<1> QED
  BY <1>6, <1>7, <1>8, <1>9, <1>10 DEF Calm

LEMMA CalmWriteIdentity ==
  ASSUME Inv, Publishing, Calm, WriteIdentity
  PROVE  Calm'
<1>0. /\ Types /\ queue \in Seq(Tasks) /\ queue # << >> /\ queue' = Tail(queue)
      /\ published' = published /\ working' = working /\ phase' = phase /\ write' = write
      /\ published \in Contexts /\ phase = "idle" /\ Checkpoint = Idle /\ Checkpoint' = Idle
      /\ Head(queue).kind = "identity" /\ Telling /\ Halves /\ Lined /\ Carried
      /\ durable \in Stores
  BY DEF Inv, Types, WriteIdentity, Calm, Writing, Checkpoint, Free
<1>1. PICK b : b = Head(queue).context
  OBVIOUS
<1>2. 1 \in DOMAIN queue /\ Head(queue) = queue[1] /\ Len(queue) \in DOMAIN queue
  BY <1>0, TailShape
<1>3. b \in Contexts
  BY <1>0, <1>1, TailTyped
<1>4. PICK r \in Seq(Tasks) : r = Tail(queue)
  BY <1>0, TailShape
<1>5. /\ \A k \in DOMAIN r : k + 1 \in DOMAIN queue /\ r[k] = queue[k + 1]
      /\ \A k \in DOMAIN queue : k # 1 => k - 1 \in DOMAIN r /\ r[k - 1] = queue[k]
      /\ r = << >> => Len(queue) = 1
  BY <1>0, <1>4, TailShape
<1>6. \/ durable' = durable
      \/ durable' = Stored(durable, "pointer", b, FALSE)
  BY <1>1 DEF WriteIdentity
<1>7. SameStore(durable, durable') /\ durable'.lastGood = durable.lastGood
  BY <1>0, <1>6 DEF Stored, Stores, SameStore
<1>8. Idle.context = NoContext /\ NoContext.state = 0 /\ Idle.todo = << >>
  BY DEF Idle, NoContext
<1>9. Telling'
  <2>1. \A k \in DOMAIN r : Faithful(durable', r[k].context)
    BY <1>0, <1>5, <1>7, SameStoreSays DEF Telling
  <2> QED
    BY <1>0, <1>4, <1>7, <2>1, SameStoreSays DEF Telling
<1>10. Halves'
  BY <1>0, <1>7, HalvesFrame
<1>11. Staging'
  BY <1>0 DEF Staging
<1>12. Lined'
  <2>1. Ordered(r, Idle.context, published) /\ Ends(r, Idle.context, published)
    <3>1. Idle.context \in Contexts
      BY <1>8, Absent
    <3>2. Ordered(queue, Idle.context, published) /\ Ends(queue, Idle.context, published)
      BY <1>0 DEF Lined
    <3> QED
      BY <1>0, <1>4, <1>8, <3>1, <3>2, OrderedTail
  <2> QED
    BY <1>0, <1>4, <1>8, <2>1 DEF Lined
<1>13. Carried'
  <2> SUFFICES ASSUME Terminal(published)
               PROVE  Covered(r, Idle, published, durable') /\ Pointed(r, Idle, published, durable')
    BY <1>0, <1>4 DEF Carried
  <2>1. Covered(queue, Idle, published, durable)
    BY <1>0 DEF Carried
  <2>2. ASSUME Waits(queue, published.state) PROVE Waits(r, published.state) /\ r # << >>
    <3>1. PICK k \in DOMAIN queue : /\ queue[k].kind = "snapshot" /\ Terminal(queue[k].context)
                                    /\ queue[k].context.state = published.state
      BY <2>2 DEF Waits
    <3>2. k # 1
      BY <1>0, <1>2, <3>1
    <3>3. k - 1 \in DOMAIN r /\ r[k - 1] = queue[k]
      BY <1>5, <3>2
    <3> QED
      BY <3>1, <3>3 DEF Waits
  <2>3. ~Settles(Idle, published.state)
    BY DEF Settles, Idle, NoContext, Terminal
  <2>4. ASSUME Settled(queue, Idle, published.state, durable)
        PROVE  Settled(r, Idle, published.state, durable')
    BY <1>5, <1>7, <2>4 DEF Settled
  <2>5. ASSUME r = << >> PROVE durable'.pointer = Place(published)
    <3>1. Settled(queue, Idle, published.state, durable)
      BY <2>1, <2>2, <2>3, <2>5 DEF Covered
    <3>2. Len(queue) = 1
      BY <1>5, <2>5
    <3>3. ~queue[1].stale /\ Place(b) = Place(published)
      BY <1>0, <1>1, <1>2, <3>2 DEF Lined, Ends
    <3>4. b.state = durable.lastGood.state
      BY <1>1, <1>2, <3>1 DEF Settled
    <3>5. durable' = Stored(durable, "pointer", b, FALSE)
      BY <1>1, <1>2, <3>3, <3>4 DEF WriteIdentity
    <3> QED
      BY <1>0, <3>3, <3>5 DEF Stored, Stores, Place
  <2> QED
    BY <2>1, <2>2, <2>3, <2>4, <2>5 DEF Covered, Pointed
<1> QED
  BY <1>9, <1>10, <1>11, <1>12, <1>13 DEF Calm

-----------------------------------------------------------------------------
(* The publication path.                                                    *)
LEMMA OwnerBegins ==
  ASSUME Types, NEW c \in Contexts, Placed(c), NEW publish \in BOOLEAN,
         BeginWrite("owner", c, publish)
  PROVE  /\ Kept("queue") /\ Owner'.todo = Plan(c, publish)
         /\ Terminal(c) => {"forecast", "simulation", "value"} \subseteq Todo(Owner')
<1>1. Kept("queue") /\ Owner'.todo = Plan(c, publish)
  BY BeginEffect, Others, Threads2 DEF Begun, Owner
<1> QED
  BY <1>1, PlanTodo

LEMMA CalmStageBegins ==
  ASSUME Inv, Publishing, Calm, phase \in {"drain", "boot"}, phase' = "stage",
         BeginWrite("owner", working, FALSE),
         durable' = durable, published' = published, working' = working, queue' = queue
  PROVE  Calm'
<1>1. Types /\ working \in Contexts /\ Placed(working) /\ Terminal(working)
  BY DEF Inv, Types, Publishing, Seeded
<1>2. Kept("queue") /\ {"forecast", "simulation", "value"} \subseteq Todo(Owner')
  BY <1>1, OwnerBegins
<1>3. Todo(Owner)' = Todo(Owner')
  BY DEF Todo
<1>4. Staging'
  BY <1>2, <1>3 DEF Staging
<1> QED
  BY <1>2, <1>4, CalmBut DEF SameStore, SameEvidence

LEMMA CalmBegins ==
  ASSUME Inv, Publishing, Calm, BeginPublication \/ DrainFails \/ Refuse \/ EndBind
  PROVE  Calm'
<1>1. /\ durable' = durable /\ published' = published /\ queue' = queue
      /\ phase' \in {"idle", "drain"} /\ phase \notin {"stage", "commit"}
  BY DEF BeginPublication, DrainFails, Refuse, EndBind, Abandon, Stays, Free
<1>2. Kept("queue")
  <2>1. CASE write' = write
    BY <2>1, WriteSame
  <2>2. CASE write' = [write EXCEPT !["owner"] = Idle, !["queue"].earlier = FALSE]
    BY <2>2, Threads2 DEF Inv, Types, Writes, Kept
  <2> QED
    BY <2>1, <2>2 DEF BeginPublication, DrainFails, Refuse, EndBind
<1> QED
  BY <1>1, <1>2, CalmFrame DEF SameStore

LEMMA CalmBoot ==
  ASSUME Inv, Publishing, Calm, Boot \/ StageArtifacts
  PROVE  Calm'
<1>0. Types /\ durable' = durable /\ published' = published /\ working' = working /\ queue' = queue
  BY DEF Inv, Boot, StageArtifacts, Stays
<1>1. CASE phase' = "stage"
  <2>1. BeginWrite("owner", working, FALSE) /\ phase \in {"drain", "boot"}
    BY <1>1 DEF Boot, StageArtifacts
  <2> QED
    BY <1>0, <1>1, <2>1, CalmStageBegins
<1>2. CASE phase' # "stage"
  <2>1. /\ NeedsBoot /\ phase' = "boot" /\ phase = "drain"
        /\ BeginWrite("owner", [published EXCEPT !.generation = BootGeneration], TRUE)
    BY <1>2 DEF Boot, StageArtifacts
  <2>2. Kept("queue")
    BY <1>0, <2>1, BootTyped, OwnerBegins
  <2> QED
    BY <1>0, <2>1, <2>2, CalmFrame DEF SameStore
<1> QED
  BY <1>1, <1>2

LEMMA Presented ==
  ASSUME Types, NEW c, Present(c)
  PROVE  /\ SameStore(durable, durable') /\ durable'.lastGood = durable.lastGood
         /\ durable'.pointer = durable.pointer
BY DEF Present, Types, Stores, SameStore

LEMMA CalmPromote ==
  ASSUME Inv, Publishing, Calm, PromoteWorking
  PROVE  Calm'
<1>0. /\ Types /\ published' = published /\ working' = working /\ queue' = queue
      /\ phase = "stage" /\ phase' = "promote" /\ Owner.todo = << >>
      /\ Halves /\ Staging /\ Telling /\ Lined /\ Carried
      /\ Terminal(working) /\ working.state \in States
  BY DEF Inv, PromoteWorking, OwnerWritten, Owner, Calm, Publishing, Seeded
<1>1. SameStore(durable, durable') /\ durable'.lastGood = durable.lastGood
      /\ durable'.pointer = durable.pointer
  BY <1>0, Presented DEF PromoteWorking
<1>2. Kept("queue")
  BY <1>0, Threads2 DEF PromoteWorking, Types, Kept
<1>3. Telling' /\ Lined' /\ Carried'
  BY <1>0, <1>1, <1>2, TellingFrame, LinedFrame, CarriedFrame DEF SameEvidence
<1>4. Todo(Owner) = {}
  BY <1>0 DEF Todo
<1>5. /\ durable.newest[working.state].forecast = working.forecast
      /\ durable.newest[working.state].value = working.value
      /\ working.forecast \in durable.simulations
  BY <1>0, <1>4 DEF Staging
<1>6. Half(durable, working.state)
  BY <1>0, <1>5 DEF Half, Terminal
<1>7. \A x \in States : Half(durable, x)
  BY <1>0, <1>6 DEF Halves
<1>8. Halves'
  BY <1>1, <1>7, SameStoreSays DEF Halves
<1>9. Staging'
  BY <1>0, <1>1, <1>5 DEF Staging, SameStore
<1> QED
  BY <1>3, <1>8, <1>9 DEF Calm

LEMMA CalmCommit ==
  ASSUME Inv, Publishing, Calm, Commit
  PROVE  Calm'
<1>0. /\ Types /\ durable' = durable /\ published' = published /\ working' = working
      /\ queue' = queue /\ phase = "promote" /\ phase' = "commit"
      /\ BeginWrite("owner", Target, TRUE)
  BY DEF Inv, Commit, Stays
<1>1. Kept("queue")
  BY <1>0, TargetFields, OwnerBegins
<1>2. Staging'
  BY <1>0 DEF Calm, Staging
<1> QED
  BY <1>0, <1>1, <1>2, CalmBut DEF SameStore, SameEvidence

LEMMA CalmBind ==
  ASSUME Inv, Publishing, Calm, Bind
  PROVE  Calm'
<1>0. /\ Types /\ published \in Contexts /\ Placed(published) /\ queue' = queue
      /\ working' = working /\ phase = "idle" /\ phase' = "bind"
      /\ published' = [published EXCEPT !.generation = Promoted]
      /\ BeginWrite("owner", published', TRUE)
  BY DEF Inv, Types, Bind, Free
<1>1. PICK c : c = [published EXCEPT !.generation = Promoted]
  OBVIOUS
<1>2. c \in Contexts /\ Placed(c) /\ SameEvidence(c, published) /\ Place(c) = Place(published)
  <2>1. c \in Contexts /\ Placed(c)
    BY <1>0, <1>1, PromotedTyped
  <2> QED
    BY <1>0, <1>1, <2>1 DEF Contexts, SameEvidence, Place
<1>3. Kept("queue")
  BY <1>0, <1>1, <1>2, OwnerBegins
<1>4. SameStore(durable, durable') /\ durable'.lastGood = durable.lastGood
      /\ durable'.pointer = durable.pointer
  BY <1>0, Presented DEF Bind
<1>5. Staging'
  BY <1>0 DEF Staging
<1> QED
  BY <1>0, <1>1, <1>2, <1>3, <1>4, <1>5, CalmBut

LEMMA CalmSwap ==
  ASSUME Inv, Publishing, Calm, Swap
  PROVE  Calm'
<1>0. /\ Types /\ Inv /\ durable' = durable /\ queue' = queue /\ phase = "commit"
      /\ phase' = "idle" /\ Laid /\ Owner.context = Target /\ Owner.todo = << >>
      /\ published' = Target /\ Telling /\ Halves /\ Lined
      /\ Checkpoint = Idle /\ queue = << >>
  BY SealedStill DEF Inv, Publishing, Owning, Swap, Stays, Calm, Sealed, OwnerWritten, Owner
<1>1. PICK c : c = Target
  OBVIOUS
<1>2. c \in Contexts /\ Placed(c) /\ Terminal(c) /\ c.state \in States
  BY <1>0, <1>1, TargetFields DEF Laid
<1>3. Todo(Owner) = {}
  BY <1>0 DEF Todo
<1>4. /\ durable.manifest[c.state] = Manifest(c) /\ durable.pointer = Place(c)
      /\ durable.lastGood = Place(c)
  BY <1>0, <1>1, <1>3 DEF Laid
<1>5. Checkpoint' = Idle
  BY <1>0, Threads2 DEF Swap, Types, Checkpoint
<1>6. Idle.context = NoContext /\ NoContext.state = 0 /\ Idle.todo = << >>
  BY DEF Idle, NoContext
<1>7. Telling'
  <2>1. Says(durable, c)
    BY <1>2, <1>4, ManifestNot DEF Says, Manifest
  <2> QED
    BY <1>0, <1>1, <1>2, <1>5, <2>1 DEF Telling, Bundle
<1>8. Halves'
  BY <1>0, HalvesFrame DEF SameStore
<1>9. Staging'
  BY <1>0 DEF Staging
<1>10. Lined'
  <2>1. c.state \in Nat /\ 0 <= c.state
    <3>1. \A x \in States : x \in Nat /\ 0 <= x
      BY Times
    <3> QED
      BY <1>2, <3>1
  <2> QED
    BY <1>0, <1>1, <1>5, <1>6, <2>1 DEF Lined, Ordered, Ends
<1>11. Carried'
  <2>1. durable.lastGood.state = c.state
    BY <1>4 DEF Place
  <2>2. Settled(queue', Checkpoint', c.state, durable')
    BY <1>0, <1>5, <1>6, <2>1 DEF Settled
  <2> QED
    BY <1>0, <1>1, <1>4, <2>2 DEF Carried, Covered, Pointed
<1> QED
  BY <1>7, <1>8, <1>9, <1>10, <1>11 DEF Calm

LEMMA CalmPublication ==
  ASSUME Inv, Publishing, Calm, Publication
  PROVE  Calm'
BY CalmBegins, CalmBoot, CalmPromote, CalmCommit, CalmBind, CalmSwap DEF Publication

-----------------------------------------------------------------------------
(* One put of either writer.                                                *)
LEMMA PutTells ==
  ASSUME Inv, Telling, Halves, phase \notin {"stage", "commit"},
         NEW t \in Threads, Put(t), Kept("queue") \/ t = "queue",
         Faithful(durable, write[t].context)
  PROVE  Telling' /\ Halves'
<1>1. PICK b, put, late : b = write[t].context /\ put = Head(write[t].todo)
                          /\ late = write[t].superseded
  OBVIOUS
<1>2. /\ durable \in Stores /\ b \in Contexts /\ put \in Allowed(b) /\ late \in BOOLEAN
      /\ durable' = Stored(durable, put, b, late) /\ write'[t].context = b
      /\ published' = published /\ queue' = queue /\ phase' = phase /\ working' = working
  BY <1>1, PutReady DEF Inv, Types, Writes, Put
<1>3. Placed(b) /\ Bundle(b) /\ Says(durable, b)
  BY <1>1 DEF Faithful
<1>4. \A c \in Contexts : Placed(c) /\ Says(durable, c) => Says(durable', c)
  BY <1>2, <1>3, SaysPut
<1>5. \A x \in States : Half(durable, x) => Half(durable', x)
  BY <1>2, <1>3, HalfPut
<1>6. Checkpoint'.context = Checkpoint.context /\ Checkpoint.context \in Contexts
  BY <1>1, <1>2, Threads2 DEF Kept, Checkpoint, Inv, Types, Writes
<1>7. published \in Contexts /\ Placed(published) /\ queue \in Seq(Tasks)
  BY DEF Inv, Types
<1>8. \A i \in DOMAIN queue : queue[i].context \in Contexts
  BY <1>7, TaskFields
<1>9. Telling'
  <2>1. Faithful(durable', Checkpoint'.context)
    BY <1>4, <1>6 DEF Telling, Faithful
  <2>2. \A i \in DOMAIN queue' : Faithful(durable', queue'[i].context)
    BY <1>2, <1>4, <1>8 DEF Telling, Faithful
  <2>3. Bundle(published') /\ Says(durable', published')
    BY <1>2, <1>4, <1>7 DEF Telling
  <2> QED
    BY <2>1, <2>2, <2>3 DEF Telling
<1>10. Halves'
  BY <1>2, <1>5 DEF Halves
<1> QED
  BY <1>9, <1>10

LEMMA CalmPutQueue ==
  ASSUME Inv, Publishing, Calm, Put("queue")
  PROVE  Calm'
<1>0. /\ Types /\ Telling /\ Halves /\ Lined /\ Carried /\ Checkpoint.todo # << >>
      /\ published' = published /\ queue' = queue /\ phase' = phase
      /\ queue \in Seq(Tasks) /\ published \in Contexts
  BY DEF Inv, Types, Calm, Put, Checkpoint
<1>1. phase \notin Sealed
  BY <1>0, NotSealed DEF Writing, Checkpoint, Idle
<1>2. PICK w, b, put, late : /\ w = Checkpoint /\ b = w.context /\ put = Head(w.todo)
                             /\ late = w.superseded
  OBVIOUS
<1>3. /\ w \in Writes /\ b \in Contexts /\ put \in Puts /\ late \in BOOLEAN
      /\ durable \in Stores /\ durable' = Stored(durable, put, b, late)
      /\ Checkpoint' = [w EXCEPT !.todo = Tail(@)] /\ w.todo # << >>
  BY <1>0, <1>2, PutReady, Threads2 DEF Inv, Types, Writes, Allowed, Checkpoint
<1>4. Telling' /\ Halves'
  BY <1>0, <1>1, PutTells, Threads2 DEF Telling, Checkpoint, Sealed
<1>5. Staging'
  BY <1>0, <1>1 DEF Staging, Sealed
<1>6. Checkpoint'.context = b /\ b.state # 0
  BY <1>0, <1>2, <1>3 DEF Lined, Writes
<1>7. Lined'
  BY <1>0, <1>2, <1>6 DEF Lined
<1>8. Todo(w) = Todo(Checkpoint') \cup {put}
  BY <1>2, <1>3, TodoTail
<1>9. /\ put = "pointer" => durable'.pointer = Place(b)
      /\ put # "pointer" => durable'.pointer = durable.pointer
      /\ put = "lastGood" => durable'.lastGood = Place(b)
      /\ put # "lastGood" => durable'.lastGood = durable.lastGood
  BY <1>3, StoredFields
<1>10. Place(b).state = b.state
  BY DEF Place
<1>11. Carried'
  <2> SUFFICES ASSUME Terminal(published)
               PROVE  /\ Covered(queue, Checkpoint', published, durable')
                      /\ Pointed(queue, Checkpoint', published, durable')
    BY <1>0 DEF Carried
  <2>1. Covered(queue, w, published, durable) /\ Pointed(queue, w, published, durable)
    BY <1>0, <1>1, <1>2 DEF Carried, Sealed
  <2>2. ASSUME Settles(w, published.state) PROVE Covered(queue, Checkpoint', published, durable')
    <3>1. b.state = published.state /\ Terminal(b) /\ "lastGood" \in Todo(w)
      BY <1>2, <2>2 DEF Settles
    <3>2. CASE put # "lastGood"
      BY <1>6, <1>8, <3>1, <3>2 DEF Covered, Settles
    <3>3. CASE put = "lastGood"
      <4>1. \A i \in DOMAIN queue : queue[i].context.state = published.state
        <5>1. \A i \in DOMAIN queue : /\ queue[i].context.state \in States
                                      /\ published.state <= queue[i].context.state
                                      /\ queue[i].context.state <= published.state
          BY <1>0, <1>2, <3>1 DEF Lined, Ordered
        <5>2. \A x \in States \cup {0} : x \in Nat
          BY Times
        <5>3. published.state \in Nat
          BY <1>0, <5>2, ContextFields
        <5>4. \A m, n \in Nat : m <= n /\ n <= m => m = n
          OBVIOUS
        <5> QED
          BY <5>1, <5>2, <5>3, <5>4
      <4> QED
        BY <1>6, <1>9, <1>10, <3>1, <3>3, <4>1 DEF Covered, Settled
    <3> QED
      BY <3>2, <3>3
  <2>3. ASSUME Settled(queue, w, published.state, durable)
        PROVE  Settled(queue, Checkpoint', published.state, durable')
    BY <1>2, <1>6, <1>9, <1>10, <2>3 DEF Settled
  <2>4. Pointed(queue, Checkpoint', published, durable')
    <3>1. queue = << >> => Place(b) = Place(published)
      BY <1>0, <1>2, <1>6 DEF Lined, Ends
    <3> QED
      BY <1>8, <1>9, <2>1, <3>1 DEF Pointed
  <2> QED
    BY <2>1, <2>2, <2>3, <2>4 DEF Covered
<1> QED
  BY <1>4, <1>5, <1>7, <1>11 DEF Calm

(* The owner putting the published bundle, in its restart authority or in a *)
(* binding.                                                                 *)
LEMMA CalmPutPublished ==
  ASSUME Inv, Publishing, Calm, Put("owner"), phase \in {"boot", "bind"}
  PROVE  Calm'
<1>1. PICK b, put : b = Owner.context /\ put = Head(Owner.todo)
  OBVIOUS
<1>2. /\ Types /\ Telling /\ Halves /\ Lined /\ Carried /\ b \in Contexts /\ put \in Puts
      /\ durable \in Stores /\ Kept("queue") /\ published \in Contexts /\ Placed(published)
      /\ published' = published /\ queue' = queue /\ phase' = phase /\ working' = working
      /\ SameEvidence(b, published) /\ Place(b) = Place(published)
  <2>1. SameEvidence(b, published) /\ Place(b) = Place(published)
    BY <1>1 DEF Publishing, Owning, Granted, SameEvidence
  <2> QED
    BY <1>1, <2>1, OwnerPut DEF Inv, Types, Calm, Put
<1>3. /\ durable'.pointer \in {durable.pointer, Place(b)}
      /\ durable'.lastGood \in {durable.lastGood, Place(b)}
  <2>1. PICK late \in BOOLEAN : durable' = Stored(durable, put, b, late)
    BY <1>1, OwnerPut
  <2> QED
    BY <1>2, <2>1, StoredFields
<1>4. Faithful(durable, b)
  <2>1. b.state = published.state
    BY <1>2 DEF Place
  <2> QED
    BY <1>2, <2>1 DEF Faithful, Telling, Bundle, Says, Held, Terminal, Placed, SameEvidence
<1>5. Telling' /\ Halves'
  BY <1>1, <1>2, <1>4, PutTells, Threads2 DEF Owner
<1>6. Staging'
  BY <1>2 DEF Staging
<1>7. Lined'
  BY <1>2, LinedFrame
<1>8. Carried'
  <2> SUFFICES ASSUME Terminal(published)
               PROVE  /\ Covered(queue, Checkpoint', published, durable')
                      /\ Pointed(queue, Checkpoint', published, durable')
    BY <1>2 DEF Carried
  <2>1. Covered(queue, Checkpoint, published, durable) /\ Pointed(queue, Checkpoint, published, durable)
    BY <1>2 DEF Carried
  <2>2. Place(b).state = published.state
    BY <1>2 DEF Place
  <2>3. /\ Settles(Checkpoint, published.state) => Settles(Checkpoint', published.state)
        /\ Settled(queue, Checkpoint, published.state, durable)
             => Settled(queue, Checkpoint', published.state, durable')
    BY <1>2, <1>3, <2>2, KeptTodo DEF Settles, Settled
  <2>4. Pointed(queue, Checkpoint', published, durable')
    BY <1>2, <1>3, <2>1, KeptTodo DEF Pointed
  <2> QED
    BY <2>1, <2>3, <2>4 DEF Covered
<1> QED
  BY <1>5, <1>6, <1>7, <1>8 DEF Calm

LEMMA SealedTelling ==
  ASSUME Inv, Publishing, Telling, phase \in Sealed, Kept("queue"), queue' = queue,
         published' = published, phase' # "commit" => Says(durable', published)
  PROVE  Telling'
<1>1. Checkpoint = Idle /\ queue = << >>
  BY SealedStill
<1>2. Checkpoint'.context = NoContext
  BY <1>1, KeptTodo DEF Idle
<1>3. Faithful(durable', NoContext)
  BY Absent DEF Faithful, Bundle, Says, Terminal, NoContext
<1> QED
  BY <1>1, <1>2, <1>3 DEF Telling

LEMMA CalmPutWorking ==
  ASSUME Inv, Publishing, Calm, Put("owner"), phase = "stage"
  PROVE  Calm'
<1>1. PICK b, put : b = Owner.context /\ put = Head(Owner.todo)
  OBVIOUS
<1>2. /\ Types /\ Telling /\ Halves /\ Staging /\ Lined /\ Carried /\ b \in Contexts
      /\ durable \in Stores /\ Kept("queue") /\ b = working
      /\ published' = published /\ queue' = queue /\ phase' = phase /\ working' = working
      /\ Terminal(working) /\ working.state \in States
      /\ put \in {"row", "forecast", "simulation", "value"} /\ put \in Puts
      /\ published \in Contexts /\ Placed(published)
  BY <1>1, OwnerPut DEF Inv, Types, Calm, Put, Publishing, Owning, Seeded
<1>3. PICK late \in BOOLEAN : durable' = Stored(durable, put, b, late)
  BY <1>1, OwnerPut
<1>4. /\ durable'.pointer = durable.pointer /\ durable'.lastGood = durable.lastGood
      /\ durable'.manifest = durable.manifest /\ durable.simulations \subseteq durable'.simulations
  BY <1>2, <1>3, StoredFields, StoredEffect
<1>5. /\ put = "simulation" => durable'.simulations = durable.simulations \cup {b.forecast}
      /\ \A x \in States :
           /\ put = "forecast" /\ x = b.state => durable'.newest[x].forecast = b.forecast
           /\ ~(put = "forecast" /\ x = b.state) =>
                durable'.newest[x].forecast = durable.newest[x].forecast
           /\ put = "value" /\ x = b.state => durable'.newest[x].value = b.value
           /\ ~(put = "value" /\ x = b.state) =>
                durable'.newest[x].value = durable.newest[x].value
  BY <1>2, <1>3, StoredFields
<1>6. Telling'
  <2>1. Says(durable', published)
    <3>1. CASE Terminal(published)
      <4>1. durable.manifest[published.state] # NoManifest
        BY <1>2, <3>1 DEF Publishing, Authority
      <4> QED
        BY <1>2, <1>4, <4>1 DEF Telling, Says
    <3>2. CASE ~Terminal(published)
      BY <3>2 DEF Says
    <3> QED
      BY <3>1, <3>2
  <2> QED
    BY <1>2, <2>1, SealedTelling DEF Sealed
<1>7. Halves'
  <2>1. ASSUME NEW x \in States, x # working.state PROVE Half(durable', x)
    BY <1>2, <1>4, <1>5, <2>1 DEF Halves, Half
  <2> QED
    BY <1>2, <2>1 DEF Halves
<1>8. Staging'
  <2>1. Owner \in Writes /\ Owner.todo # << >> /\ Owner' = [Owner EXCEPT !.todo = Tail(@)]
    BY OwnerPut
  <2>2. Todo(Owner) = Todo(Owner') \cup {put}
    BY <1>1, <2>1, TodoTail
  <2>3. Todo(Owner)' = Todo(Owner')
    BY DEF Todo
  <2>4. /\ "forecast" \in Todo(Owner') \/ durable'.newest[working.state].forecast = working.forecast
        /\ "value" \in Todo(Owner') \/ durable'.newest[working.state].value = working.value
        /\ "simulation" \in Todo(Owner') \/ working.forecast \in durable'.simulations
    BY <1>2, <1>4, <1>5, <2>2 DEF Staging
  <2> QED
    BY <1>2, <2>3, <2>4 DEF Staging
<1>9. Lined' /\ Carried'
  BY <1>2, <1>4, LinedFrame, CarriedFrame
<1> QED
  BY <1>6, <1>7, <1>8, <1>9 DEF Calm

LEMMA CalmPutTarget ==
  ASSUME Inv, Publishing, Calm, Put("owner"), phase = "commit"
  PROVE  Calm'
<1>1. PICK b, put : b = Owner.context /\ put = Head(Owner.todo)
  OBVIOUS
<1>2. /\ Types /\ Telling /\ Halves /\ Staging /\ Lined /\ b \in Contexts
      /\ durable \in Stores /\ Kept("queue") /\ b = Target /\ put \in Puts
      /\ published' = published /\ queue' = queue /\ phase' = phase /\ working' = working
      /\ Terminal(b) /\ b.state \in States
  BY <1>1, OwnerPut DEF Inv, Types, Calm, Put, Publishing, Owning, Laid
<1>3. PICK late \in BOOLEAN : durable' = Stored(durable, put, b, late)
  BY <1>1, OwnerPut
<1>4. b.state = working.state /\ b.forecast = working.forecast /\ b.value = working.value
  BY <1>2, TargetFields
<1>5. Held(durable, b)
  BY <1>2, <1>4 DEF Staging, Held
<1>6. /\ durable.simulations \subseteq durable'.simulations
      /\ \A x \in States : /\ durable'.newest[x].forecast = durable.newest[x].forecast
                           /\ durable'.newest[x].value = durable.newest[x].value
  BY <1>2, <1>3, <1>5, NewestPut
<1>7. \A x \in States : durable.manifest[x] # NoManifest => durable'.manifest[x] # NoManifest
  BY ManifestKept, Threads2
<1>8. Telling'
  BY <1>2, SealedTelling DEF Sealed
<1>9. Halves'
  <2>1. \A x \in States : Half(durable, x) => Half(durable', x)
    BY <1>6, <1>7 DEF Half
  <2> QED
    BY <1>2, <2>1 DEF Halves
<1>10. Staging'
  BY <1>2, <1>4, <1>6 DEF Staging
<1>11. Lined'
  BY <1>2, LinedFrame
<1>12. Carried'
  BY <1>2 DEF Carried
<1> QED
  BY <1>8, <1>9, <1>10, <1>11, <1>12 DEF Calm

LEMMA CalmPut ==
  ASSUME Inv, Publishing, Calm, NEW t \in Threads, Put(t)
  PROVE  Calm'
<1>1. CASE t = "queue"
  BY <1>1, CalmPutQueue
<1>2. CASE t = "owner"
  <2>1. phase \in {"boot", "stage", "commit", "bind"}
    <3>1. Owner # Idle
      BY <1>2 DEF Put, Owner, Idle
    <3> QED
      BY <3>1 DEF Publishing, Owning, Inv, Types, Phases
  <2> QED
    BY <1>2, <2>1, CalmPutPublished, CalmPutWorking, CalmPutTarget
<1> QED
  BY <1>1, <1>2 DEF Threads

-----------------------------------------------------------------------------
CalmInv == faults = 0 => Calm

(* Until the first crash or failed write, all of it holds.                  *)
THEOREM CalmInvariance == Spec => [](Inv /\ Publishing /\ CalmInv)
<1>1. Init => Calm
  <2> SUFFICES ASSUME Init PROVE Calm
    OBVIOUS
  <2>1. /\ Owner = Idle /\ Checkpoint = Idle /\ queue = << >> /\ published = NoContext
        /\ phase = "idle" /\ durable = EmptyStore
    BY Threads2 DEF Init, Owner, Checkpoint
  <2>2. Idle.context = NoContext /\ Idle.todo = << >> /\ NoContext.state = 0
    BY DEF Idle, NoContext
  <2>3. Faithful(durable, NoContext) /\ ~Terminal(NoContext)
    BY DEF Faithful, Placed, Bundle, Says, Terminal, NoContext
  <2>4. Telling
    BY <2>1, <2>2, <2>3 DEF Telling, Faithful
  <2>5. Halves
    BY <2>1 DEF Halves, Half, EmptyStore
  <2>6. Lined
    BY <2>1, <2>2 DEF Lined, Ordered, Ends
  <2>7. Staging /\ Carried
    BY <2>1, <2>3 DEF Staging, Carried
  <2> QED
    BY <2>4, <2>5, <2>6, <2>7 DEF Calm
<1>2. Inv /\ Publishing /\ CalmInv /\ [Next]_vars => CalmInv'
  <2> SUFFICES ASSUME Inv, Publishing, CalmInv, [Next]_vars, faults' = 0 PROVE Calm'
    BY DEF CalmInv
  <2>1. CASE UNCHANGED vars
    <3>1. /\ Calm /\ durable' = durable /\ published' = published /\ queue' = queue
          /\ phase' = phase /\ working' = working /\ write' = write
      BY <2>1 DEF vars, CalmInv
    <3> QED
      BY <3>1, WriteSame, CalmFrame DEF SameStore
  <2>2. CASE Next
    <3>1. faults \in Nat
      BY DEF Inv, Types
    <3>2. ~Fault
      BY <3>1 DEF Fault
    <3>3. ~Restart
      <4>1. Restart => ~up /\ faults' = faults
        BY DEF Restart
      <4> QED
        BY <4>1 DEF Publishing, Down
    <3>4. Requests \/ Executor \/ Publication \/ \E t \in Threads : Put(t)
      BY <2>2, <3>2, <3>3 DEF Next, PutFails, Crash
    <3>5. faults' = faults
      BY <3>4 DEF Requests, Activate, Stage, OtherUser, SelectTeam, Executor, StartSnapshot,
         EndSnapshot, WriteIdentity, Publication, BeginPublication, DrainFails, Boot,
         StageArtifacts, PromoteWorking, Commit, Refuse, Swap, Bind, EndBind, Stays, Put
    <3>6. Calm
      BY <3>5 DEF CalmInv
    <3> QED
      BY <3>4, <3>6, CalmRequests, CalmStartSnapshot, CalmEndSnapshot, CalmWriteIdentity,
         CalmPublication, CalmPut DEF Executor
  <2> QED
    BY <2>1, <2>2
<1>3. Init => CalmInv
  BY <1>1 DEF CalmInv
<1> QED
  BY <1>2, <1>3, PublishingInvariance, PTL DEF Spec

(* With nothing left to write and no write failed, a restart brings back    *)
(* the terminal bundle readers see, under the team they see it for: the     *)
(* checkpoint executor and the publication path between them leave no       *)
(* bundle behind, however activations, team switches and publications come. *)
THEOREM RestartIsCurrent == Spec => []RestartCurrent
<1>1. Inv /\ Publishing /\ CalmInv => RestartCurrent
  <2> SUFFICES ASSUME Inv, Publishing, CalmInv, Free, NothingQueued, faults = 0,
                      Terminal(published)
               PROVE  Evidenced(Restored(durable)) = Evidenced(published)
    BY DEF RestartCurrent
  <2>1. /\ durable \in Stores /\ published \in Contexts /\ Placed(published)
        /\ phase # "commit" /\ queue = << >> /\ Checkpoint = Idle /\ Telling /\ Carried
        /\ ManifestBacked
    BY DEF Inv, Types, CalmInv, Calm, Free, NothingQueued, Writing, Checkpoint
  <2>2. published.state \in States /\ published.state # 0
    BY <2>1, ContextFields, Times DEF Placed, Terminal
  <2>3. durable.lastGood.state = published.state /\ durable.pointer = Place(published)
    <3>1. Idle.todo = << >> /\ ~Terminal(Idle.context)
      BY DEF Idle, NoContext, Terminal
    <3>2. Todo(Idle) = {}
      BY <3>1 DEF Todo
    <3>3. ~Waits(<< >>, published.state) /\ ~Settles(Idle, published.state)
      BY <3>1 DEF Waits, Settles
    <3> QED
      BY <2>1, <3>2, <3>3 DEF Carried, Covered, Settled, Pointed
  <2>4. durable.pointer.state = published.state /\ durable.pointer.team = published.team
    BY <2>3 DEF Place
  <2>5. PICK c : c = Evidence(durable, published.state, published.team)
    OBVIOUS
  <2>6. Restored(durable) = c
    BY <2>1, <2>2, <2>3, <2>4, <2>5, RestoredAt
  <2>7. c \in Contexts /\ c.state = published.state /\ c.team = published.team
    BY <2>1, <2>2, <2>5, ContextFields, EvidenceTyped
  <2>8. /\ c.forecast = Bound(durable, published.state).forecast
        /\ c.value = Bound(durable, published.state).value
        /\ c.simulation = (/\ c.forecast # None /\ c.forecast \in durable.simulations
                           /\ \/ durable.manifest[published.state] = NoManifest
                              \/ durable.manifest[published.state].simulation)
    BY <2>5 DEF Evidence
  <2>9. Says(durable, published) /\ published.simulation = TRUE /\ published.forecast # None
    BY <2>1, ContextFields DEF Telling, Terminal
  <2>10. c.forecast = published.forecast /\ c.value = published.value
         /\ c.forecast \in durable.simulations
         /\ (\/ durable.manifest[published.state] = NoManifest
             \/ durable.manifest[published.state].simulation)
    <3>1. CASE durable.manifest[published.state] = NoManifest
      BY <2>8, <2>9, <3>1 DEF Says, Held, Bound
    <3>2. CASE durable.manifest[published.state] # NoManifest
      BY <2>1, <2>2, <2>8, <2>9, <3>2 DEF Says, Bound, ManifestBacked
    <3> QED
      BY <3>1, <3>2
  <2>11. SameEvidence(c, published)
    BY <2>8, <2>9, <2>10 DEF SameEvidence
  <2> QED
    BY <2>1, <2>6, <2>7, <2>11, EvidencedFields
<1> QED
  BY <1>1, CalmInvariance, PTL

-----------------------------------------------------------------------------
(* Publication ids are handed out in order: a new one names nothing yet.    *)
Known(n, g) == \A k \in Nat : g = <<"promoted", k>> => k <= n

Numbered ==
  /\ Known(promotions, published.generation) /\ Known(promotions, working.generation)
  /\ \A i \in DOMAIN queue : Known(promotions, queue[i].context.generation)
  /\ \A t \in Threads : Known(promotions, write[t].context.generation)
  /\ \A x \in States : Known(promotions, durable.manifest[x].generation)

Shaped(d, x) ==
  \/ d.presented[x].generation = None
  \/ /\ d.presented[x].state = x
     /\ \E n \in Nat : d.presented[x].generation = <<"promoted", n>>

Presenting ==
  /\ \A x \in States : Shaped(durable, x)
  /\ phase \in {"promote", "commit"} => durable.presented[working.state] = Target

(* A published id is of a terminal bundle, which the store could restore.   *)
Rooted(d, c) ==
  /\ c.generation # None => Terminal(c)
  /\ c.forecast # None => \/ d.manifest[c.state] # NoManifest
                          \/ d.newest[c.state].forecast # None

Naming == Numbered /\ Presenting /\ Rooted(durable, published)

(* The surfaces presented under a context's id, or under a manifest's, are  *)
(* its own.                                                                 *)
Agrees(d, c) ==
  c.state # 0 /\ c.generation # None =>
    (d.presented[c.state].generation = c.generation => d.presented[c.state] = c)

Matches(d, x) ==
  LET m == d.manifest[x]
  IN  m # NoManifest /\ m.generation # None /\ d.presented[x].generation = m.generation
        => Manifest(d.presented[x]) = m

(* After a fault, the restart authority can lend the id of a commit that    *)
(* failed to a published bundle without one, until the publication ends;    *)
(* and the states already left can keep such a manifest.                    *)
Lent ==
  /\ faults # 0 /\ phase \in {"boot", "stage", "promote", "commit"}
  /\ published.generation = None

Watched(x) ==
  /\ faults = 0 \/ published.state <= x
  /\ ~(Lent /\ x = published.state)

Paired ==
  /\ Agrees(durable, published) /\ Agrees(durable, Checkpoint.context)
  /\ \A i \in DOMAIN queue : Agrees(durable, queue[i].context)
  /\ phase \in {"bind", "commit"} \/ (phase = "boot" /\ ~Lent) =>
       Agrees(durable, Owner.context)
  /\ \A x \in States : Watched(x) => Matches(durable, x)

-----------------------------------------------------------------------------
LEMMA IdsDiffer ==
  /\ \A s, n : <<"bootstrap", s>> # <<"promoted", n>>
  /\ \A a, b, c, d, n : <<"content", a, b, c, d>> # <<"promoted", n>>
  /\ \A m, n : <<"promoted", m>> = <<"promoted", n>> => m = n
<1>1. \A s, n : <<"bootstrap", s>> # <<"promoted", n>>
  OBVIOUS
<1>2. \A a, b, c, d, n : <<"content", a, b, c, d>> # <<"promoted", n>>
  <2> SUFFICES ASSUME NEW a, NEW b, NEW c, NEW d, NEW n,
                      <<"content", a, b, c, d>> = <<"promoted", n>>
               PROVE  FALSE
    OBVIOUS
  <2>1. <<"content", a, b, c, d>>[1] = "content" /\ <<"promoted", n>>[1] = "promoted"
    OBVIOUS
  <2> QED
    BY <2>1
<1>3. \A m, n : <<"promoted", m>> = <<"promoted", n>> => m = n
  OBVIOUS
<1> QED
  BY <1>1, <1>2, <1>3

LEMMA KnownIds ==
  ASSUME NEW n \in Nat
  PROVE  /\ Known(n, None) /\ Known(n, <<"promoted", n>>)
         /\ \A s : Known(n, <<"bootstrap", s>>)
         /\ \A a, b, c, d : Known(n, <<"content", a, b, c, d>>)
         /\ \A g : Known(n, g) => Known(n + 1, g) /\ g # <<"promoted", n + 1>>
<1>1. Known(n, None)
  BY Ids DEF Known
<1>2. n <= n
  OBVIOUS
<1>3. Known(n, <<"promoted", n>>)
  BY <1>2, IdsDiffer DEF Known
<1>4. /\ \A s : Known(n, <<"bootstrap", s>>)
      /\ \A a, b, c, d : Known(n, <<"content", a, b, c, d>>)
  BY IdsDiffer DEF Known
<1>5. ASSUME NEW g, Known(n, g) PROVE Known(n + 1, g) /\ g # <<"promoted", n + 1>>
  <2>1. \A k \in Nat : k <= n => k <= n + 1
    OBVIOUS
  <2>2. n + 1 \in Nat /\ ~(n + 1 <= n)
    OBVIOUS
  <2> QED
    BY <1>5, <2>1, <2>2 DEF Known
<1> QED
  BY <1>1, <1>3, <1>4, <1>5

(* Every id a step leaves was there before it, or has been handed out.      *)
NamedStep ==
  /\ promotions' \in {promotions, promotions + 1}
  /\ \/ published'.generation = published.generation
     \/ Known(promotions', published'.generation)
  /\ \/ working'.generation = working.generation
     \/ Known(promotions', working'.generation)
  /\ \A i \in DOMAIN queue' :
       \/ \E j \in DOMAIN queue : queue'[i].context = queue[j].context
       \/ Known(promotions', queue'[i].context.generation)
  /\ \A t \in Threads : \/ write'[t].context = write[t].context
                        \/ Known(promotions', write'[t].context.generation)
  /\ \A x \in States : \/ durable'.manifest[x] = durable.manifest[x]
                       \/ Known(promotions', durable'.manifest[x].generation)

LEMMA NamedStepKeeps ==
  ASSUME Numbered, promotions \in Nat, NamedStep
  PROVE  Numbered'
<1>1. ASSUME NEW g, Known(promotions, g) PROVE Known(promotions', g)
  <2>1. CASE promotions' = promotions
    BY <1>1, <2>1
  <2>2. CASE promotions' = promotions + 1
    BY <1>1, <2>2, KnownIds
  <2> QED
    BY <2>1, <2>2 DEF NamedStep
<1> QED
  BY <1>1 DEF Numbered, NamedStep

(* What is read from the store, or exposed from memory, is rooted there and *)
(* carries an id the store or memory had for it.                            *)
LEMMA EvidenceNamed ==
  ASSUME Inv, NEW s \in States, NEW team \in Maybe(Teams),
         NEW c, c = Evidence(durable, s, team)
  PROVE  /\ Rooted(durable, c) /\ c.generation \in {None, durable.manifest[s].generation}
         /\ Matches(durable, s) /\ Shaped(durable, s) => Agrees(durable, c)
<1> DEFINE m == durable.manifest[s]
           p == durable.presented[s]
<1>1. durable \in Stores /\ c \in Contexts /\ c.state = s /\ c.team = team /\ p \in Contexts
  BY EvidenceTyped DEF Inv, Types, Stores
<1>2. /\ c.forecast = Bound(durable, s).forecast /\ c.value = Bound(durable, s).value
      /\ c.simulation = (/\ c.forecast # None /\ c.forecast \in durable.simulations
                         /\ m = NoManifest \/ m.simulation)
      /\ c.generation = IF m # NoManifest /\ m.team = team THEN m.generation ELSE None
  BY DEF Evidence
<1>3. ASSUME m # NoManifest
      PROVE  c.forecast = m.forecast /\ c.value = m.value /\ c.simulation = m.simulation
             /\ Terminal(c)
  <2>1. m.forecast \in durable.forecasts /\ m.simulation /\ m.forecast \in durable.simulations
        /\ m.value \in durable.values
    BY <1>3 DEF Inv, ManifestBacked
  <2>2. m.forecast # None /\ m.value # None
    BY <1>1, <2>1, NoneApart DEF Stores
  <2>3. c.forecast = m.forecast /\ c.value = m.value
    BY <1>2, <1>3, <2>1 DEF Bound
  <2>4. m.simulation = TRUE /\ c.simulation = TRUE
    <3>1. m.simulation \in BOOLEAN
      BY <1>1 DEF Stores, Manifests
    <3> QED
      BY <1>2, <2>1, <2>2, <2>3, <3>1
  <2> QED
    BY <2>2, <2>3, <2>4 DEF Terminal
<1>4. Rooted(durable, c)
  <2>1. c.generation # None => Terminal(c)
    BY <1>2, <1>3
  <2>2. c.forecast # None => m # NoManifest \/ durable.newest[s].forecast # None
    BY <1>2 DEF Bound
  <2> QED
    BY <1>1, <2>1, <2>2 DEF Rooted
<1>5. ASSUME Matches(durable, s), Shaped(durable, s), c.generation # None,
             p.generation = c.generation
      PROVE  p = c
  <2>1. m # NoManifest /\ m.team = team /\ m.generation = c.generation
    BY <1>2, <1>5
  <2>2. Manifest(p) = m
    BY <1>5, <2>1 DEF Matches
  <2>3. /\ p.forecast = m.forecast /\ p.simulation = m.simulation /\ p.value = m.value
        /\ p.team = m.team
    BY <2>2 DEF Manifest
  <2>4. p.state = s
    BY <1>5 DEF Shaped
  <2> HIDE DEF p, m
  <2> QED
    BY <1>1, <1>3, <1>5, <2>1, <2>3, <2>4, ContextFields
<1> QED
  BY <1>1, <1>2, <1>4, <1>5 DEF Agrees

LEMMA ActivatedNamed ==
  ASSUME Inv, Rooted(durable, published), NEW s \in States, NEW c, c = Activated(s)
  PROVE  /\ Rooted(durable, c) /\ c.generation \in {None, published.generation}
         /\ Agrees(durable, published) => Agrees(durable, c)
<1>1. CASE published.state = s
  BY <1>1 DEF Activated
<1>2. CASE published.state # s
  <2>1. c.generation = None /\ c.forecast = None
    BY <1>2 DEF Activated, NoContext
  <2> QED
    BY <2>1 DEF Rooted, Agrees
<1> QED
  BY <1>1, <1>2

LEMMA RecoveredNamed ==
  ASSUME Inv, Rooted(durable, published), NEW s \in States, NEW c, c = Recovered(s)
  PROVE  /\ Rooted(durable, c)
         /\ c.generation \in {None, published.generation, durable.manifest[s].generation}
         /\ Agrees(durable, published) /\ Matches(durable, s) /\ Shaped(durable, s)
              => Agrees(durable, c)
<1> DEFINE a == Activated(s)
           owned == IF a.team = None /\ durable.pointer.state = s
                    THEN durable.pointer.team ELSE a.team
           found == Evidence(durable, s, owned)
           team == IF found.team = None THEN durable.manifest[s].team ELSE found.team
<1>0. Types /\ durable \in Stores
  BY DEF Inv, Types
<1>1. /\ a \in Contexts /\ a.state = s /\ Rooted(durable, a)
      /\ a.generation \in {None, published.generation}
      /\ Agrees(durable, published) => Agrees(durable, a)
  BY <1>0, ActivatedTyped, ActivatedNamed
<1>2. c = IF found.forecast = None /\ found.value = None
          THEN [a EXCEPT !.team = owned] ELSE Evidence(durable, s, team)
  BY DEF Recovered
<1> HIDE DEF a
<1>3. owned \in Maybe(Teams)
  BY <1>0, <1>1, ContextFields DEF Stores, Identities
<1> HIDE DEF owned
<1>4. team \in Maybe(Teams)
  <2>1. durable.manifest[s].team \in Maybe(Teams)
    BY <1>0 DEF Stores, Manifests
  <2> QED
    BY <1>0, <1>3, <2>1, EvidenceTyped
<1>5. CASE found.forecast = None /\ found.value = None
  <2>1. a.forecast = None
    <3>1. found.forecast = Bound(durable, s).forecast
      BY DEF Evidence
    <3>2. Bound(durable, s).forecast = None
      BY <1>5, <3>1
    <3>3. durable.manifest[s] = NoManifest
      <4> SUFFICES ASSUME durable.manifest[s] # NoManifest PROVE FALSE
        OBVIOUS
      <4>1. durable.manifest[s].forecast \in durable.forecasts
        BY DEF Inv, ManifestBacked
      <4>2. durable.manifest[s].forecast \in Runs
        BY <1>0, <4>1 DEF Stores
      <4> QED
        BY <3>2, <4>1, <4>2, NoneApart DEF Bound
    <3>4. durable.newest[s].forecast = None
      BY <3>2, <3>3 DEF Bound
    <3> QED
      BY <1>1, <3>3, <3>4 DEF Rooted
  <2>2. a.generation = None
    BY <1>1, <2>1 DEF Rooted, Terminal
  <2>3. c = [a EXCEPT !.team = owned]
    BY <1>2, <1>5
  <2>4. c.generation = None /\ c.forecast = None
    BY <1>1, <2>1, <2>2, <2>3 DEF Contexts
  <2> QED
    BY <2>4 DEF Rooted, Agrees
<1>6. CASE ~(found.forecast = None /\ found.value = None)
  <2>1. c = Evidence(durable, s, team)
    BY <1>2, <1>6
  <2> HIDE DEF team, found
  <2> QED
    BY <1>4, <2>1, EvidenceNamed
<1> QED
  BY <1>5, <1>6

LEMMA RestoredNamed ==
  ASSUME Inv, NEW c, c = Restored(durable)
  PROVE  /\ Rooted(durable, c)
         /\ c.generation = None \/ \E x \in States : c.generation = durable.manifest[x].generation
         /\ (\A x \in States : Matches(durable, x) /\ Shaped(durable, x)) => Agrees(durable, c)
<1>1. durable \in Stores
  BY DEF Inv, Types
<1>2. CASE c = NoContext
  BY <1>2 DEF Rooted, Agrees, NoContext
<1>3. CASE c # NoContext
  <2>1. /\ durable.pointer.state # 0
        /\ c = Evidence(durable, durable.pointer.state, durable.pointer.team)
    BY <1>3 DEF Restored
  <2>2. durable.pointer.state \in States /\ durable.pointer.team \in Maybe(Teams)
    BY <1>1, <2>1 DEF Stores, Identities
  <2> QED
    BY <2>1, <2>2, EvidenceNamed
<1> QED
  BY <1>2, <1>3

-----------------------------------------------------------------------------
(* The contexts that are queued and being written, and where they are from. *)
LEMMA SubmitContexts ==
  ASSUME Types, NEW q \in {queue, Staled(queue)}, NEW kind \in {"snapshot", "identity"},
         NEW m \in Contexts, Submit(q, Task(kind, m))
  PROVE  \A i \in DOMAIN queue' :
           \/ queue'[i].context = m
           \/ \E j \in DOMAIN queue : queue'[i].context = queue[j].context
<1>1. queue \in Seq(Tasks)
  BY DEF Types
<1>2. PICK task : task = Task(kind, m)
  OBVIOUS
<1>3. task \in Tasks /\ task.context = m
  BY <1>2 DEF Tasks, Task
<1>4. Alike(queue, q)
  BY <1>1, StaledAlike
<1>5. q \in Seq(Tasks) /\ queue' = Submitted(q, task)
  BY <1>2, <1>4 DEF Submit, Alike
<1>6. PICK r \in Seq(Tasks) : r = queue'
  BY <1>3, <1>5, SubmittedSeq
<1>7. \A i \in DOMAIN r : r[i] = task \/ (i \in DOMAIN q /\ r[i] = q[i])
  BY <1>3, <1>5, <1>6, SubmittedShape
<1> QED
  BY <1>3, <1>4, <1>6, <1>7 DEF Alike

LEMMA TailContexts ==
  ASSUME Types, queue # << >>
  PROVE  /\ \E j \in DOMAIN queue : Head(queue).context = queue[j].context
         /\ \A i \in DOMAIN Tail(queue) :
              \E j \in DOMAIN queue : Tail(queue)[i].context = queue[j].context
<1>1. queue \in Seq(Tasks)
  BY DEF Types
<1> QED
  BY <1>1, TailShape

LEMMA BeginContexts ==
  ASSUME Types, NEW t \in Threads, NEW c \in Contexts, Placed(c), NEW publish \in BOOLEAN,
         BeginWrite(t, c, publish)
  PROVE  /\ write'[Other(t)].context = write[Other(t)].context
         /\ c.generation # None => write'[t].context = c
         /\ \/ write'[t].context = c
            \/ /\ c.generation = None
               /\ \E x, y, v, w : write'[t].context.generation = <<"content", x, y, v, w>>
<1>1. /\ write'[Other(t)].context = write[Other(t)].context
      /\ write'[t].context = IF publish THEN Identified(c) ELSE c
  BY BeginEffect DEF Kept
<1>2. \/ Identified(c) = c
      \/ /\ c.generation = None
         /\ \E x, y, v, w : Identified(c).generation = <<"content", x, y, v, w>>
  <2>1. CASE Terminal(c) /\ c.generation = None
    <3>1. Identified(c) = [c EXCEPT !.generation = <<"content", c.state, c.team, c.forecast, c.value>>]
      BY <2>1 DEF Identified
    <3>2. Identified(c).generation = <<"content", c.state, c.team, c.forecast, c.value>>
      BY <3>1 DEF Contexts
    <3> QED
      BY <2>1, <3>2
  <2>2. CASE ~(Terminal(c) /\ c.generation = None)
    BY <2>2 DEF Identified
  <2> QED
    BY <2>1, <2>2
<1> QED
  BY <1>1, <1>2

LEMMA DroppedContexts ==
  ASSUME Types, NEW t \in Threads,
         \/ write' = [write EXCEPT ![t] = Idle]
         \/ write' = [write EXCEPT ![t] = Idle, ![Other(t)].earlier = FALSE]
  PROVE  write'[Other(t)].context = write[Other(t)].context /\ write'[t].context = NoContext
<1>1. Other(t) \in Threads /\ Other(t) # t
  BY OtherThread
<1>2. write \in [Threads -> Writes]
  BY DEF Types
<1>3. Idle.context = NoContext
  BY DEF Idle
<1>4. CASE write' = [write EXCEPT ![t] = Idle]
  BY <1>1, <1>2, <1>3, <1>4
<1>5. CASE write' = [write EXCEPT ![t] = Idle, ![Other(t)].earlier = FALSE]
  BY <1>1, <1>2, <1>3, <1>5 DEF Writes
<1> QED
  BY <1>4, <1>5

LEMMA PutContexts ==
  ASSUME Inv, NEW t \in Threads, Put(t)
  PROVE  /\ \A u \in Threads : write'[u].context = write[u].context
         /\ durable'.presented = durable.presented
         /\ \A x \in States :
              \/ durable'.manifest[x] = durable.manifest[x]
              \/ /\ durable'.manifest[x] = Manifest(write[t].context)
                 /\ x = write[t].context.state /\ "manifest" \in Todo(write[t])
         /\ \A x \in States : durable.newest[x].forecast # None => durable'.newest[x].forecast # None
<1>1. PICK w, b, put, late : /\ w = write[t] /\ b = w.context /\ put = Head(w.todo)
                             /\ late = w.superseded
  OBVIOUS
<1>2. /\ w \in Writes /\ b \in Contexts /\ put \in Allowed(b) /\ late \in BOOLEAN
      /\ durable \in Stores /\ durable' = Stored(durable, put, b, late)
      /\ put = w.todo[1] /\ 1 \in DOMAIN w.todo
      /\ write'[t] = [w EXCEPT !.todo = Tail(@)] /\ Kept(Other(t))
  BY <1>1, PutReady DEF Inv, Types, Writes
<1>3. put \in Puts /\ (put = "forecast" => b.forecast # None) /\ put \in Todo(w)
  BY <1>2, InTodo DEF Allowed
<1>4. \A u \in Threads : write'[u].context = write[u].context
  BY <1>1, <1>2, OtherThread DEF Kept, Writes
<1>5. durable'.presented = durable.presented
  BY <1>2, <1>3, StoredFields
<1>6. ASSUME NEW x \in States
      PROVE  \/ durable'.manifest[x] = durable.manifest[x]
             \/ put = "manifest" /\ x = b.state /\ durable'.manifest[x] = Manifest(b)
  BY <1>2, <1>3, ManifestPut
<1>7. ASSUME NEW x \in States, durable.newest[x].forecast # None
      PROVE  durable'.newest[x].forecast # None
  <2>1. /\ put = "forecast" /\ x = b.state => durable'.newest[x].forecast = b.forecast
        /\ ~(put = "forecast" /\ x = b.state) =>
             durable'.newest[x].forecast = durable.newest[x].forecast
    BY <1>2, <1>3, StoredFields
  <2> QED
    BY <1>3, <1>7, <2>1
<1> QED
  BY <1>1, <1>3, <1>4, <1>5, <1>6, <1>7

-----------------------------------------------------------------------------
LEMMA OneOfThese ==
  ASSUME promotions \in Nat, NEW b, NEW c, Known(promotions, c.generation),
         \/ b = c
         \/ \E x, y, v, w : b.generation = <<"content", x, y, v, w>>
  PROVE  Known(promotions, b.generation)
<1>1. CASE b = c
  BY <1>1
<1>2. ASSUME NEW x, NEW y, NEW v, NEW w, b.generation = <<"content", x, y, v, w>>
      PROVE  Known(promotions, b.generation)
  <2>1. Known(promotions, <<"content", x, y, v, w>>)
    BY KnownIds
  <2> QED
    BY <1>2, <2>1
<1> QED
  BY <1>1, <1>2

LEMMA NumberedRequests ==
  ASSUME Inv, Naming, Requests
  PROVE  NamedStep
<1>0. Types /\ promotions \in Nat /\ Numbered /\ Rooted(durable, published)
  BY DEF Inv, Types, Naming
<1>1. promotions' = promotions /\ write' = write
  BY DEF Requests, Activate, Stage, OtherUser, SelectTeam
<1>2. Known(promotions, None) /\ NoContext.generation = None
  BY <1>0, KnownIds DEF NoContext
<1>3. ASSUME NEW s \in States, Activate(s) PROVE NamedStep
  <2>1. PICK c \in {Activated(s), Recovered(s)} :
          published' = c
          /\ Submit(IF published.state = s THEN queue ELSE Staled(queue), Task("snapshot", c))
    BY <1>3 DEF Activate
  <2>2. c \in Contexts
    BY <1>0, <2>1, ActivatedTyped, RecoveredTyped
  <2>3. c.generation \in {None, published.generation, durable.manifest[s].generation}
    BY <1>0, <2>1, ActivatedNamed, RecoveredNamed
  <2>4. Known(promotions, c.generation)
    BY <1>0, <1>2, <2>3 DEF Numbered
  <2>5. PICK q \in {queue, Staled(queue)} : Submit(q, Task("snapshot", c))
    BY <2>1
  <2>6. \A i \in DOMAIN queue' : \/ queue'[i].context = c
                                 \/ \E j \in DOMAIN queue : queue'[i].context = queue[j].context
    BY <1>0, <2>2, <2>5, SubmitContexts
  <2>7. durable' = durable /\ working' = NoContext
    BY <1>3 DEF Activate
  <2> QED
    BY <1>1, <1>2, <2>1, <2>4, <2>6, <2>7 DEF NamedStep
<1>4. ASSUME NEW t \in Teams, SelectTeam(t) PROVE NamedStep
  <2>1. PICK c : c = [published EXCEPT !.team = t, !.generation = None]
    OBVIOUS
  <2>2. c \in Contexts /\ c.generation = None
    BY <1>0, <2>1, Absent DEF Types, Contexts, Maybe
  <2>3. PICK q \in {queue, Staled(queue)} : Submit(q, Task("identity", c))
    BY <1>4, <2>1 DEF SelectTeam
  <2>4. \A i \in DOMAIN queue' : \/ queue'[i].context = c
                                 \/ \E j \in DOMAIN queue : queue'[i].context = queue[j].context
    BY <1>0, <2>2, <2>3, SubmitContexts
  <2>5. durable' = durable /\ working' = NoContext /\ published' = c
    BY <1>4, <2>1 DEF SelectTeam
  <2> QED
    BY <1>1, <1>2, <2>2, <2>4, <2>5 DEF NamedStep
<1>5. ASSUME NEW s \in States, Stage(s) PROVE NamedStep
  <2>1. durable' = durable /\ published' = published /\ queue' = queue
    BY <1>5 DEF Stage
  <2>2. working'.generation = published.generation
    BY <1>5 DEF Stage
  <2>3. Known(promotions, published.generation)
    BY <1>0 DEF Numbered
  <2> QED
    BY <1>1, <2>1, <2>2, <2>3 DEF NamedStep
<1>6. ASSUME NEW s \in States, OtherUser(s) PROVE NamedStep
  <2>1. durable'.manifest = durable.manifest /\ published' = published /\ queue' = queue
        /\ working' = working
    BY <1>0, <1>6 DEF OtherUser, Types, Stores
  <2> QED
    BY <1>1, <2>1 DEF NamedStep
<1> QED
  BY <1>3, <1>4, <1>5, <1>6 DEF Requests

LEMMA NumberedExecutor ==
  ASSUME Inv, Naming, Executor
  PROVE  NamedStep
<1>0. Types /\ promotions \in Nat /\ Numbered
  BY DEF Inv, Types, Naming
<1>1. promotions' = promotions /\ published' = published /\ working' = working
  BY DEF Executor, StartSnapshot, EndSnapshot, WriteIdentity
<1>2. Known(promotions, None) /\ NoContext.generation = None
  BY <1>0, KnownIds DEF NoContext
<1>3. CASE StartSnapshot
  <2>1. /\ queue # << >> /\ queue' = Tail(queue) /\ durable' = durable
        /\ BeginWrite("queue", Head(queue).context, TRUE)
    BY <1>3 DEF StartSnapshot
  <2>2. PICK c : c = Head(queue).context
    OBVIOUS
  <2>3. c \in Contexts /\ Placed(c)
    BY <1>0, <2>1, <2>2, TailTyped
  <2>4. Known(promotions, c.generation)
    BY <1>0, <2>1, <2>2, TailContexts DEF Numbered
  <2>5. /\ write'["owner"].context = write["owner"].context
        /\ \/ write'["queue"].context = c
           \/ \E x, y, v, w : write'["queue"].context.generation = <<"content", x, y, v, w>>
    BY <1>0, <2>1, <2>2, <2>3, BeginContexts, Others, Threads2
  <2>6. Known(promotions, write'["queue"].context.generation)
    BY <1>0, <2>4, <2>5, OneOfThese
  <2> QED
    BY <1>0, <1>1, <2>1, <2>5, <2>6, TailContexts DEF NamedStep, Threads
<1>4. CASE EndSnapshot
  <2>1. durable' = durable /\ queue' = queue
    BY <1>4 DEF EndSnapshot
  <2>2. write'["owner"].context = write["owner"].context /\ write'["queue"].context = NoContext
    BY <1>0, <1>4, DroppedContexts, Others, Threads2 DEF EndSnapshot
  <2> QED
    BY <1>1, <1>2, <2>1, <2>2 DEF NamedStep, Threads
<1>5. CASE WriteIdentity
  <2>1. queue # << >> /\ queue' = Tail(queue) /\ write' = write
    BY <1>5 DEF WriteIdentity
  <2>2. durable'.manifest = durable.manifest
    BY <1>0, <1>5 DEF WriteIdentity, Stored, Types, Stores
  <2> QED
    BY <1>0, <1>1, <2>1, <2>2, TailContexts DEF NamedStep
<1> QED
  BY <1>3, <1>4, <1>5 DEF Executor

LEMMA BootGenerationKnown ==
  ASSUME Inv, Naming, published.state \in States
  PROVE  Known(promotions, BootGeneration)
<1>0. promotions \in Nat /\ Numbered
  BY DEF Inv, Types, Naming
<1>1. BootGeneration \in {published.generation, durable.manifest[published.state].generation,
                          <<"bootstrap", published.state>>}
  BY DEF BootGeneration
<1>2. CASE BootGeneration = <<"bootstrap", published.state>>
  BY <1>0, <1>2, KnownIds
<1>3. CASE BootGeneration # <<"bootstrap", published.state>>
  BY <1>0, <1>1, <1>3 DEF Numbered
<1> QED
  BY <1>2, <1>3

LEMMA NumberedPublication ==
  ASSUME Inv, Publishing, Naming, Publication
  PROVE  NamedStep
<1>0. /\ Types /\ promotions \in Nat /\ Numbered /\ published \in Contexts /\ working \in Contexts
      /\ Placed(published) /\ Placed(working)
  BY DEF Inv, Types, Naming
<1>1. queue' = queue
  BY DEF Publication, BeginPublication, DrainFails, Boot, StageArtifacts, PromoteWorking,
     Commit, Refuse, Swap, Bind, EndBind, Stays
<1>2. Known(promotions, None) /\ NoContext.generation = None
      /\ Known(promotions + 1, <<"promoted", promotions + 1>>) /\ Known(promotions, LastPromoted)
      /\ Known(promotions, working.generation)
  BY <1>0, KnownIds DEF NoContext, LastPromoted, Numbered
<1>3. CASE BeginPublication \/ DrainFails \/ Refuse
  <2>1. /\ promotions' = promotions /\ durable' = durable /\ published' = published
        /\ write' = write /\ working' \in {working, NoContext}
    BY <1>3 DEF BeginPublication, DrainFails, Refuse, Abandon, Stays
  <2> QED
    BY <1>1, <1>2, <2>1 DEF NamedStep
<1>4. ASSUME promotions' = promotions, durable' = durable, published' = published,
             working' = working, NEW c \in Contexts, Placed(c), NEW b \in BOOLEAN,
             BeginWrite("owner", c, b), Known(promotions, c.generation)
      PROVE  NamedStep
  <2>1. /\ write'["queue"].context = write["queue"].context
        /\ \/ write'["owner"].context = c
           \/ \E x, y, v, w : write'["owner"].context.generation = <<"content", x, y, v, w>>
    BY <1>0, <1>4, BeginContexts, Others, Threads2
  <2>2. Known(promotions, write'["owner"].context.generation)
    BY <1>0, <1>4, <2>1, OneOfThese
  <2> QED
    BY <1>1, <1>4, <2>1, <2>2 DEF NamedStep, Threads
<1>5. CASE Boot
  <2>1. promotions' = promotions /\ durable' = durable /\ published' = published
        /\ working' = working
    BY <1>5 DEF Boot, Stays
  <2>2. CASE NeedsBoot
    <3>1. PICK c : c = [published EXCEPT !.generation = BootGeneration]
      OBVIOUS
    <3>2. c \in Contexts /\ Placed(c)
      BY <1>0, <2>2, <3>1, BootTyped
    <3>3. published.state \in States
      BY <1>0, <2>2, ContextFields DEF NeedsBoot, Terminal, Placed
    <3>4. c.generation = BootGeneration
      BY <1>0, <3>1 DEF Contexts
    <3>5. BeginWrite("owner", c, TRUE)
      BY <1>5, <2>2, <3>1 DEF Boot
    <3> QED
      BY <1>4, <2>1, <3>2, <3>3, <3>4, <3>5, BootGenerationKnown
  <2>3. CASE ~NeedsBoot
    <3>1. BeginWrite("owner", working, FALSE)
      BY <1>5, <2>3 DEF Boot
    <3> QED
      BY <1>0, <1>2, <1>4, <2>1, <3>1
  <2> QED
    BY <2>2, <2>3
<1>6. CASE StageArtifacts
  <2>1. promotions' = promotions /\ durable' = durable /\ published' = published
        /\ working' = working /\ BeginWrite("owner", working, FALSE)
    BY <1>6 DEF StageArtifacts, Stays
  <2> QED
    BY <1>0, <1>2, <1>4, <2>1
<1>7. CASE Commit
  <2>1. promotions' = promotions /\ durable' = durable /\ published' = published
        /\ working' = working /\ BeginWrite("owner", Target, TRUE)
    BY <1>7 DEF Commit, Stays
  <2>2. PICK c : c = Target
    OBVIOUS
  <2>3. c \in Contexts /\ Placed(c) /\ c.generation = LastPromoted
    BY <1>0, <2>2, TargetFields
  <2> QED
    BY <1>2, <1>4, <2>1, <2>2, <2>3
<1>8. CASE PromoteWorking
  <2>1. /\ promotions' = promotions + 1 /\ published' = published /\ working' = working
        /\ durable'.manifest = durable.manifest
    BY <1>0, <1>8 DEF PromoteWorking, Present, Types, Stores
  <2>2. write'["queue"].context = write["queue"].context /\ write'["owner"].context = NoContext
    BY <1>0, <1>8, DroppedContexts, Others, Threads2 DEF PromoteWorking
  <2>3. Known(promotions + 1, None)
    BY <1>0, <1>2, KnownIds
  <2> QED
    BY <1>1, <1>2, <2>1, <2>2, <2>3 DEF NamedStep, Threads
<1>9. CASE Swap
  <2>1. promotions' = promotions /\ durable' = durable /\ published' = Target
        /\ working' = NoContext
    BY <1>9 DEF Swap, Stays
  <2>2. write'["queue"].context = write["queue"].context /\ write'["owner"].context = NoContext
    BY <1>0, <1>9, DroppedContexts, Others, Threads2 DEF Swap
  <2>3. Target.generation = LastPromoted
    BY <1>0, TargetFields
  <2> QED
    BY <1>1, <1>2, <2>1, <2>2, <2>3 DEF NamedStep, Threads
<1>10. CASE Bind
  <2>1. /\ promotions' = promotions + 1 /\ working' = working
        /\ published' = [published EXCEPT !.generation = Promoted]
        /\ durable'.manifest = durable.manifest
    BY <1>0, <1>10 DEF Bind, Present, Types, Stores
  <2>2. PICK c : c = [published EXCEPT !.generation = Promoted]
    OBVIOUS
  <2>3. c \in Contexts /\ Placed(c) /\ c.generation = <<"promoted", promotions + 1>>
    <3>1. c \in Contexts /\ Placed(c)
      BY <1>0, <2>2, PromotedTyped
    <3> QED
      BY <1>0, <2>2, <3>1 DEF Contexts, Promoted
  <2>4. /\ write'["queue"].context = write["queue"].context
        /\ write'["owner"].context = c
    <3>1. c.generation # None
      BY <1>0, <2>2, <2>3, PromotedTyped
    <3>2. BeginWrite("owner", c, TRUE)
      BY <1>10, <2>1, <2>2 DEF Bind
    <3> QED
      BY <1>0, <2>3, <3>1, <3>2, BeginContexts, Others, Threads2
  <2> QED
    BY <1>1, <1>2, <2>1, <2>2, <2>3, <2>4 DEF NamedStep, Threads
<1>11. CASE EndBind
  <2>1. promotions' = promotions /\ durable' = durable /\ published' = published
        /\ working' = working
    BY <1>11 DEF EndBind, Stays
  <2>2. write'["queue"].context = write["queue"].context /\ write'["owner"].context = NoContext
    BY <1>0, <1>11, DroppedContexts, Others, Threads2 DEF EndBind
  <2> QED
    BY <1>1, <1>2, <2>1, <2>2 DEF NamedStep, Threads
<1> QED
  BY <1>3, <1>5, <1>6, <1>7, <1>8, <1>9, <1>10, <1>11 DEF Publication

LEMMA NumberedSteps ==
  ASSUME Inv, Publishing, Naming, Next
  PROVE  Numbered'
<1>0. Types /\ promotions \in Nat /\ Numbered
  BY DEF Inv, Types, Naming
<1>1. Known(promotions, None) /\ NoContext.generation = None
  BY <1>0, KnownIds DEF NoContext
<1>2. ASSUME NEW t \in Threads, Put(t) PROVE NamedStep
  <2>1. promotions' = promotions /\ published' = published /\ working' = working /\ queue' = queue
    BY <1>2 DEF Put
  <2>2. /\ \A u \in Threads : write'[u].context = write[u].context
        /\ \A x \in States : \/ durable'.manifest[x] = durable.manifest[x]
                             \/ durable'.manifest[x] = Manifest(write[t].context)
    BY <1>2, PutContexts
  <2>3. \A c : Manifest(c).generation = c.generation
    BY DEF Manifest
  <2>4. Known(promotions, write[t].context.generation)
    BY <1>0 DEF Numbered
  <2> QED
    BY <2>1, <2>2, <2>3, <2>4 DEF NamedStep
<1>3. ASSUME NEW t \in Threads, PutFails(t) PROVE NamedStep
  <2>1. /\ promotions' = promotions /\ published' = published /\ durable' = durable
        /\ queue' = queue /\ working' \in {working, NoContext}
    BY <1>3 DEF PutFails
  <2>2. write'[Other(t)].context = write[Other(t)].context /\ write'[t].context = NoContext
    BY <1>0, <1>3, DroppedContexts DEF PutFails
  <2> QED
    BY <1>1, <2>1, <2>2, OtherThread DEF NamedStep
<1>4. ASSUME Crash PROVE NamedStep
  <2>1. /\ promotions' = promotions /\ published' = NoContext /\ durable' = durable
        /\ queue' = << >> /\ working' = NoContext
        /\ \A t \in Threads : write'[t].context = NoContext
    BY <1>4 DEF Crash, Idle
  <2> QED
    BY <1>1, <2>1 DEF NamedStep
<1>5. ASSUME Restart PROVE NamedStep
  <2>1. /\ promotions' = promotions /\ published' = Restored(durable)
        /\ queue' = queue /\ working' = working /\ write' = write
    BY <1>5 DEF Restart
  <2>2. durable'.manifest = durable.manifest
    BY <1>0, <1>5 DEF Restart, Stored, Types, Stores
  <2>3. \/ Restored(durable).generation = None
        \/ \E x \in States : Restored(durable).generation = durable.manifest[x].generation
    BY RestoredNamed
  <2>4. Known(promotions, Restored(durable).generation)
    BY <1>0, <1>1, <2>3 DEF Numbered
  <2> QED
    BY <2>1, <2>2, <2>4 DEF NamedStep
<1>6. NamedStep
  BY <1>2, <1>3, <1>4, <1>5, NumberedRequests, NumberedExecutor, NumberedPublication DEF Next
<1> QED
  BY <1>0, <1>6, NamedStepKeeps


-----------------------------------------------------------------------------
(* Only a promotion or a binding changes the surfaces presented, and only a *)
(* put of a snapshot the manifests and the newest artifacts.                *)
LEMMA StoreStep ==
  ASSUME Inv, Next
  PROVE  /\ SameStore(durable, durable') \/ \E t \in Threads : Put(t)
         /\ durable'.presented = durable.presented \/ PromoteWorking \/ Bind
<1>0. Types /\ durable \in Stores
  BY DEF Inv, Types
<1> DEFINE Goal == /\ SameStore(durable, durable') \/ \E t \in Threads : Put(t)
                   /\ durable'.presented = durable.presented \/ PromoteWorking \/ Bind
<1>1. CASE durable' = durable
  BY <1>1 DEF SameStore
<1>2. ASSUME Requests PROVE Goal
  <2>1. ASSUME NEW s \in States, OtherUser(s)
        PROVE  SameStore(durable, durable') /\ durable'.presented = durable.presented
    BY <1>0, <2>1 DEF OtherUser, Stores, SameStore
  <2> QED
    BY <1>1, <1>2, <2>1 DEF Requests, Activate, Stage, SelectTeam
<1>3. ASSUME Executor PROVE Goal
  <2>1. ASSUME WriteIdentity
        PROVE  SameStore(durable, durable') /\ durable'.presented = durable.presented
    BY <1>0, <2>1 DEF WriteIdentity, Stored, Stores, SameStore
  <2> QED
    BY <1>1, <1>3, <2>1 DEF Executor, StartSnapshot, EndSnapshot
<1>4. ASSUME Publication PROVE Goal
  <2>1. ASSUME PromoteWorking \/ Bind PROVE SameStore(durable, durable')
    BY <1>0, <2>1, Presented DEF PromoteWorking, Bind
  <2>2. ASSUME BeginPublication \/ DrainFails \/ Boot \/ StageArtifacts \/ Commit \/ Refuse
                 \/ Swap \/ EndBind
        PROVE  durable' = durable
    BY <2>2 DEF BeginPublication, DrainFails, Boot, StageArtifacts, Commit, Refuse, Swap, EndBind
  <2> QED
    BY <1>1, <1>4, <2>1, <2>2 DEF Publication
<1>5. ASSUME NEW t \in Threads, Put(t) PROVE Goal
  BY <1>5, PutContexts
<1>6. ASSUME NEW t \in Threads, PutFails(t) PROVE Goal
  BY <1>1, <1>6 DEF PutFails
<1>7. ASSUME Crash PROVE Goal
  BY <1>1, <1>7 DEF Crash
<1>8. ASSUME Restart PROVE Goal
  <2>1. SameStore(durable, durable') /\ durable'.presented = durable.presented
    BY <1>0, <1>8 DEF Restart, Stored, Stores, SameStore
  <2> QED
    BY <2>1
<1> QED
  BY <1>2, <1>3, <1>4, <1>5, <1>6, <1>7, <1>8 DEF Next

LEMMA PresentFields ==
  ASSUME Types, NEW c \in Contexts, c.state \in States, Present(c)
  PROVE  /\ promotions' = promotions + 1
         /\ durable'.presented[c.state] = [c EXCEPT !.generation = Promoted]
         /\ \A x \in States : x # c.state => durable'.presented[x] = durable.presented[x]
<1>1. durable \in Stores
  BY DEF Types
<1>2. PICK p : p = [c EXCEPT !.generation = Promoted]
  OBVIOUS
<1>3. durable' = [durable EXCEPT !.presented[c.state] = p]
  BY <1>2 DEF Present
<1>4. durable'.presented = [durable.presented EXCEPT ![c.state] = p]
  BY <1>1, <1>3 DEF Stores
<1>5. durable.presented \in [States -> Contexts]
  BY <1>1 DEF Stores
<1> QED
  BY <1>2, <1>4, <1>5 DEF Present

(* What is presented, and under which new id.                               *)
LEMMA PresentsFresh ==
  ASSUME Inv, Publishing, PromoteWorking \/ Bind
  PROVE  \E c \in Contexts :
           /\ c.state \in States /\ Terminal(c) /\ Present(c)
           /\ (PromoteWorking /\ c = working) \/ (Bind /\ c = published)
<1>1. published \in Contexts /\ working \in Contexts /\ Placed(published)
  BY DEF Inv, Types
<1>2. CASE PromoteWorking
  <2>1. phase = "stage" /\ Present(working)
    BY <1>2 DEF PromoteWorking
  <2>2. Terminal(working) /\ working.state \in States
    BY <2>1 DEF Publishing, Seeded
  <2> QED
    BY <1>1, <1>2, <2>1, <2>2
<1>3. CASE Bind
  <2>1. Present(published) /\ Terminal(published)
    BY <1>3 DEF Bind
  <2>2. published.state \in States
    BY <1>1, <2>1, ContextFields DEF Terminal, Placed
  <2> QED
    BY <1>1, <1>3, <2>1, <2>2
<1> QED
  BY <1>2, <1>3

LEMMA PresentingSteps ==
  ASSUME Inv, Publishing, Naming, Next
  PROVE  Presenting'
<1>0. Types /\ promotions \in Nat /\ Presenting /\ working \in Contexts
  BY DEF Inv, Types, Naming
<1>1. ASSUME NEW x \in States PROVE Shaped(durable', x)
  <2>1. CASE durable'.presented = durable.presented
    BY <1>0, <2>1 DEF Presenting, Shaped
  <2>2. CASE PromoteWorking \/ Bind
    <3>1. PICK c \in Contexts : c.state \in States /\ Present(c)
      BY <2>2, PresentsFresh
    <3>2. /\ durable'.presented[c.state] = [c EXCEPT !.generation = Promoted]
          /\ x # c.state => durable'.presented[x] = durable.presented[x]
      BY <1>0, <3>1, PresentFields
    <3>3. PICK p : p = [c EXCEPT !.generation = Promoted]
      OBVIOUS
    <3>4. p.state = c.state /\ p.generation = <<"promoted", promotions + 1>>
      BY <3>3 DEF Contexts, Promoted
    <3>5. promotions + 1 \in Nat
      BY <1>0
    <3> QED
      BY <1>0, <3>2, <3>3, <3>4, <3>5 DEF Presenting, Shaped
  <2> QED
    BY <2>1, <2>2, StoreStep
<1>2. ASSUME phase' \in {"promote", "commit"} PROVE durable'.presented[working'.state] = Target'
  <2>1. CASE PromoteWorking
    <3>1. Present(working) /\ working' = working /\ phase = "stage"
      BY <2>1 DEF PromoteWorking
    <3>2. working.state \in States
      BY <3>1 DEF Publishing, Seeded
    <3>3. /\ promotions' = promotions + 1
          /\ durable'.presented[working.state] = [working EXCEPT !.generation = Promoted]
      BY <1>0, <3>1, <3>2, PresentFields
    <3> QED
      BY <3>1, <3>3 DEF Target, LastPromoted, Promoted
  <2>2. CASE ~PromoteWorking
    <3>1. ~Bind
      BY <1>2 DEF Bind
    <3>2. durable'.presented = durable.presented
      BY <2>2, <3>1, StoreStep
    <3>3. /\ phase \in {"promote", "commit"} /\ working' = working /\ promotions' = promotions
      <4>1. ASSUME Requests
            PROVE  phase \in {"promote", "commit"} /\ working' = working /\ promotions' = promotions
        BY <1>2, <4>1 DEF Requests, Activate, Stage, OtherUser, SelectTeam, Request, Free
      <4>2. ASSUME Executor
            PROVE  phase \in {"promote", "commit"} /\ working' = working /\ promotions' = promotions
        BY <1>2, <4>2 DEF Executor, StartSnapshot, EndSnapshot, WriteIdentity
      <4>3. ASSUME Publication
            PROVE  phase \in {"promote", "commit"} /\ working' = working /\ promotions' = promotions
        BY <1>2, <2>2, <3>1, <4>3 DEF Publication, BeginPublication, DrainFails, Boot,
           StageArtifacts, Commit, Refuse, Swap, EndBind, Abandon, Stays
      <4>4. ASSUME NEW t \in Threads, Put(t) \/ PutFails(t)
            PROVE  phase \in {"promote", "commit"} /\ working' = working /\ promotions' = promotions
        BY <1>2, <4>4 DEF Put, PutFails
      <4>5. ASSUME Crash \/ Restart
            PROVE  phase \in {"promote", "commit"} /\ working' = working /\ promotions' = promotions
        BY <1>2, <4>5 DEF Crash, Restart
      <4> QED
        BY <4>1, <4>2, <4>3, <4>4, <4>5 DEF Next
    <3> QED
      BY <1>0, <3>2, <3>3 DEF Presenting, Target, LastPromoted
  <2> QED
    BY <2>1, <2>2
<1> QED
  BY <1>1, <1>2 DEF Presenting

-----------------------------------------------------------------------------
LEMMA RootedKept ==
  ASSUME Inv, Next, NEW c \in Contexts, Placed(c), Rooted(durable, c)
  PROVE  Rooted(durable', c)
<1>1. CASE c.forecast = None
  BY <1>1 DEF Rooted
<1>2. CASE c.forecast # None
  <2>1. c.state \in States
    BY <1>2, ContextFields DEF Placed
  <2>2. CASE SameStore(durable, durable')
    BY <2>2 DEF SameStore, Rooted
  <2>3. ASSUME NEW t \in Threads, Put(t) PROVE Rooted(durable', c)
    BY <2>1, <2>3, ManifestKept, PutContexts DEF Rooted
  <2> QED
    BY <2>2, <2>3, StoreStep
<1> QED
  BY <1>1, <1>2

LEMMA RootedSteps ==
  ASSUME Inv, Publishing, Naming, Next
  PROVE  Rooted(durable', published')
<1>0. /\ Types /\ published \in Contexts /\ Placed(published) /\ durable \in Stores
      /\ working \in Contexts
      /\ Rooted(durable, published)
  BY DEF Inv, Types, Naming
<1>1. CASE published' = published
  BY <1>0, <1>1, RootedKept
<1>2. ASSUME NEW s \in States, Activate(s) PROVE Rooted(durable', published')
  <2>1. published' \in {Activated(s), Recovered(s)} /\ durable' = durable
    BY <1>2 DEF Activate
  <2> QED
    BY <1>0, <2>1, ActivatedNamed, RecoveredNamed
<1>3. ASSUME NEW t \in Teams, SelectTeam(t) PROVE Rooted(durable', published')
  <2>1. published' = [published EXCEPT !.team = t, !.generation = None] /\ durable' = durable
    BY <1>3 DEF SelectTeam
  <2>2. PICK c : c = [published EXCEPT !.team = t, !.generation = None]
    OBVIOUS
  <2>3. c.generation = None /\ c.forecast = published.forecast /\ c.state = published.state
    BY <1>0, <2>2 DEF Contexts
  <2> QED
    BY <1>0, <2>1, <2>2, <2>3 DEF Rooted
<1>4. ASSUME Swap PROVE Rooted(durable', published')
  <2>1. phase = "commit" /\ Owner.todo = << >> /\ durable' = durable /\ published' = Target
    BY <1>4 DEF Swap, OwnerWritten, Owner
  <2>2. Laid /\ Owner.context = Target
    BY <2>1 DEF Publishing, Owning
  <2>3. Terminal(Target) /\ durable.manifest[Target.state] = Manifest(Target)
    BY <2>1, <2>2, InTodo DEF Laid
  <2> QED
    BY <2>1, <2>3, ManifestNot DEF Rooted
<1>5. ASSUME Bind PROVE Rooted(durable', published')
  <2>1. Terminal(published) /\ published' = [published EXCEPT !.generation = Promoted]
    BY <1>5 DEF Bind
  <2>2. PICK c : c = [published EXCEPT !.generation = Promoted]
    OBVIOUS
  <2>3. /\ c.forecast = published.forecast /\ c.state = published.state
        /\ c.simulation = published.simulation /\ c.value = published.value
    BY <1>0, <2>2 DEF Contexts
  <2>4. Rooted(durable', published)
    BY <1>0, RootedKept
  <2> QED
    BY <2>1, <2>2, <2>3, <2>4 DEF Rooted, Terminal
<1>6. ASSUME Crash PROVE Rooted(durable', published')
  <2>1. published' = NoContext
    BY <1>6 DEF Crash
  <2> QED
    BY <2>1 DEF Rooted, NoContext
<1>7. ASSUME Restart PROVE Rooted(durable', published')
  <2>1. PICK c : c = Restored(durable)
    OBVIOUS
  <2>2. published' = c
    BY <1>7, <2>1 DEF Restart
  <2>3. c \in Contexts /\ Placed(c) /\ Rooted(durable, c)
    BY <1>0, <2>1, RestoredTyped, RestoredNamed
  <2> QED
    BY <2>2, <2>3, RootedKept
<1>8. ASSUME Publication, ~Swap, ~Bind PROVE published' = published
  BY <1>8 DEF Publication, BeginPublication, DrainFails, Boot, StageArtifacts, PromoteWorking,
     Commit, Refuse, EndBind
<1>9. ASSUME Executor \/ (\E t \in Threads : Put(t) \/ PutFails(t))
             \/ (\E s \in States : Stage(s) \/ OtherUser(s))
      PROVE  published' = published
  BY <1>9 DEF Executor, StartSnapshot, EndSnapshot, WriteIdentity, Put, PutFails, Stage, OtherUser
<1> QED
  BY <1>1, <1>2, <1>3, <1>4, <1>5, <1>6, <1>7, <1>8, <1>9 DEF Next, Requests

LEMMA NamingSteps ==
  ASSUME Inv, Publishing, Naming, Next
  PROVE  Naming'
BY NumberedSteps, PresentingSteps, RootedSteps DEF Naming


-----------------------------------------------------------------------------
(* A state's surfaces change only to ones under an id nothing has yet, so   *)
(* what agreed with them still does.                                        *)
LEMMA FreshPresented ==
  ASSUME Inv, Publishing, Next, NEW x \in States
  PROVE  \/ durable'.presented[x] = durable.presented[x]
         \/ durable'.presented[x].generation = <<"promoted", promotions + 1>>
<1>1. CASE durable'.presented = durable.presented
  BY <1>1
<1>2. CASE PromoteWorking \/ Bind
  <2>1. PICK c \in Contexts : c.state \in States /\ Present(c)
    BY <1>2, PresentsFresh
  <2>2. /\ durable'.presented[c.state] = [c EXCEPT !.generation = Promoted]
        /\ x # c.state => durable'.presented[x] = durable.presented[x]
    BY <2>1, PresentFields DEF Inv
  <2>3. PICK p : p = [c EXCEPT !.generation = Promoted]
    OBVIOUS
  <2>4. p.generation = <<"promoted", promotions + 1>>
    BY <2>3 DEF Contexts, Promoted
  <2> QED
    BY <2>2, <2>3, <2>4
<1> QED
  BY <1>1, <1>2, StoreStep

LEMMA AgreesKept ==
  ASSUME Inv, Publishing, Next, NEW c \in Contexts, Known(promotions, c.generation),
         Agrees(durable, c)
  PROVE  Agrees(durable', c)
<1>1. promotions \in Nat
  BY DEF Inv, Types
<1>2. c.generation # <<"promoted", promotions + 1>>
  BY <1>1, KnownIds
<1>3. CASE c.state \in States
  BY <1>2, <1>3, FreshPresented DEF Agrees
<1>4. CASE c.state = 0
  BY <1>4 DEF Agrees
<1> QED
  BY <1>3, <1>4, ContextFields

LEMMA MatchesKept ==
  ASSUME Inv, Publishing, Naming, Next, NEW x \in States,
         durable'.manifest[x] = durable.manifest[x], Matches(durable, x)
  PROVE  Matches(durable', x)
<1>1. promotions \in Nat /\ Known(promotions, durable.manifest[x].generation)
  BY DEF Inv, Types, Naming, Numbered
<1>2. durable.manifest[x].generation # <<"promoted", promotions + 1>>
  BY <1>1, KnownIds
<1> QED
  BY <1>2, FreshPresented DEF Matches

LEMMA ForeignAgrees ==
  ASSUME Presenting, NEW c \in Contexts,
         \/ \E s : c.generation = <<"bootstrap", s>>
         \/ \E x, y, v, w : c.generation = <<"content", x, y, v, w>>
  PROVE  Agrees(durable, c)
<1> SUFFICES ASSUME c.state # 0, c.generation # None,
                    durable.presented[c.state].generation = c.generation
             PROVE  FALSE
  BY DEF Agrees
<1>1. c.state \in States
  BY ContextFields
<1>2. PICK n \in Nat : c.generation = <<"promoted", n>>
  BY <1>1 DEF Presenting, Shaped
<1> QED
  BY <1>2, IdsDiffer

-----------------------------------------------------------------------------
LEMMA OwnerMoves ==
  ASSUME Inv, Publication
  PROVE  \/ write' = write
         \/ write' = [write EXCEPT !["owner"] = Idle]
         \/ write' = [write EXCEPT !["owner"] = Idle, !["queue"].earlier = FALSE]
         \/ \E c \in Contexts : Placed(c) /\ \E b \in BOOLEAN : BeginWrite("owner", c, b)
<1>0. /\ Types /\ published \in Contexts /\ working \in Contexts /\ Placed(published)
      /\ Placed(working)
  BY DEF Inv, Types
<1> DEFINE Goal == \E c \in Contexts : Placed(c) /\ \E b \in BOOLEAN : BeginWrite("owner", c, b)
<1>1. ASSUME Boot \/ StageArtifacts PROVE Goal
  <2>1. CASE BeginWrite("owner", working, FALSE)
    BY <1>0, <2>1
  <2>2. CASE NeedsBoot /\ BeginWrite("owner", [published EXCEPT !.generation = BootGeneration], TRUE)
    BY <1>0, <2>2, BootTyped
  <2> QED
    BY <1>1, <2>1, <2>2 DEF Boot, StageArtifacts
<1>2. ASSUME Commit PROVE Goal
  BY <1>0, <1>2, TargetFields DEF Commit
<1>3. ASSUME Bind PROVE Goal
  <2>1. BeginWrite("owner", [published EXCEPT !.generation = Promoted], TRUE)
    BY <1>3 DEF Bind
  <2> QED
    BY <1>0, <2>1, PromotedTyped
<1>4. ASSUME PromoteWorking \/ Swap PROVE write' = [write EXCEPT !["owner"] = Idle]
  BY <1>4 DEF PromoteWorking, Swap
<1>5. ASSUME EndBind
      PROVE  write' = [write EXCEPT !["owner"] = Idle, !["queue"].earlier = FALSE]
  BY <1>5 DEF EndBind
<1>6. ASSUME BeginPublication \/ DrainFails \/ Refuse PROVE write' = write
  BY <1>6 DEF BeginPublication, DrainFails, Refuse
<1> HIDE DEF Goal
<1>7. write' = write \/ Goal \/ write' = [write EXCEPT !["owner"] = Idle]
        \/ write' = [write EXCEPT !["owner"] = Idle, !["queue"].earlier = FALSE]
  BY <1>1, <1>2, <1>3, <1>4, <1>5, <1>6 DEF Publication
<1> QED
  BY <1>7 DEF Goal

LEMMA CheckpointStep ==
  ASSUME Inv, Next
  PROVE  Checkpoint'.context \in {Checkpoint.context, NoContext} \/ StartSnapshot
<1>0. Types
  BY DEF Inv
<1>1. ASSUME Requests PROVE Checkpoint' = Checkpoint
  BY <1>1 DEF Requests, Activate, Stage, SelectTeam, OtherUser, Checkpoint
<1>2. ASSUME EndSnapshot PROVE Checkpoint'.context = NoContext
  BY <1>0, <1>2, DroppedContexts, Others, Threads2 DEF EndSnapshot, Checkpoint
<1>3. ASSUME WriteIdentity PROVE Checkpoint' = Checkpoint
  BY <1>3 DEF WriteIdentity, Checkpoint
<1>4. ASSUME Publication PROVE Checkpoint'.context = Checkpoint.context
  <2>1. CASE write' = write
    BY <2>1 DEF Checkpoint
  <2>2. CASE \/ write' = [write EXCEPT !["owner"] = Idle]
             \/ write' = [write EXCEPT !["owner"] = Idle, !["queue"].earlier = FALSE]
    BY <1>0, <2>2, DroppedContexts, Others, Threads2 DEF Checkpoint
  <2>3. ASSUME NEW c \in Contexts, Placed(c), NEW b \in BOOLEAN, BeginWrite("owner", c, b)
        PROVE  Checkpoint'.context = Checkpoint.context
    BY <1>0, <2>3, BeginContexts, Others, Threads2 DEF Checkpoint
  <2> QED
    BY <1>4, <2>1, <2>2, <2>3, OwnerMoves
<1>5. ASSUME NEW t \in Threads, Put(t) PROVE Checkpoint'.context = Checkpoint.context
  BY <1>5, PutContexts, Threads2 DEF Checkpoint
<1>6. ASSUME NEW t \in Threads, PutFails(t)
      PROVE  Checkpoint'.context \in {Checkpoint.context, NoContext}
  <2>1. write'[Other(t)].context = write[Other(t)].context /\ write'[t].context = NoContext
    BY <1>0, <1>6, DroppedContexts DEF PutFails
  <2> QED
    BY <2>1, OtherThread, Threads2 DEF Checkpoint
<1>7. ASSUME Crash PROVE Checkpoint'.context = NoContext
  BY <1>7, Threads2 DEF Crash, Checkpoint, Idle
<1>8. ASSUME Restart PROVE Checkpoint' = Checkpoint
  BY <1>8 DEF Restart, Checkpoint
<1> QED
  BY <1>1, <1>2, <1>3, <1>4, <1>5, <1>6, <1>7, <1>8 DEF Next, Executor

LEMMA CheckpointAgrees ==
  ASSUME Inv, Publishing, Naming, Paired, Next
  PROVE  Agrees(durable', Checkpoint'.context)
<1>0. Types /\ promotions \in Nat /\ Numbered /\ Presenting
  BY DEF Inv, Types, Naming
<1>1. Checkpoint.context \in Contexts /\ Known(promotions, Checkpoint.context.generation)
      /\ Agrees(durable, Checkpoint.context)
  BY <1>0, Threads2 DEF Types, Writes, Numbered, Paired, Checkpoint
<1>2. CASE Checkpoint'.context = Checkpoint.context
  BY <1>1, <1>2, AgreesKept
<1>3. CASE Checkpoint'.context = NoContext
  BY <1>3 DEF Agrees, NoContext
<1>4. CASE StartSnapshot
  <2>1. /\ queue # << >> /\ durable' = durable
        /\ BeginWrite("queue", Head(queue).context, TRUE)
    BY <1>4 DEF StartSnapshot
  <2>2. PICK c : c = Head(queue).context
    OBVIOUS
  <2>3. c \in Contexts /\ Placed(c)
    BY <1>0, <2>1, <2>2, TailTyped
  <2>4. Agrees(durable, c)
    BY <1>0, <2>1, <2>2, TailContexts DEF Paired
  <2>5. PICK b : b = write'["queue"].context
    OBVIOUS
  <2>6. b \in Contexts
    <3>1. write' \in [Threads -> Writes]
      BY <1>0, <2>1, <2>2, <2>3, BeginEffect, Threads2
    <3> QED
      BY <2>5, <3>1, Threads2 DEF Writes
  <2>7. b = c \/ \E x, y, v, w : b.generation = <<"content", x, y, v, w>>
    <3>1. \/ write'["queue"].context = c
          \/ \E x, y, v, w : write'["queue"].context.generation = <<"content", x, y, v, w>>
      BY <1>0, <2>1, <2>2, <2>3, BeginContexts, Others, Threads2
    <3> QED
      BY <2>5, <3>1
  <2>8. Agrees(durable, b)
    BY <1>0, <2>4, <2>6, <2>7, ForeignAgrees
  <2> QED
    BY <2>1, <2>5, <2>8 DEF Checkpoint
<1> QED
  BY <1>2, <1>3, <1>4, CheckpointStep


LEMMA PublishedAgrees ==
  ASSUME Inv, Publishing, Naming, Paired, Next
  PROVE  Agrees(durable', published')
<1>0. /\ Types /\ published \in Contexts /\ durable \in Stores /\ working \in Contexts
      /\ promotions \in Nat /\ Numbered /\ Presenting /\ Rooted(durable, published)
      /\ Agrees(durable, published)
  BY DEF Inv, Types, Naming, Paired
<1>1. CASE published' = published
  BY <1>0, <1>1, AgreesKept DEF Numbered
<1>2. ASSUME NEW s \in States, Activate(s) PROVE Agrees(durable', published')
  <2>1. /\ published' \in {Activated(s), Recovered(s)} /\ durable' = durable
        /\ s >= published.state /\ phase = "idle"
    BY <1>2 DEF Activate, Request, Free
  <2>2. published.state <= s
    BY <1>0, <2>1, ContextFields, Times
  <2>3. Matches(durable, s) /\ Shaped(durable, s)
    BY <1>0, <2>1, <2>2 DEF Paired, Watched, Lent, Presenting
  <2> QED
    BY <1>0, <2>1, <2>3, ActivatedNamed, RecoveredNamed
<1>3. ASSUME NEW t \in Teams, SelectTeam(t) PROVE Agrees(durable', published')
  <2>1. published' = [published EXCEPT !.team = t, !.generation = None]
    BY <1>3 DEF SelectTeam
  <2>2. PICK c : c = [published EXCEPT !.team = t, !.generation = None]
    OBVIOUS
  <2>3. c.generation = None
    BY <1>0, <2>2 DEF Contexts
  <2> QED
    BY <2>1, <2>2, <2>3 DEF Agrees
<1>4. ASSUME Swap PROVE Agrees(durable', published')
  <2>1. phase = "commit" /\ durable' = durable /\ published' = Target
    BY <1>4 DEF Swap
  <2>2. durable.presented[working.state] = Target /\ Target.state = working.state
    BY <1>0, <2>1, TargetFields DEF Presenting
  <2> QED
    BY <2>1, <2>2 DEF Agrees
<1>5. ASSUME Bind PROVE Agrees(durable', published')
  <2>1. /\ Terminal(published) /\ Present(published)
        /\ published' = [published EXCEPT !.generation = Promoted]
    BY <1>5 DEF Bind
  <2>2. published.state \in States
    BY <1>0, <2>1, ContextFields DEF Terminal, Placed, Types
  <2>3. PICK c : c = [published EXCEPT !.generation = Promoted]
    OBVIOUS
  <2>4. c.state = published.state
    BY <1>0, <2>3 DEF Contexts
  <2>5. durable'.presented[c.state] = c
    BY <1>0, <2>1, <2>2, <2>3, <2>4, PresentFields
  <2> QED
    BY <2>1, <2>3, <2>5 DEF Agrees
<1>6. ASSUME Crash PROVE Agrees(durable', published')
  <2>1. published' = NoContext
    BY <1>6 DEF Crash
  <2> QED
    BY <2>1 DEF Agrees, NoContext
<1>7. ASSUME Restart PROVE Agrees(durable', published')
  <2>1. PICK c : c = Restored(durable)
    OBVIOUS
  <2>2. published' = c /\ ~up
    BY <1>7, <2>1 DEF Restart
  <2>3. published = NoContext /\ phase = "idle"
    BY <2>2 DEF Publishing, Down
  <2>4. ASSUME NEW x \in States PROVE Matches(durable, x) /\ Shaped(durable, x)
    <3>1. published.state <= x
      BY <2>3, Times DEF NoContext
    <3> QED
      BY <1>0, <2>3, <3>1 DEF Paired, Watched, Lent, Presenting
  <2>5. c \in Contexts /\ Agrees(durable, c) /\ Known(promotions, c.generation)
    <3>1. \/ c.generation = None
          \/ \E x \in States : c.generation = durable.manifest[x].generation
      BY <2>1, RestoredNamed
    <3>2. Known(promotions, c.generation)
      BY <1>0, <3>1, KnownIds DEF Numbered
    <3> QED
      BY <1>0, <2>1, <2>4, <3>2, RestoredTyped, RestoredNamed
  <2> QED
    BY <2>2, <2>5, AgreesKept
<1>8. ASSUME Publication, ~Swap, ~Bind PROVE published' = published
  BY <1>8 DEF Publication, BeginPublication, DrainFails, Boot, StageArtifacts, PromoteWorking,
     Commit, Refuse, EndBind
<1>9. ASSUME Executor \/ (\E t \in Threads : Put(t) \/ PutFails(t))
             \/ (\E s \in States : Stage(s) \/ OtherUser(s))
      PROVE  published' = published
  BY <1>9 DEF Executor, StartSnapshot, EndSnapshot, WriteIdentity, Put, PutFails, Stage, OtherUser
<1> QED
  BY <1>1, <1>2, <1>3, <1>4, <1>5, <1>6, <1>7, <1>8, <1>9 DEF Next, Requests

LEMMA QueueAgrees ==
  ASSUME Inv, Publishing, Naming, Paired, Next
  PROVE  \A i \in DOMAIN queue' : Agrees(durable', queue'[i].context)
<1>0. /\ Types /\ published \in Contexts /\ Numbered /\ queue \in Seq(Tasks)
      /\ Agrees(durable', published')
  BY PublishedAgrees DEF Inv, Types, Naming
<1>1. ASSUME NEW j \in DOMAIN queue PROVE Agrees(durable', queue[j].context)
  BY <1>0, TaskFields, AgreesKept DEF Numbered, Paired
<1>2. CASE queue' = queue
  BY <1>1, <1>2
<1>3. CASE queue # << >> /\ queue' = Tail(queue)
  BY <1>0, <1>1, <1>3, TailContexts
<1>4. CASE queue' = << >>
  BY <1>4
<1>5. ASSUME NEW m \in Contexts, published' = m, NEW q \in {queue, Staled(queue)},
             NEW kind \in {"snapshot", "identity"}, Submit(q, Task(kind, m))
      PROVE  \A i \in DOMAIN queue' : Agrees(durable', queue'[i].context)
  <2>1. \A i \in DOMAIN queue' : \/ queue'[i].context = m
                                 \/ \E j \in DOMAIN queue : queue'[i].context = queue[j].context
    BY <1>0, <1>5, SubmitContexts
  <2> QED
    BY <1>0, <1>1, <1>5, <2>1
<1>6. ASSUME NEW s \in States, Activate(s)
      PROVE  \A i \in DOMAIN queue' : Agrees(durable', queue'[i].context)
  <2>1. PICK c \in {Activated(s), Recovered(s)} :
          published' = c
          /\ Submit(IF published.state = s THEN queue ELSE Staled(queue), Task("snapshot", c))
    BY <1>6 DEF Activate
  <2>2. c \in Contexts
    BY <1>0, <2>1, ActivatedTyped, RecoveredTyped
  <2>3. PICK q \in {queue, Staled(queue)} : Submit(q, Task("snapshot", c))
    BY <2>1
  <2> QED
    BY <1>5, <2>1, <2>2, <2>3
<1>7. ASSUME NEW t \in Teams, SelectTeam(t)
      PROVE  \A i \in DOMAIN queue' : Agrees(durable', queue'[i].context)
  <2>1. PICK c : c = [published EXCEPT !.team = t, !.generation = None]
    OBVIOUS
  <2>2. c \in Contexts
    BY <1>0, <2>1, Absent DEF Contexts, Maybe
  <2>3. published' = c /\ Submit(Staled(queue), Task("identity", c))
    BY <1>7, <2>1 DEF SelectTeam
  <2> QED
    BY <1>5, <2>2, <2>3
<1>8. ASSUME Publication \/ (\E t \in Threads : Put(t) \/ PutFails(t)) \/ Restart
             \/ (\E s \in States : Stage(s) \/ OtherUser(s)) \/ EndSnapshot
      PROVE  queue' = queue
  <2>1. ASSUME Publication PROVE queue' = queue
    BY <2>1 DEF Publication, BeginPublication, DrainFails, Boot, StageArtifacts, PromoteWorking,
       Commit, Refuse, Swap, Bind, EndBind, Stays
  <2> QED
    BY <1>8, <2>1 DEF Put, PutFails, Restart, Stage, OtherUser, EndSnapshot
<1>9. ASSUME StartSnapshot \/ WriteIdentity PROVE queue # << >> /\ queue' = Tail(queue)
  BY <1>9 DEF StartSnapshot, WriteIdentity
<1>10. ASSUME Crash PROVE queue' = << >>
  BY <1>10 DEF Crash
<1> QED
  BY <1>2, <1>3, <1>4, <1>6, <1>7, <1>8, <1>9, <1>10 DEF Next, Requests, Executor

-----------------------------------------------------------------------------
(* The context the owner of the sequence writes.                            *)
LEMMA OwnerStays ==
  ASSUME Inv, Publishing, Next, phase' \in {"boot", "bind", "commit"}, ~Boot, ~Commit, ~Bind
  PROVE  /\ phase' = phase /\ Owner'.context = Owner.context
         /\ phase = "boot" => published' = published /\ faults' = faults
<1> DEFINE Goal == /\ phase' = phase /\ Owner'.context = Owner.context
                   /\ phase = "boot" => published' = published /\ faults' = faults
<1>1. ASSUME Requests PROVE Goal
  <2>1. ~(\E s \in States : Activate(s) \/ Stage(s)) /\ ~(\E t \in Teams : SelectTeam(t))
    BY DEF Activate, Stage, SelectTeam, Request, Free
  <2>2. ASSUME NEW s \in States, OtherUser(s) PROVE Goal
    BY <2>2 DEF OtherUser, Owner
  <2> QED
    BY <1>1, <2>1, <2>2 DEF Requests
<1>2. ASSUME Executor PROVE Goal
  <2>1. ~WriteIdentity
    BY DEF WriteIdentity, Free
  <2>2. StartSnapshot \/ EndSnapshot
    BY <1>2, <2>1 DEF Executor
  <2>3. Kept("owner")
    BY <2>2, OwnerApart
  <2> QED
    BY <2>2, <2>3 DEF StartSnapshot, EndSnapshot, Kept, Owner
<1>3. ~Publication
  BY DEF Publication, BeginPublication, DrainFails, StageArtifacts, PromoteWorking, Refuse, Swap,
     EndBind, Abandon
<1>4. ASSUME NEW t \in Threads, Put(t) PROVE Goal
  BY <1>4, PutContexts, Threads2 DEF Put, Owner
<1>5. ASSUME NEW t \in Threads, PutFails(t) PROVE Goal
  <2>1. t = "queue" /\ phase' = phase
    BY <1>5 DEF PutFails, Threads
  <2>2. Writing("queue")
    BY <1>5, <2>1 DEF PutFails, Writing, Idle
  <2>3. phase # "boot"
    BY <2>2, NotSealed DEF Sealed
  <2>4. Kept("owner")
    BY <1>5, <2>1, OwnerApart
  <2> QED
    BY <2>1, <2>3, <2>4 DEF Kept, Owner
<1>6. ~Crash /\ ~Restart
  BY DEF Crash, Restart, Publishing, Down
<1> QED
  BY <1>1, <1>2, <1>3, <1>4, <1>5, <1>6 DEF Next

LEMMA BootAgrees ==
  ASSUME Inv, Publishing, CalmInv, Naming, Paired, Boot, NeedsBoot,
         faults = 0 \/ published.generation # None
  PROVE  Agrees(durable, [published EXCEPT !.generation = BootGeneration])
<1>0. /\ Types /\ published \in Contexts /\ durable \in Stores /\ Terminal(published)
      /\ Presenting /\ phase = "drain" /\ Placed(published)
  BY DEF Inv, Types, Naming, NeedsBoot, Boot
<1>1. published.state \in States
  BY <1>0, ContextFields DEF Terminal, Placed
<1>2. PICK m : m = durable.manifest[published.state]
  OBVIOUS
<1>3. PICK c : c = [published EXCEPT !.generation = BootGeneration]
  OBVIOUS
<1>4. /\ c \in Contexts /\ c.generation = BootGeneration
      /\ c.state = published.state /\ c.team = published.team /\ c.forecast = published.forecast
      /\ c.simulation = published.simulation /\ c.value = published.value
  BY <1>0, <1>3, BootTyped DEF Contexts
<1>5. CASE published.generation # None
  <2>1. c.generation = published.generation
    BY <1>4, <1>5 DEF BootGeneration
  <2>2. c = published
    BY <1>0, <1>4, <2>1, ContextFields
  <2> QED
    BY <1>3, <2>2 DEF Paired
<1>6. CASE published.generation = None /\ m.generation # None /\ m.team = published.team
  <2>1. c.generation = m.generation
    BY <1>2, <1>4, <1>6 DEF BootGeneration
  <2>2. faults = 0 /\ Says(durable, published)
    BY <1>0, <1>6 DEF CalmInv, Calm, Telling
  <2>3. m # NoManifest
    BY <1>6 DEF NoManifest, Manifest, NoContext
  <2>4. m.forecast = published.forecast /\ m.value = published.value
    BY <1>0, <1>2, <2>2, <2>3 DEF Says
  <2>5. m.simulation
    BY <1>1, <1>2, <2>3 DEF Inv, ManifestBacked
  <2>6. m.simulation = TRUE /\ published.simulation = TRUE
    <3>1. m.simulation \in BOOLEAN
      BY <1>0, <1>1, <1>2 DEF Stores, Manifests
    <3> QED
      BY <1>0, <2>5, <3>1, ContextFields DEF Terminal
  <2>7. Matches(durable, published.state) /\ Shaped(durable, published.state)
    BY <1>0, <1>1, <2>2 DEF Paired, Watched, Lent, Presenting
  <2>8. PICK p \in Contexts : p = durable.presented[published.state]
    BY <1>0, <1>1 DEF Stores
  <2>9. ASSUME p.generation = c.generation PROVE p = c
    <3>1. Manifest(p) = m
      BY <1>2, <1>6, <2>1, <2>3, <2>7, <2>8, <2>9 DEF Matches
    <3>2. /\ p.forecast = m.forecast /\ p.simulation = m.simulation /\ p.value = m.value
          /\ p.team = m.team
      BY <3>1 DEF Manifest
    <3>3. p.state = published.state
      BY <1>6, <2>1, <2>7, <2>8, <2>9 DEF Shaped
    <3> QED
      BY <1>4, <1>6, <2>4, <2>6, <2>9, <3>2, <3>3, ContextFields
  <2> QED
    BY <1>3, <1>4, <2>8, <2>9 DEF Agrees
<1>7. CASE published.generation = None /\ ~(m.generation # None /\ m.team = published.team)
  <2>1. c.generation = <<"bootstrap", published.state>>
    BY <1>2, <1>4, <1>7 DEF BootGeneration
  <2> QED
    BY <1>0, <1>3, <1>4, <2>1, ForeignAgrees
<1> QED
  BY <1>5, <1>6, <1>7

LEMMA OwnerAgrees ==
  ASSUME Inv, Publishing, CalmInv, Naming, Paired, Next,
         phase' \in {"bind", "commit"} \/ (phase' = "boot" /\ ~Lent')
  PROVE  Agrees(durable', Owner'.context)
<1>0. /\ Types /\ published \in Contexts /\ working \in Contexts /\ Numbered /\ Presenting
      /\ Placed(published)
  BY DEF Inv, Types, Naming
<1>1. CASE Boot
  <2>1. durable' = durable /\ published' = published /\ faults' = faults
    BY <1>1 DEF Boot, Stays
  <2>2. NeedsBoot /\ phase' = "boot"
    BY <1>1 DEF Boot
  <2>3. faults = 0 \/ published.generation # None
    BY <2>1, <2>2 DEF Lent
  <2>4. PICK c : c = [published EXCEPT !.generation = BootGeneration]
    OBVIOUS
  <2>5. c \in Contexts /\ Placed(c) /\ Terminal(c) /\ c.generation # None
    <3>1. c \in Contexts /\ Placed(c) /\ SameEvidence(c, published)
      BY <1>0, <2>2, <2>4, BootTyped
    <3>2. c.generation = BootGeneration
      BY <1>0, <2>4 DEF Contexts
    <3>3. BootGeneration # None
      <4>1. published.state \in Nat
        BY <1>0, ContextFields, Times
      <4> QED
        BY <4>1, Ids DEF BootGeneration
    <3> QED
      BY <2>2, <3>1, <3>2, <3>3 DEF SameEvidence, Terminal, NeedsBoot
  <2>6. BeginWrite("owner", c, TRUE)
    BY <1>1, <2>2, <2>4 DEF Boot
  <2>7. Owner'.context = c
    BY <1>0, <2>5, <2>6, LaidBegins
  <2> QED
    BY <1>1, <2>1, <2>2, <2>3, <2>4, <2>7, BootAgrees
<1>2. CASE Commit
  <2>1. phase = "promote" /\ durable' = durable /\ BeginWrite("owner", Target, TRUE)
    BY <1>2 DEF Commit
  <2>2. PICK c : c = Target
    OBVIOUS
  <2>3. c \in Contexts /\ Placed(c) /\ c.generation # None /\ c.state = working.state
    BY <1>0, <2>2, TargetFields
  <2>4. Owner'.context = c
    BY <1>0, <2>1, <2>2, <2>3, BeginContexts, Threads2 DEF Owner
  <2>5. durable.presented[c.state] = c
    BY <1>0, <2>1, <2>2, <2>3 DEF Presenting
  <2> QED
    BY <2>1, <2>4, <2>5 DEF Agrees
<1>3. CASE Bind
  <2>1. BeginWrite("owner", [published EXCEPT !.generation = Promoted], TRUE)
        /\ published' = [published EXCEPT !.generation = Promoted]
    BY <1>3 DEF Bind
  <2>2. PICK c : c = [published EXCEPT !.generation = Promoted]
    OBVIOUS
  <2>3. c \in Contexts /\ Placed(c) /\ c.generation # None
    <3>1. c \in Contexts /\ Placed(c)
      BY <1>0, <2>2, PromotedTyped
    <3>2. c.generation = Promoted
      BY <1>0, <2>2 DEF Contexts
    <3> QED
      BY <1>0, <3>1, <3>2, PromotedTyped
  <2>4. Owner'.context = c
    BY <1>0, <2>1, <2>2, <2>3, BeginContexts, Threads2 DEF Owner
  <2> QED
    BY <2>1, <2>2, <2>4, PublishedAgrees
<1>4. CASE ~Boot /\ ~Commit /\ ~Bind
  <2>1. /\ phase' = phase /\ Owner'.context = Owner.context
        /\ phase = "boot" => published' = published /\ faults' = faults
    BY <1>4, OwnerStays
  <2>2. Agrees(durable, Owner.context)
    BY <2>1 DEF Paired, Lent
  <2>3. Owner.context \in Contexts /\ Known(promotions, Owner.context.generation)
    BY <1>0, Threads2 DEF Types, Writes, Numbered, Owner
  <2> QED
    BY <2>1, <2>2, <2>3, AgreesKept
<1> QED
  BY <1>1, <1>2, <1>3, <1>4


-----------------------------------------------------------------------------
(* What a step stops watching, and what it puts.                            *)
LEMMA SealedFault ==
  ASSUME Publishing, phase \in Sealed, NEW t \in Threads, PutFails(t)
  PROVE  t = "owner"
<1>1. CASE t = "queue"
  <2>1. Writing("queue")
    BY <1>1 DEF PutFails, Writing, Idle
  <2> QED
    BY <2>1, NotSealed
<1> QED
  BY <1>1 DEF Threads

LEMMA FaultsStep ==
  ASSUME Next
  PROVE  \/ faults' = faults
         \/ faults' = faults + 1 /\ (Crash \/ \E t \in Threads : PutFails(t))
<1>1. ASSUME Requests PROVE faults' = faults
  BY <1>1 DEF Requests, Activate, Stage, SelectTeam, OtherUser
<1>2. ASSUME Executor PROVE faults' = faults
  BY <1>2 DEF Executor, StartSnapshot, EndSnapshot, WriteIdentity
<1>3. ASSUME Publication PROVE faults' = faults
  BY <1>3 DEF Publication, BeginPublication, DrainFails, Boot, StageArtifacts, PromoteWorking,
     Commit, Refuse, Swap, Bind, EndBind, Stays
<1>4. ASSUME NEW t \in Threads, Put(t) PROVE faults' = faults
  BY <1>4 DEF Put
<1>5. ASSUME Crash \/ (\E t \in Threads : PutFails(t)) PROVE faults' = faults + 1
  BY <1>5 DEF Crash, PutFails, Fault
<1>6. ASSUME Restart PROVE faults' = faults
  BY <1>6 DEF Restart
<1> QED
  BY <1>1, <1>2, <1>3, <1>4, <1>5, <1>6 DEF Next

(* Without a crash, the published state never goes back.                    *)
LEMMA PublishedGrows ==
  ASSUME Inv, Publishing, Next, ~Crash
  PROVE  published.state <= published'.state \/ published.state = 0
<1>0. /\ Types /\ published \in Contexts /\ working \in Contexts /\ published.state \in Nat
      /\ durable \in Stores
  BY ContextFields, Times DEF Inv, Types
<1>1. CASE published'.state = published.state
  BY <1>0, <1>1
<1>2. ASSUME NEW s \in States, Activate(s) PROVE published.state <= published'.state
  <2>1. published' \in {Activated(s), Recovered(s)} /\ s >= published.state
    BY <1>2 DEF Activate
  <2>2. Recovered(s).state = s
    <3>1. Recovered(s).state \in {Activated(s).state, s}
      <4>1. \A team : Evidence(durable, s, team).state = s
        BY DEF Evidence
      <4>2. PICK a \in Contexts : a = Activated(s)
        BY <1>0, ActivatedTyped
      <4>3. \A team : [a EXCEPT !.team = team].state = a.state
        BY DEF Contexts
      <4> QED
        BY <4>1, <4>2, <4>3 DEF Recovered
    <3> QED
      BY <1>0, <3>1, ActivatedTyped
  <2> QED
    BY <1>0, <2>1, <2>2, ActivatedTyped, Times
<1>3. ASSUME NEW t \in Teams, SelectTeam(t) PROVE published'.state = published.state
  <2>1. published' = [published EXCEPT !.team = t, !.generation = None]
    BY <1>3 DEF SelectTeam
  <2> QED
    BY <1>0, <2>1 DEF Contexts
<1>4. ASSUME Swap PROVE published.state <= published'.state
  <2>1. phase = "commit" /\ published' = Target
    BY <1>4 DEF Swap
  <2>2. published.state <= working.state
    BY <2>1 DEF Publishing, Seeded
  <2> QED
    BY <1>0, <2>1, <2>2, TargetFields
<1>5. ASSUME Bind PROVE published'.state = published.state
  <2>1. published' = [published EXCEPT !.generation = Promoted]
    BY <1>5 DEF Bind
  <2> QED
    BY <1>0, <2>1 DEF Contexts
<1>6. ASSUME Restart PROVE published.state = 0
  BY <1>6 DEF Restart, Publishing, Down, NoContext
<1>7. ASSUME Publication, ~Swap, ~Bind PROVE published' = published
  BY <1>7 DEF Publication, BeginPublication, DrainFails, Boot, StageArtifacts, PromoteWorking,
     Commit, Refuse, EndBind
<1>8. ASSUME Executor \/ (\E t \in Threads : Put(t) \/ PutFails(t))
             \/ (\E s \in States : Stage(s) \/ OtherUser(s))
      PROVE  published' = published
  BY <1>8 DEF Executor, StartSnapshot, EndSnapshot, WriteIdentity, Put, PutFails, Stage, OtherUser
<1> QED
  BY <1>1, <1>2, <1>3, <1>4, <1>5, <1>6, <1>7, <1>8 DEF Next, Requests

(* A publication that was lent an id goes on to its swap, or to a fault.    *)
LEMMA LentStays ==
  ASSUME Inv, Publishing, Next, Lent, faults' = faults, ~Swap
  PROVE  Lent' /\ published' = published
<1>0. phase \in Sealed /\ up /\ Checkpoint = Idle /\ queue = << >> /\ published.generation = None
  BY SealedStill DEF Lent, Sealed
<1>1. ASSUME Requests PROVE phase' = phase /\ published' = published
  BY <1>0, <1>1 DEF Requests, Activate, Stage, SelectTeam, OtherUser, Request, Free, Sealed
<1>2. ~Executor
  BY <1>0 DEF Executor, StartSnapshot, EndSnapshot, WriteIdentity, Writing, Checkpoint
<1>3. ASSUME Publication PROVE phase' \in Sealed /\ published' = published
  <2>1. ~BeginPublication /\ ~DrainFails /\ ~Boot /\ ~Bind /\ ~EndBind
    BY <1>0 DEF BeginPublication, DrainFails, Boot, Bind, EndBind, Free, Sealed
  <2>2. ~Refuse
    <3>1. ASSUME phase = "promote" PROVE SeedHolds
      BY <1>0, <3>1 DEF Publishing, Seeded, SeedHolds
    <3> QED
      BY <3>1 DEF Refuse
  <2> QED
    BY <1>3, <2>1, <2>2 DEF Publication, StageArtifacts, PromoteWorking, Commit, Sealed
<1>4. ASSUME NEW t \in Threads, Put(t) PROVE phase' = phase /\ published' = published
  BY <1>4 DEF Put
<1>5. ~Crash /\ ~(\E t \in Threads : PutFails(t)) /\ ~Restart
  <2>1. faults \in Nat
    BY DEF Inv, Types
  <2>2. ~Fault
    BY <2>1 DEF Fault
  <2> QED
    BY <1>0, <2>2 DEF Crash, PutFails, Restart
<1>6. phase' \in Sealed /\ published' = published
  BY <1>0, <1>1, <1>2, <1>3, <1>4, <1>5 DEF Next
<1> QED
  BY <1>0, <1>6 DEF Lent, Sealed

LEMMA WatchedBefore ==
  ASSUME Inv, Publishing, Next, faults' <= 1, ~Swap, NEW x \in States, Watched(x)'
  PROVE  Watched(x)
<1>0. /\ published.state \in Nat /\ published'.state \in Nat /\ x \in Nat /\ faults \in Nat
  <2>1. Inv'
    BY RequestsKeep, ExecutorKeeps, PublicationKeeps, FaultsKeep, PutKeeps DEF Next, Inv
  <2>2. published \in Contexts /\ published' \in Contexts
    BY <2>1 DEF Inv, Types
  <2> QED
    BY <2>2, ContextFields, Times DEF Inv, Types
<1>1. CASE faults = 0
  BY <1>1 DEF Watched, Lent
<1>2. CASE faults # 0
  <2>1. faults' = faults /\ ~Crash
    <3>1. faults' # faults + 1
      BY <1>0, <1>2
    <3>2. Crash => faults' = faults + 1
      BY DEF Crash, Fault
    <3> QED
      BY <3>1, <3>2, FaultsStep
  <2>2. published.state <= x
    <3>1. published'.state <= x
      BY <1>2, <2>1 DEF Watched
    <3> QED
      BY <1>0, <2>1, <3>1, PublishedGrows
  <2>3. ~(Lent /\ x = published.state)
    BY <2>1, LentStays DEF Watched
  <2> QED
    BY <2>2, <2>3 DEF Watched
<1> QED
  BY <1>1, <1>2

LEMMA PutMatches ==
  ASSUME Inv, Publishing, Naming, Paired, NEW t \in Threads, Put(t), NEW x \in States,
         Watched(x), durable'.manifest[x] # durable.manifest[x]
  PROVE  Matches(durable', x)
<1>1. PICK b : b = write[t].context
  OBVIOUS
<1>2. /\ durable'.manifest[x] = Manifest(b) /\ x = b.state /\ "manifest" \in Todo(write[t])
      /\ durable'.presented = durable.presented
  BY <1>1, PutContexts
<1>3. Agrees(durable, b)
  <2>1. CASE t = "queue"
    BY <1>1, <2>1 DEF Paired, Checkpoint
  <2>2. CASE t = "owner"
    <3>1. "manifest" \in Todo(Owner) /\ Owner.context = b
      BY <1>1, <1>2, <2>2 DEF Owner
    <3>2. phase \in {"boot", "bind", "commit"}
      <4>1. Todo(Idle) = {}
        BY DEF Todo, Idle
      <4>2. phase \in Phases
        BY DEF Inv, Types
      <4>3. phase # "stage"
        BY <3>1 DEF Publishing, Owning
      <4> QED
        BY <3>1, <4>1, <4>2, <4>3 DEF Publishing, Owning, Phases
    <3>3. phase = "boot" => x = published.state
      BY <1>2, <3>1 DEF Publishing, Owning, Granted, Place
    <3> QED
      BY <3>1, <3>2, <3>3 DEF Paired, Watched
  <2> QED
    BY <2>1, <2>2 DEF Threads
<1>4. x # 0 /\ Manifest(b).generation = b.generation
  BY Times DEF Manifest
<1> QED
  BY <1>2, <1>3, <1>4 DEF Agrees, Matches

LEMMA WatchedMatches ==
  ASSUME Inv, Publishing, Naming, Paired, Next, faults' <= 1, NEW x \in States, Watched(x)'
  PROVE  Matches(durable', x)
<1>0. Types /\ Presenting /\ working \in Contexts /\ published.state \in Nat /\ x \in Nat
  BY ContextFields, Times DEF Inv, Types, Naming
<1>1. CASE ~Swap
  <2>1. Watched(x)
    BY <1>1, WatchedBefore
  <2>2. Matches(durable, x)
    BY <2>1 DEF Paired
  <2>3. CASE durable'.manifest[x] = durable.manifest[x]
    BY <2>2, <2>3, MatchesKept
  <2>4. CASE durable'.manifest[x] # durable.manifest[x]
    <3>1. PICK t \in Threads : Put(t)
      BY <2>4, StoreStep DEF SameStore
    <3> QED
      BY <2>1, <2>4, <3>1, PutMatches
  <2> QED
    BY <2>3, <2>4
<1>2. CASE Swap
  <2>1. /\ phase = "commit" /\ Owner.todo = << >> /\ durable' = durable /\ published' = Target
        /\ faults' = faults
    BY <1>2 DEF Swap, OwnerWritten, Owner, Stays
  <2>2. Laid /\ Owner.context = Target
    BY <2>1 DEF Publishing, Owning
  <2>3. durable.manifest[working.state] = Manifest(Target)
    BY <1>0, <2>1, <2>2, InTodo, TargetFields DEF Laid
  <2>4. durable.presented[working.state] = Target
    BY <2>1 DEF Presenting, Naming
  <2>5. CASE x = working.state
    BY <2>1, <2>3, <2>4, <2>5 DEF Matches
  <2>6. CASE x # working.state
    <3>1. published.state <= working.state /\ working.state \in Nat
      BY <2>1, Times DEF Publishing, Seeded
    <3>2. Target.state = working.state
      BY <1>0, TargetFields
    <3>3. faults # 0 => working.state <= x
      BY <2>1, <3>2 DEF Watched
    <3>4. faults # 0 => published.state <= x /\ x # published.state
      BY <1>0, <2>6, <3>1, <3>3
    <3>5. Watched(x)
      BY <3>4 DEF Watched, Lent
    <3> QED
      BY <2>1, <3>5 DEF Paired
  <2> QED
    BY <2>5, <2>6
<1> QED
  BY <1>1, <1>2

-----------------------------------------------------------------------------
PairedInv == faults <= 1 => Paired

LEMMA PairedSteps ==
  ASSUME Inv, Publishing, CalmInv, Naming, PairedInv, Next
  PROVE  PairedInv'
<1> SUFFICES ASSUME faults' <= 1 PROVE Paired'
  BY DEF PairedInv
<1>1. faults <= 1
  <2>1. faults \in Nat
    BY DEF Inv, Types
  <2> QED
    BY <2>1, FaultsStep
<1>2. Paired
  BY <1>1 DEF PairedInv
<1> QED
  BY <1>2, PublishedAgrees, CheckpointAgrees, QueueAgrees, OwnerAgrees, WatchedMatches DEF Paired

THEOREM PairingInvariance == Spec => [](Inv /\ Publishing /\ CalmInv /\ Naming /\ PairedInv)
<1>1. Init => Naming /\ PairedInv
  <2> SUFFICES ASSUME Init PROVE Naming /\ PairedInv
    OBVIOUS
  <2>1. /\ published = NoContext /\ working = NoContext /\ queue = << >>
        /\ write = [t \in Threads |-> Idle] /\ phase = "idle" /\ durable = EmptyStore
        /\ promotions = 0 /\ promotions \in Nat /\ faults = 0
    BY DEF Init
  <2>2. /\ \A t \in Threads : write[t].context = NoContext
        /\ Owner = Idle /\ Checkpoint = Idle /\ Idle.context = NoContext
    BY <2>1, Threads2 DEF Idle, Owner, Checkpoint
  <2>3. /\ \A x \in States : durable.manifest[x] = NoManifest /\ durable.presented[x] = NoContext
        /\ NoManifest.generation = None /\ NoContext.generation = None /\ NoContext.state = 0
        /\ NoContext.forecast = None
    BY <2>1 DEF EmptyStore, NoManifest, Manifest, NoContext
  <2>4. Numbered
    <3>1. Known(promotions, None)
      BY <2>1, KnownIds
    <3> QED
      BY <2>1, <2>2, <2>3, <3>1 DEF Numbered
  <2>5. Presenting /\ Rooted(durable, published)
    BY <2>1, <2>3 DEF Presenting, Shaped, Rooted
  <2>6. Paired
    BY <2>1, <2>2, <2>3 DEF Paired, Agrees, Matches, Lent
  <2> QED
    BY <2>4, <2>5, <2>6 DEF Naming, PairedInv
<1>2. Naming /\ PairedInv /\ UNCHANGED vars => Naming' /\ PairedInv'
  <2> SUFFICES ASSUME Naming, PairedInv, UNCHANGED vars PROVE Naming' /\ PairedInv'
    OBVIOUS
  <2>1. /\ durable' = durable /\ published' = published /\ working' = working /\ queue' = queue
        /\ write' = write /\ phase' = phase /\ promotions' = promotions /\ faults' = faults
    BY DEF vars
  <2>2. Target' = Target /\ Owner' = Owner /\ Checkpoint' = Checkpoint
    BY <2>1 DEF Target, LastPromoted, Owner, Checkpoint
  <2>3. Numbered'
    BY <2>1 DEF Naming, Numbered
  <2>4. Presenting' /\ Rooted(durable', published')
    BY <2>1, <2>2 DEF Naming, Presenting
  <2>5. faults' <= 1 => Paired'
    BY <2>1, <2>2 DEF PairedInv, Paired, Watched, Lent
  <2> QED
    BY <2>3, <2>4, <2>5 DEF Naming, PairedInv
<1>3. Inv /\ Publishing /\ CalmInv /\ Naming /\ PairedInv /\ [Next]_vars => Naming' /\ PairedInv'
  BY <1>2, NamingSteps, PairedSteps
<1> QED
  BY <1>1, <1>3, CalmInvariance, PTL DEF Spec

(* What readers see is served with its own surfaces, and with no others, as *)
(* long as no more than one write has failed and no more than one crash.    *)
THEOREM SurfacesArePaired == Spec => []SurfacesPaired
<1>1. PairedInv => SurfacesPaired
  <2> SUFFICES ASSUME faults <= 1, Paired PROVE SurfacesCurrent
    BY DEF PairedInv, SurfacesPaired
  <2>1. Agrees(durable, published)
    BY DEF Paired
  <2> QED
    BY <2>1 DEF Agrees, SurfacesCurrent
<1> QED
  BY <1>1, PairingInvariance, PTL
=============================================================================
