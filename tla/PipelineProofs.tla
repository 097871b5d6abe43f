---------------------------- MODULE PipelineProofs ----------------------------
(***************************************************************************)
(* Proofs about Pipeline, for any number of daemon runs and of events: its *)
(* type invariant, that it implements AttestedCredit whatever the network  *)
(* loses, and that no honest event is refused while nothing is lost.       *)
(***************************************************************************)
EXTENDS Pipeline, SequenceTheorems, WellFoundedInduction, TLAPS

-----------------------------------------------------------------------------
(* Induction, and the recursion of ingest over its events. *)

LEMMA LeastOf ==
  ASSUME NEW T \in SUBSET Nat, T # {}
  PROVE  \E x \in T : \A y \in T : x <= y
<1> DEFINE R == OpToRel(<, Nat)
<1>1. IsWellFoundedOn(R, Nat) BY NatLessThanWellFounded
<1>2. PICK x \in T : \A y \in T : ~ (<<y, x>> \in R)
  <2> HIDE DEF R
  <2> QED BY <1>1, WFMin
<1>3. \A y \in T : ~(y < x) BY <1>2 DEF OpToRel
<1> QED BY <1>3

\* Induction up to n, for a property given as the set of numbers that have it.
LEMMA UpTo ==
  ASSUME NEW n \in Nat, NEW T, 0 \in T,
         \A i \in 0..(n - 1) : i \in T => i + 1 \in T
  PROVE  \A i \in 0..n : i \in T
<1> SUFFICES ASSUME (0..n) \ T # {} PROVE FALSE
  OBVIOUS
<1>1. (0..n) \ T \in SUBSET Nat OBVIOUS
<1>2. PICK x \in (0..n) \ T : \A y \in (0..n) \ T : x <= y BY <1>1, LeastOf
<1>3. x # 0 /\ x - 1 \in 0..(n - 1) BY <1>2
<1>4. x - 1 \in T BY <1>2, <1>3
<1> QED BY <1>2, <1>3, <1>4

\* The states the server goes through while it judges the events of a request.
LEMMA IngestSteps ==
  ASSUME NEW s, NEW events, Len(events) \in Nat
  PROVE  \E after :
           /\ after[0] = s
           /\ \A i \in 1..Len(events) : after[i] = Ingested(after[i - 1], events[i])
           /\ IngestedAll(s, events) = after[Len(events)]
<1> DEFINE N == Len(events)
           Def(f, n) == [i \in 0..n |-> IF i = 0 THEN s ELSE Ingested(f[i - 1], events[i])]
           T == {n \in 0..N : \E f : f = Def(f, n)}
<1>1. N \in Nat OBVIOUS
<1>2. 0 \in T
  <2> DEFINE g == [i \in 0..0 |-> s]
  <2>1. \A i \in 0..0 : i = 0 OBVIOUS
  <2>2. g = Def(g, 0) BY <2>1
  <2>3. 0 \in 0..N OBVIOUS
  <2> HIDE DEF g, Def, N
  <2> QED BY <2>2, <2>3
<1>3. ASSUME NEW n \in 0..(N - 1), n \in T PROVE n + 1 \in T
  <2>1. PICK f : f = Def(f, n) BY <1>3
  <2> DEFINE g == [i \in 0..(n + 1) |-> IF i <= n THEN f[i] ELSE Ingested(f[n], events[n + 1])]
  <2>2. \A i \in 0..(n + 1) :
          g[i] = IF i = 0 THEN s ELSE Ingested(g[i - 1], events[i])
    <3> TAKE i \in 0..(n + 1)
    <3>1. CASE i = 0 BY <2>1, <3>1
    <3>2. CASE i # 0 /\ i <= n
      <4>1. g[i] = f[i] /\ g[i - 1] = f[i - 1] BY <3>2
      <4>2. f[i] = Ingested(f[i - 1], events[i]) BY <2>1, <3>2
      <4> HIDE DEF g
      <4> QED BY <3>2, <4>1, <4>2
    <3>3. CASE i = n + 1
      <4>1. g[i] = Ingested(f[n], events[n + 1]) /\ g[i - 1] = f[n] BY <3>3
      <4> HIDE DEF g
      <4> QED BY <3>3, <4>1
    <3> QED BY <3>1, <3>2, <3>3
  <2>3. g = Def(g, n + 1)
    <3>1. g = [i \in 0..(n + 1) |-> g[i]] OBVIOUS
    <3> HIDE DEF g
    <3> QED BY <2>2, <3>1
  <2>4. n + 1 \in 0..N BY <1>1, <1>3
  <2> HIDE DEF g
  <2> QED BY <2>3, <2>4
<1>4. N \in T
  <2> HIDE DEF T, N
  <2>1. \A n \in 0..(N - 1) : n \in T => n + 1 \in T BY <1>3
  <2>2. \A n \in 0..N : n \in T BY <1>1, <1>2, <2>1, UpTo
  <2> QED BY <1>1, <2>2
<1> DEFINE after == CHOOSE f : f = Def(f, N)
<1>5. after = Def(after, N) BY <1>4
<1>6. IngestedAll(s, events) = after[N] BY DEF IngestedAll
<1> HIDE DEF after
<1> QED BY <1>1, <1>5, <1>6

-----------------------------------------------------------------------------
(* The inductive invariant. *)

\* The chain head after the first c events of run k, the event with number j
\* (from 1), m events in a row after the first a, and the server's record of
\* a device that has c events credited.
HeadAfter(k, c) == IF c = 0 THEN GENESIS_PREV ELSE <<k, c - 1>>
Event(k, j) == NewEvent(k, j - 1, HeadAfter(k, j - 1), 1)
Chain(k, a, m) == [i \in 1..m |-> Event(k, a + i)]
RecordOf(k, c) == [key |-> k, head |-> HeadAfter(k, c), ctr |-> c - 1]

\* The server once it knows the devices D and has credited c[k] events of each.
ServerState(c, D, ids, refused) ==
  [devices |-> [k \in D |-> RecordOf(k, c[k])], seen |-> ids,
   credited |-> [k \in Keys |-> Chain(k, 0, c[k])], refused |-> refused]

Known == DOMAIN server.devices
Credited == [k \in Keys |-> Len(server.credited[k])]

\* What a run makes is a chain, and its channel holds the end of it.
DaemonInv ==
  /\ up \in BOOLEAN /\ key \in 0..MaxRuns /\ lost \in BOOLEAN
  /\ emitted = [k \in Keys |-> Chain(k, 0, Len(emitted[k]))]
  /\ \A k \in Keys : Len(emitted[k]) \in Nat /\ (k > key => Len(emitted[k]) = 0)
  /\ Len(chan) \in Nat
  /\ up => /\ key \in Keys /\ prev = HeadAfter(key, Len(emitted[key]))
           /\ Len(chan) <= Len(emitted[key])
           /\ chan = Chain(key, Len(emitted[key]) - Len(chan), Len(chan))
           /\ call.kind = "register" => Len(emitted[key]) = 0
  /\ ~up => call = NoCall /\ chan = <<>>

\* A request registers a run, or carries events in a row of one.
IsRequest(r) ==
  /\ r.device \in 1..key
  /\ \/ r = Registration(r.device)
     \/ \E a, m \in 0..Len(emitted[r.device]) :
          a + m <= Len(emitted[r.device]) /\ r = Batch(r.device, Chain(r.device, a, m))
RequestInv ==
  /\ \A r \in wire : IsRequest(r)
  /\ call # NoCall => IsRequest(call) /\ call.device = key

\* The server holds a prefix of what each device made, and the device record
\* that goes with it.
ServerInv ==
  /\ server = ServerState(Credited, Known, server.seen, server.refused)
  /\ Known \subseteq 1..key
  /\ \A k \in Keys : /\ Credited[k] \in Nat /\ Credited[k] <= Len(emitted[k])
                     /\ k \notin Known => Credited[k] = 0
                     /\ Registration(k) \in wire => k \notin Known
  /\ \A k \in Keys, i \in Nat : <<k, i>> \in server.seen => i < Credited[k]

\* While nothing is lost a device has at most one request under way, the events
\* of which are the next ones, and the channel holds those after them.
InOrder ==
  /\ server.refused = {}
  /\ \A q, r \in wire : q.device = r.device => q = r
  /\ \A r \in wire : r.kind = "ingest" =>
       /\ r.device \in Known
       /\ r = Batch(r.device, Chain(r.device, Credited[r.device], Len(r.events)))
  /\ up => /\ \A r \in wire : r.device = key => r = call
           /\ key \in Known \/ (call = Registration(key) /\ call \in wire)
           /\ key \in Known =>
                Credited[key] + (IF call \in wire THEN Len(call.events) ELSE 0) + Len(chan)
                  = Len(emitted[key])

IInv == DaemonInv /\ RequestInv /\ ServerInv /\ (~lost => InOrder)

-----------------------------------------------------------------------------
(* Chains. *)

EventsOf(k) == {Event(k, j) : j \in Nat}

LEMMA ChainIsSeq ==
  ASSUME NEW k, NEW a \in Nat, NEW m \in Nat
  PROVE  /\ Chain(k, a, m) \in Seq(EventsOf(k))
         /\ Len(Chain(k, a, m)) = m
         /\ DOMAIN Chain(k, a, m) = 1..m
         /\ \A i \in 1..m : Chain(k, a, m)[i] = Event(k, a + i)
<1>1. \A i \in 1..m : Event(k, a + i) \in EventsOf(k)
  <2>1. \A i \in 1..m : a + i \in Nat OBVIOUS
  <2> QED BY <2>1 DEF EventsOf
<1>2. Chain(k, a, m) \in [1..m -> EventsOf(k)] BY <1>1 DEF Chain
<1>3. Chain(k, a, m) \in Seq(EventsOf(k)) BY <1>2, SeqDef
<1>4. DOMAIN Chain(k, a, m) = 1..m BY DEF Chain
<1>5. Len(Chain(k, a, m)) = m BY <1>3, <1>4, LenProperties
<1>6. \A i \in 1..m : Chain(k, a, m)[i] = Event(k, a + i) BY DEF Chain
<1> QED BY <1>3, <1>4, <1>5, <1>6

LEMMA ChainGrows ==
  ASSUME NEW k, NEW a \in Nat, NEW m \in Nat
  PROVE  Append(Chain(k, a, m), Event(k, a + m + 1)) = Chain(k, a, m + 1)
<1> DEFINE s == Chain(k, a, m)
           e == Event(k, a + m + 1)
           t == Append(s, e)
<1>1. /\ s \in Seq(EventsOf(k)) /\ Len(s) = m
      /\ \A i \in 1..m : s[i] = Event(k, a + i)
  BY ChainIsSeq
<1>2. a + m + 1 \in Nat OBVIOUS
<1>3. e \in EventsOf(k) BY <1>2 DEF EventsOf
<1>4. /\ t \in Seq(EventsOf(k)) /\ Len(t) = m + 1 /\ t[m + 1] = e
      /\ \A i \in 1..m : t[i] = s[i]
  <2> HIDE DEF s, e
  <2> QED BY <1>1, <1>3, AppendProperties
<1>5. t = [i \in 1..(m + 1) |-> t[i]] BY <1>4, LenProperties
<1> HIDE DEF s, t
<1>6. \A i \in 1..(m + 1) : t[i] = Event(k, a + i)
  <2> TAKE i \in 1..(m + 1)
  <2>1. CASE i \in 1..m BY <1>1, <1>4, <2>1
  <2>2. CASE i = m + 1
    <3>1. a + i = a + m + 1 BY <2>2
    <3> QED BY <1>4, <2>2, <3>1
  <2> QED BY <2>1, <2>2
<1>7. t = Chain(k, a, m + 1) BY <1>5, <1>6 DEF Chain
<1> QED BY <1>7 DEF s, t

\* The new event, whatever stands for its position.
LEMMA EventIs ==
  ASSUME NEW k, NEW c \in Nat
  PROVE  Event(k, c + 1) = NewEvent(k, c, HeadAfter(k, c), 1)
BY DEF Event

-----------------------------------------------------------------------------
(* What ingest does to a server that holds a prefix of every chain. *)

\* The ids of events that are credited are all the server has seen.
SeenOK(c, ids) == \A k \in Keys, i \in Nat : <<k, i>> \in ids => i < c[k]

\* An update of three fields is three updates of one.
LEMMA ServerUpdate ==
  ASSUME NEW s, NEW k, NEW dev, NEW ids, NEW events,
         s = [devices |-> s.devices, seen |-> s.seen, credited |-> s.credited,
              refused |-> s.refused]
  PROVE  [s EXCEPT !.devices[k] = dev, !.seen = ids, !.credited[k] = events]
           = [devices |-> [s.devices EXCEPT ![k] = dev], seen |-> ids,
              credited |-> [s.credited EXCEPT ![k] = events], refused |-> s.refused]
<1> DEFINE t == [s EXCEPT !.devices[k] = dev]
           u == [t EXCEPT !.seen = ids]
           v == [u EXCEPT !.credited[k] = events]
<1>1. t = [devices |-> [s.devices EXCEPT ![k] = dev], seen |-> s.seen,
           credited |-> s.credited, refused |-> s.refused]
  OBVIOUS
<1>2. u = [devices |-> [s.devices EXCEPT ![k] = dev], seen |-> ids,
           credited |-> s.credited, refused |-> s.refused]
  <2> HIDE DEF t
  <2> QED BY <1>1
<1>3. v = [devices |-> [s.devices EXCEPT ![k] = dev], seen |-> ids,
           credited |-> [s.credited EXCEPT ![k] = events], refused |-> s.refused]
  <2> HIDE DEF t, u
  <2> QED BY <1>2
<1>4. v = [s EXCEPT !.devices[k] = dev, !.seen = ids, !.credited[k] = events]
  OBVIOUS
<1> QED BY <1>3, <1>4

\* The next event of a device the server knows is credited.
LEMMA IngestedNextOne ==
  ASSUME NEW c \in [Keys -> Nat], NEW D \in SUBSET Keys, NEW ids, NEW refused,
         SeenOK(c, ids), NEW k \in Keys, NEW j \in Nat \ {0}, k \in D, j = c[k] + 1
  PROVE  Ingested(ServerState(c, D, ids, refused), Event(k, j))
           = ServerState([c EXCEPT ![k] = j], D, ids \cup {<<k, j - 1>>}, refused)
<1> DEFINE s == ServerState(c, D, ids, refused)
           e == Event(k, j)
           n == c[k]
<1>1. n \in Nat OBVIOUS
<1>2. /\ e.key = k /\ e.ctr = j - 1 /\ e.prev = HeadAfter(k, j - 1) /\ e.id = <<k, j - 1>>
      /\ e.digest = <<k, j - 1>>
  BY DEF Event, NewEvent
<1>3. /\ s.devices = [d \in D |-> RecordOf(d, c[d])] /\ s.seen = ids /\ s.refused = refused
      /\ s.credited = [d \in Keys |-> Chain(d, 0, c[d])]
  BY DEF ServerState
<1>4. k \in D => s.devices[k] = RecordOf(k, n) BY <1>3
<1>5. k \in D /\ j = n + 1 OBVIOUS
<1>6. <<k, j - 1>> \notin ids BY <1>1, <1>5 DEF SeenOK
<1>7. Verdict(RecordOf(k, n), ids, e) = "accepted"
  <2>1. /\ e.key = RecordOf(k, n).key /\ e.prev = RecordOf(k, n).head
        /\ e.ctr = RecordOf(k, n).ctr + 1 /\ e.id \notin ids
    BY <1>1, <1>2, <1>5, <1>6 DEF RecordOf
  <2> QED BY <2>1 DEF Verdict
<1>8. Ingested(s, e) = [s EXCEPT !.devices[k] = Advanced(@, e), !.seen = @ \cup {e.id},
                                 !.credited[k] = Append(@, e)]
  BY <1>2, <1>3, <1>4, <1>5, <1>7 DEF Ingested
<1>9. Advanced(RecordOf(k, n), e) = RecordOf(k, j)
  <2>1. j # 0 /\ n = j - 1 BY <1>1, <1>5
  <2>2. HeadAfter(k, j) = <<k, j - 1>> BY <2>1 DEF HeadAfter
  <2>3. /\ Advanced(RecordOf(k, n), e) = [RecordOf(k, n) EXCEPT !.head = <<k, j - 1>>, !.ctr = j - 1]
        /\ RecordOf(k, n) = [key |-> k, head |-> HeadAfter(k, n), ctr |-> n - 1]
    BY <1>2 DEF Advanced, RecordOf
  <2> DEFINE dev == [RecordOf(k, n) EXCEPT !.head = <<k, j - 1>>]
  <2>4. dev = [key |-> k, head |-> <<k, j - 1>>, ctr |-> n - 1] BY <2>3
  <2>5. [dev EXCEPT !.ctr = j - 1] = [key |-> k, head |-> <<k, j - 1>>, ctr |-> j - 1]
    <3> HIDE DEF dev
    <3> QED BY <2>4
  <2>6. [dev EXCEPT !.ctr = j - 1] = [RecordOf(k, n) EXCEPT !.head = <<k, j - 1>>, !.ctr = j - 1]
    OBVIOUS
  <2> HIDE DEF dev, n, e
  <2> QED BY <2>2, <2>3, <2>5, <2>6 DEF RecordOf
<1>10. Append(Chain(k, 0, n), e) = Chain(k, 0, j)
  <2>1. 0 + n + 1 = j BY <1>1, <1>5
  <2>2. Append(Chain(k, 0, n), Event(k, 0 + n + 1)) = Chain(k, 0, n + 1)
    BY <1>1, ChainGrows
  <2> QED BY <1>5, <2>1, <2>2
<1> DEFINE d == [c EXCEPT ![k] = j]
<1>11. /\ [s.devices EXCEPT ![k] = RecordOf(k, j)] = [x \in D |-> RecordOf(x, d[x])]
      /\ [s.credited EXCEPT ![k] = Chain(k, 0, j)] = [x \in Keys |-> Chain(x, 0, d[x])]
  BY <1>3, <1>5
<1>12. Ingested(s, e) = [devices |-> [s.devices EXCEPT ![k] = RecordOf(k, j)],
                        seen |-> ids \cup {<<k, j - 1>>},
                        credited |-> [s.credited EXCEPT ![k] = Chain(k, 0, j)],
                        refused |-> refused]
  <2>1. s = [devices |-> s.devices, seen |-> s.seen, credited |-> s.credited,
             refused |-> s.refused]
    BY DEF ServerState
  <2>2. s.credited[k] = Chain(k, 0, n) BY <1>3
  <2>3. Ingested(s, e) = [s EXCEPT !.devices[k] = RecordOf(k, j),
                                   !.seen = ids \cup {<<k, j - 1>>},
                                   !.credited[k] = Chain(k, 0, j)]
    <3> HIDE DEF s, e, n
    <3> QED BY <1>2, <1>3, <1>4, <1>5, <1>8, <1>9, <1>10, <2>2
  <2> HIDE DEF s, e, n
  <2> QED BY <1>3, <2>1, <2>3, ServerUpdate
<1> QED BY <1>5, <1>11, <1>12 DEF ServerState

\* Any other is refused.
LEMMA IngestedOther ==
  ASSUME NEW c \in [Keys -> Nat], NEW D \in SUBSET Keys, NEW ids, NEW refused,
         NEW k \in Keys, NEW j \in Nat \ {0}, ~(k \in D /\ j = c[k] + 1)
  PROVE  Ingested(ServerState(c, D, ids, refused), Event(k, j))
           = ServerState(c, D, ids, refused \cup {Event(k, j)})
<1> DEFINE s == ServerState(c, D, ids, refused)
           e == Event(k, j)
           n == c[k]
<1>1. n \in Nat OBVIOUS
<1>2. /\ e.key = k /\ e.ctr = j - 1 /\ e.prev = HeadAfter(k, j - 1) /\ e.id = <<k, j - 1>>
      /\ e.digest = <<k, j - 1>>
  BY DEF Event, NewEvent
<1>3. /\ s.devices = [d \in D |-> RecordOf(d, c[d])] /\ s.seen = ids /\ s.refused = refused
      /\ s.credited = [d \in Keys |-> Chain(d, 0, c[d])]
  BY DEF ServerState
<1>4. k \in D => s.devices[k] = RecordOf(k, n) BY <1>3
<1>5. ~(k \in D /\ j = n + 1) OBVIOUS
<1>6. ASSUME k \in D PROVE Verdict(RecordOf(k, n), ids, e) # "accepted"
  <2>1. e.ctr # RecordOf(k, n).ctr + 1 BY <1>1, <1>2, <1>5, <1>6 DEF RecordOf
  <2> QED BY <2>1 DEF Verdict
<1>7. Ingested(s, e) = [s EXCEPT !.refused = @ \cup {e}]
  BY <1>2, <1>3, <1>4, <1>6 DEF Ingested
<1>8. [s EXCEPT !.refused = refused \cup {e}] = ServerState(c, D, ids, refused \cup {e})
  <2> DEFINE devices == [d \in D |-> RecordOf(d, c[d])]
             credited == [d \in Keys |-> Chain(d, 0, c[d])]
  <2>1. s = [devices |-> devices, seen |-> ids, credited |-> credited, refused |-> refused]
    BY DEF ServerState
  <2>2. ServerState(c, D, ids, refused \cup {e})
          = [devices |-> devices, seen |-> ids, credited |-> credited,
             refused |-> refused \cup {e}]
    BY DEF ServerState
  <2> HIDE DEF s, e, devices, credited
  <2> QED BY <2>1, <2>2
<1> QED BY <1>3, <1>7, <1>8

\* What is left of a server that held c events, after m events in a row.
AfterEvents(c, D, refused, k, a, m, s) ==
  \E n, ids, gone :
    /\ n \in Nat
    /\ s = ServerState([c EXCEPT ![k] = n], D, ids, gone)
    /\ SeenOK([c EXCEPT ![k] = n], ids)
    /\ n = c[k] \/ (c[k] < n /\ n <= a + m)
    /\ k \notin D => n = c[k]
    /\ k \in D /\ a = c[k] => n = a + m /\ gone = refused

LEMMA IngestedNext ==
  ASSUME NEW c \in [Keys -> Nat], NEW D \in SUBSET Keys, NEW refused, NEW k \in Keys,
         NEW a \in Nat, NEW m \in Nat, NEW s, AfterEvents(c, D, refused, k, a, m, s)
  PROVE  AfterEvents(c, D, refused, k, a, m + 1, Ingested(s, Event(k, a + m + 1)))
<1> DEFINE j == a + m + 1
           e == Event(k, j)
<1>1. PICK n, ids, gone :
        /\ n \in Nat
        /\ s = ServerState([c EXCEPT ![k] = n], D, ids, gone)
        /\ SeenOK([c EXCEPT ![k] = n], ids)
        /\ n = c[k] \/ (c[k] < n /\ n <= a + m)
        /\ k \notin D => n = c[k]
        /\ k \in D /\ a = c[k] => n = a + m /\ gone = refused
  BY DEF AfterEvents
<1> DEFINE d == [c EXCEPT ![k] = n]
<1>2. d \in [Keys -> Nat] /\ d[k] = n BY <1>1
<1>3. j \in Nat \ {0} /\ c[k] \in Nat OBVIOUS
<1>4. CASE k \in D /\ j = n + 1
  <2>1. Ingested(s, e) = ServerState([d EXCEPT ![k] = j], D, ids \cup {<<k, j - 1>>}, gone)
    <3> HIDE DEF d, e, j
    <3> QED BY <1>1, <1>2, <1>3, <1>4, IngestedNextOne DEF d, e
  <2>2. [d EXCEPT ![k] = j] = [c EXCEPT ![k] = j] OBVIOUS
  <2>3. SeenOK([c EXCEPT ![k] = j], ids \cup {<<k, j - 1>>})
    <3> SUFFICES ASSUME NEW x \in Keys, NEW i \in Nat, <<x, i>> \in ids \cup {<<k, j - 1>>}
                 PROVE  i < [c EXCEPT ![k] = j][x]
      BY DEF SeenOK
    <3>1. CASE <<x, i>> \in ids
      <4>1. i < d[x] BY <1>1, <3>1 DEF SeenOK
      <4> QED BY <1>1, <1>4, <4>1
    <3>2. CASE <<x, i>> = <<k, j - 1>> BY <1>3, <3>2
    <3> QED BY <3>1, <3>2
  <2>4. c[k] < j /\ j <= a + (m + 1) BY <1>1, <1>3, <1>4
  <2>5. k \in D /\ a = c[k] => j = a + (m + 1) /\ gone = refused BY <1>1
  <2> HIDE DEF d, e, j
  <2>6. AfterEvents(c, D, refused, k, a, m + 1, Ingested(s, e))
    BY <1>3, <1>4, <2>1, <2>2, <2>3, <2>4, <2>5 DEF AfterEvents
  <2> QED BY <2>6 DEF e, j
<1>5. CASE ~(k \in D /\ j = n + 1)
  <2>1. Ingested(s, e) = ServerState(d, D, ids, gone \cup {e})
    <3>1. SeenOK(d, ids) /\ s = ServerState(d, D, ids, gone) BY <1>1
    <3> HIDE DEF d, j
    <3>2. ~(k \in D /\ j = d[k] + 1) BY <1>2, <1>5
    <3>4. d \in [Keys -> Nat] BY <1>2
    <3>5. j \in Nat \ {0} BY <1>3
    <3>6. SeenOK(d, ids) BY <3>1
    <3>3. Ingested(ServerState(d, D, ids, gone), Event(k, j))
            = ServerState(d, D, ids, gone \cup {Event(k, j)})
      BY <3>2, <3>4, <3>5, <3>6, IngestedOther
    <3> QED BY <3>1, <3>3
  <2>2. ~(k \in D /\ a = c[k]) BY <1>1, <1>5
  <2>3. n = c[k] \/ (c[k] < n /\ n <= a + (m + 1)) BY <1>1, <1>3
  <2> HIDE DEF e, j
  <2>4. AfterEvents(c, D, refused, k, a, m + 1, Ingested(s, e))
    BY <1>1, <2>1, <2>2, <2>3 DEF AfterEvents
  <2> QED BY <2>4 DEF e, j
<1> QED BY <1>4, <1>5

LEMMA IngestedBatch ==
  ASSUME NEW c \in [Keys -> Nat], NEW D \in SUBSET Keys, NEW ids, NEW refused,
         SeenOK(c, ids), NEW k \in Keys, NEW a \in Nat, NEW m \in Nat
  PROVE  AfterEvents(c, D, refused, k, a, m,
                     IngestedAll(ServerState(c, D, ids, refused), Chain(k, a, m)))
<1> DEFINE s == ServerState(c, D, ids, refused)
           events == Chain(k, a, m)
<1>1. Len(events) = m /\ \A i \in 1..m : events[i] = Event(k, a + i) BY ChainIsSeq
<1>2. PICK after :
        /\ after[0] = s
        /\ \A i \in 1..m : after[i] = Ingested(after[i - 1], events[i])
        /\ IngestedAll(s, events) = after[m]
  <2> HIDE DEF s, events
  <2>1. PICK after :
          /\ after[0] = s
          /\ \A i \in 1..Len(events) : after[i] = Ingested(after[i - 1], events[i])
          /\ IngestedAll(s, events) = after[Len(events)]
    <3>1. Len(events) \in Nat BY <1>1
    <3> QED BY <3>1, IngestSteps
  <2> QED BY <1>1, <2>1
<1> DEFINE T == {i \in 0..m : AfterEvents(c, D, refused, k, a, i, after[i])}
<1>3. 0 \in T
  <2>1. [c EXCEPT ![k] = c[k]] = c /\ c[k] \in Nat OBVIOUS
  <2>2. k \in D /\ a = c[k] => c[k] = a + 0 OBVIOUS
  <2>3. AfterEvents(c, D, refused, k, a, 0, after[0])
    BY <1>2, <2>1, <2>2 DEF AfterEvents
  <2> QED BY <2>3
<1>4. ASSUME NEW i \in 0..(m - 1), i \in T PROVE i + 1 \in T
  <2>1. i \in Nat /\ i + 1 \in 1..m /\ (i + 1) - 1 = i /\ a + (i + 1) = a + i + 1 OBVIOUS
  <2>2. after[i + 1] = Ingested(after[i], Event(k, a + i + 1))
    <3>1. after[i + 1] = Ingested(after[(i + 1) - 1], events[i + 1]) BY <1>2, <2>1
    <3>2. events[i + 1] = Event(k, a + (i + 1)) BY <1>1, <2>1
    <3> HIDE DEF events
    <3> QED BY <2>1, <3>1, <3>2
  <2>3. AfterEvents(c, D, refused, k, a, i, after[i]) BY <1>4
  <2>4. AfterEvents(c, D, refused, k, a, i + 1, after[i + 1])
    BY <2>1, <2>2, <2>3, IngestedNext
  <2> QED BY <2>1, <2>4
<1>5. m \in T
  <2> HIDE DEF T
  <2>1. \A i \in 0..(m - 1) : i \in T => i + 1 \in T BY <1>4
  <2>2. \A i \in 0..m : i \in T BY <1>3, <2>1, UpTo
  <2> QED BY <2>2
<1> QED BY <1>2, <1>5

-----------------------------------------------------------------------------
(* Facts about the parts of the invariant. *)

LEMMA EmptyChain ==
  ASSUME NEW k, NEW a \in Nat
  PROVE  Chain(k, a, 0) = <<>>
<1>1. Chain(k, a, 0) \in Seq(EventsOf(k)) /\ Len(Chain(k, a, 0)) = 0
  BY ChainIsSeq
<1> QED BY <1>1, EmptySeq

\* What a server state says of devices, credits and ids.
LEMMA StateParts ==
  ASSUME NEW c \in [Keys -> Nat], NEW D, NEW ids, NEW refused,
         NEW s, s = ServerState(c, D, ids, refused)
  PROVE  /\ DOMAIN s.devices = D /\ s.seen = ids /\ s.refused = refused
         /\ [k \in Keys |-> Len(s.credited[k])] = c
<1>1. \A k \in Keys : s.credited[k] = Chain(k, 0, c[k]) BY DEF ServerState
<1>2. ASSUME NEW k \in Keys PROVE Len(s.credited[k]) = c[k]
  <2>1. c[k] \in Nat OBVIOUS
  <2>2. Len(Chain(k, 0, c[k])) = c[k] BY <2>1, ChainIsSeq
  <2> QED BY <1>1, <2>2
<1>3. DOMAIN s.devices = D /\ s.seen = ids /\ s.refused = refused BY DEF ServerState
<1> QED BY <1>2, <1>3

LEMMA RequestFacts ==
  ASSUME NEW r, IsRequest(r)
  PROVE  /\ r # NoCall /\ r.device \in 1..key
         /\ \/ r.kind = "register" /\ r = Registration(r.device)
            \/ /\ r.kind = "ingest"
               /\ \E a, m \in 0..Len(emitted[r.device]) :
                    /\ a + m <= Len(emitted[r.device])
                    /\ r = Batch(r.device, Chain(r.device, a, m))
<1>1. CASE r = Registration(r.device)
  <2>1. r.kind = "register" BY <1>1 DEF Registration
  <2>2. r.kind # NoCall.kind BY <2>1 DEF NoCall
  <2> QED BY <1>1, <2>1, <2>2 DEF IsRequest
<1>2. CASE r # Registration(r.device)
  <2>1. PICK a \in 0..Len(emitted[r.device]), m \in 0..Len(emitted[r.device]) :
          /\ a + m <= Len(emitted[r.device])
          /\ r = Batch(r.device, Chain(r.device, a, m))
    BY <1>2 DEF IsRequest
  <2>2. r.kind = "ingest"
    <3>1. Batch(r.device, Chain(r.device, a, m)).kind = "ingest" BY DEF Batch
    <3> QED BY <2>1, <3>1
  <2>3. r.kind # NoCall.kind BY <2>2 DEF NoCall
  <2> QED BY <2>1, <2>2, <2>3 DEF IsRequest
<1> QED BY <1>1, <1>2

\* A request stays one while the daemon runs on.
LEMMA RequestStays ==
  ASSUME NEW r, IsRequest(r), key \in Nat, key' \in Nat, key <= key',
         \A k \in 1..key : /\ Len(emitted[k]) \in Nat /\ Len(emitted'[k]) \in Nat
                           /\ Len(emitted[k]) <= Len(emitted'[k])
  PROVE  IsRequest(r)'
<1> DEFINE k == r.device
<1>1. k \in 1..key /\ k \in 1..key' BY DEF IsRequest
<1>2. Len(emitted[k]) \in Nat /\ Len(emitted'[k]) \in Nat /\ Len(emitted[k]) <= Len(emitted'[k])
  BY <1>1
<1>3. CASE r = Registration(k) BY <1>1, <1>3 DEF IsRequest
<1>4. CASE r # Registration(k)
  <2>1. PICK a \in 0..Len(emitted[k]), m \in 0..Len(emitted[k]) :
          a + m <= Len(emitted[k]) /\ r = Batch(k, Chain(k, a, m))
    BY <1>4 DEF IsRequest
  <2>2. a \in 0..Len(emitted'[k]) /\ m \in 0..Len(emitted'[k]) /\ a + m <= Len(emitted'[k])
    BY <1>2, <2>1
  <2> QED BY <1>1, <2>1, <2>2 DEF IsRequest
<1> QED BY <1>3, <1>4

\* So does what the server holds.
LEMMA ServerStays ==
  ASSUME ServerInv, server' = server, key \in Nat, key' \in Nat, key <= key',
         \A k \in Keys : /\ Len(emitted[k]) \in Nat /\ Len(emitted'[k]) \in Nat
                         /\ Len(emitted[k]) <= Len(emitted'[k])
                         /\ Registration(k) \in wire' => k \notin Known
  PROVE  ServerInv' /\ Known' = Known /\ Credited' = Credited
<1>1. Known' = Known /\ Credited' = Credited BY DEF Known, Credited
<1>2. server' = ServerState(Credited', Known', server'.seen, server'.refused)
  BY <1>1 DEF ServerInv
<1>3. Known' \subseteq 1..key' BY <1>1 DEF ServerInv
<1>4. ASSUME NEW k \in Keys
      PROVE  /\ Credited'[k] \in Nat /\ Credited'[k] <= Len(emitted'[k])
             /\ k \notin Known' => Credited'[k] = 0
             /\ Registration(k) \in wire' => k \notin Known'
  <2>1. Credited[k] \in Nat /\ Credited[k] <= Len(emitted[k]) BY DEF ServerInv
  <2>2. Len(emitted[k]) <= Len(emitted'[k]) /\ Len(emitted[k]) \in Nat /\ Len(emitted'[k]) \in Nat
    OBVIOUS
  <2>3. Credited'[k] \in Nat /\ Credited'[k] <= Len(emitted'[k]) BY <1>1, <2>1, <2>2
  <2> QED BY <1>1, <2>3 DEF ServerInv
<1>5. ASSUME NEW k \in Keys, NEW i \in Nat, <<k, i>> \in server'.seen
      PROVE  i < Credited'[k]
  BY <1>1, <1>5 DEF ServerInv
<1> QED BY <1>1, <1>2, <1>3, <1>4, <1>5 DEF ServerInv

-----------------------------------------------------------------------------
(* Each step keeps the invariant. *)

LEMMA InitIInv == Init => IInv
<1> SUFFICES ASSUME Init PROVE IInv OBVIOUS
<1> USE PipelineAssumption
<1> DEFINE c == [k \in Keys |-> 0]
<1>1. Len(<<>>) = 0 OBVIOUS
<1>2. \A k \in Keys : emitted[k] = <<>> /\ Chain(k, 0, 0) = <<>> BY EmptyChain DEF Init
<1>3. emitted = [k \in Keys |-> Chain(k, 0, Len(emitted[k]))] BY <1>1, <1>2 DEF Init
<1>4. DaemonInv
  <2>1. \A k \in Keys : Len(emitted[k]) = 0 BY <1>1, <1>2
  <2>2. Len(chan) = 0 BY <1>1 DEF Init
  <2>3. key \in 0..MaxRuns BY DEF Init
  <2>4. ~up /\ up \in BOOLEAN /\ lost \in BOOLEAN BY Zenon DEF Init
  <2>5. call = NoCall /\ chan = <<>> BY DEF Init
  <2> QED BY <1>3, <2>1, <2>2, <2>3, <2>4, <2>5 DEF DaemonInv
<1>5. RequestInv BY DEF Init, RequestInv
<1>6. server = ServerState(c, {}, {}, {}) BY <1>2 DEF Init, ServerState
<1>7. c \in [Keys -> Nat] OBVIOUS
<1>8. Known = {} /\ server.seen = {} /\ server.refused = {} /\ Credited = c
  BY <1>6, <1>7, StateParts DEF Known, Credited
<1>9. ServerInv
  <2>1. server = ServerState(Credited, Known, server.seen, server.refused) BY <1>6, <1>8
  <2>2. \A k \in Keys : Credited[k] = 0 BY <1>8
  <2> QED BY <1>1, <1>2, <1>8, <2>1, <2>2 DEF Init, ServerInv
<1>10. InOrder BY <1>8 DEF Init, InOrder
<1> QED BY <1>4, <1>5, <1>9, <1>10 DEF IInv

LEMMA StartIInv == IInv /\ Start => IInv'
<1> SUFFICES ASSUME IInv, Start PROVE IInv' OBVIOUS
<1> USE PipelineAssumption
<1> DEFINE new == Registration(key + 1)
<1>1. /\ key \in Nat /\ key + 1 \in Keys /\ key' = key + 1
      /\ \A k \in Keys : Len(emitted[k]) \in Nat
      /\ Len(emitted[key + 1]) = 0
  BY DEF IInv, DaemonInv, Start, Keys
<1>2. /\ up' = TRUE /\ prev' = GENESIS_PREV /\ chan' = <<>> /\ call' = new
      /\ wire' = wire \cup {new} /\ UNCHANGED <<emitted, server, lost>> /\ ~up
  BY DEF Start, Calls
<1>3. new.kind = "register" /\ new.device = key + 1 /\ new # NoCall BY DEF Registration, NoCall
<1>4. DaemonInv'
  <2>1. Len(<<>>) = 0 /\ Chain(key', 0, 0) = <<>> BY <1>1, EmptyChain
  <2>2. chan' = Chain(key', Len(emitted'[key']) - Len(chan'), Len(chan')) /\ Len(chan') = 0
    BY <1>1, <1>2, <2>1
  <2>3. prev' = HeadAfter(key', Len(emitted'[key'])) BY <1>1, <1>2 DEF HeadAfter
  <2>4. \A k \in Keys : k > key' => Len(emitted'[k]) = 0
    BY <1>1, <1>2 DEF IInv, DaemonInv, Keys
  <2>5. up' \in BOOLEAN /\ lost' \in BOOLEAN BY <1>2 DEF IInv, DaemonInv
  <2>6. emitted' = [k \in Keys |-> Chain(k, 0, Len(emitted'[k]))]
    BY <1>2 DEF IInv, DaemonInv
  <2> QED BY <1>1, <1>2, <2>2, <2>3, <2>4, <2>5, <2>6 DEF DaemonInv, Keys
<1>5. \A r \in wire : r.device \in 1..key /\ IsRequest(r)
  BY RequestFacts DEF IInv, RequestInv
<1>6. \A k \in 1..key : k \in Keys BY <1>1 DEF Keys
<1>7. \A r : r = new => IsRequest(r)' BY <1>1, <1>3 DEF IsRequest, Keys
<1>8. RequestInv'
  <2>1. \A r \in wire : IsRequest(r)' BY <1>1, <1>2, <1>5, <1>6, RequestStays
  <2>2. \A r \in wire' : IsRequest(r)' BY <1>2, <1>7, <2>1
  <2>3. call'.device = key' BY <1>1, <1>2, <1>3
  <2> QED BY <1>2, <1>7, <2>2, <2>3 DEF RequestInv
<1>9. key + 1 \notin Known BY <1>1 DEF IInv, ServerInv
<1>10. \A k \in Keys : Registration(k) \in wire' => k \notin Known
  <2>1. \A k \in Keys : Registration(k) = new => k = key + 1 BY <1>3 DEF Registration
  <2> QED BY <1>2, <1>9, <2>1 DEF IInv, ServerInv
<1>11. ServerInv' /\ Known' = Known /\ Credited' = Credited
  <2>1. ServerInv BY DEF IInv
  <2> QED BY <1>1, <1>2, <1>10, <2>1, ServerStays
<1>12. ASSUME ~lost' PROVE InOrder'
  <2>1. InOrder BY <1>2, <1>12 DEF IInv
  <2>2. \A r \in wire : r.device # key + 1 BY <1>1, <1>5
  <2>3. \A q, r \in wire' : q.device = r.device => q = r
    BY <1>2, <1>3, <2>1, <2>2 DEF InOrder
  <2>4. \A r \in wire' : r.kind = "ingest" =>
          /\ r.device \in Known'
          /\ r = Batch(r.device, Chain(r.device, Credited'[r.device], Len(r.events)))
    BY <1>2, <1>3, <1>11, <2>1 DEF InOrder
  <2>5. \A r \in wire' : r.device = key' => r = call' BY <1>1, <1>2, <2>2
  <2> QED BY <1>1, <1>2, <1>9, <1>11, <2>1, <2>3, <2>4, <2>5 DEF InOrder
<1> QED BY <1>4, <1>8, <1>11, <1>12 DEF IInv

LEMMA CrashIInv == IInv /\ Crash => IInv'
<1> SUFFICES ASSUME IInv, Crash PROVE IInv' OBVIOUS
<1>1. /\ ~up' /\ up' \in BOOLEAN /\ chan' = <<>> /\ call' = NoCall
      /\ wire' \subseteq wire
      /\ UNCHANGED <<key, prev, emitted, server, lost>>
  BY DEF Crash
<1>2. key \in Nat /\ \A k \in Keys : Len(emitted[k]) \in Nat
  BY PipelineAssumption DEF IInv, DaemonInv
<1>3. DaemonInv'
  <2>1. Len(<<>>) = 0 OBVIOUS
  <2>2. Len(chan') \in Nat BY <1>1, <2>1
  <2> QED BY <1>1, <2>2 DEF IInv, DaemonInv
<1>4. RequestInv' BY <1>1 DEF IInv, RequestInv, IsRequest
<1>5. \A k \in Keys : Registration(k) \in wire' => k \notin Known
  BY <1>1 DEF IInv, ServerInv
<1>6. ServerInv' /\ Known' = Known /\ Credited' = Credited
  <2>1. ServerInv BY DEF IInv
  <2> QED BY <1>1, <1>2, <1>5, <2>1, ServerStays
<1>7. ~lost' => InOrder' BY <1>1, <1>6 DEF IInv, InOrder
<1> QED BY <1>3, <1>4, <1>6, <1>7 DEF IInv

LEMMA EmitIInv == IInv /\ Emit => IInv'
<1> SUFFICES ASSUME IInv, Emit PROVE IInv' OBVIOUS
<1> DEFINE L == Len(emitted[key])
           n == Len(chan)
           e == NewEvent(key, L, prev, 1)
<1>1. /\ up /\ call.kind # "register" /\ prev' = e.digest
      /\ emitted' = [emitted EXCEPT ![key] = Append(@, e)]
      /\ chan' = Append(chan, e)
      /\ UNCHANGED <<up, key, call, wire, server, lost>>
  BY DEF Emit
<1>2. /\ key \in Keys /\ key \in Nat /\ L \in Nat /\ n \in Nat /\ n <= L
      /\ chan = Chain(key, L - n, n) /\ prev = HeadAfter(key, L)
      /\ emitted = [k \in Keys |-> Chain(k, 0, Len(emitted[k]))]
      /\ \A k \in Keys : Len(emitted[k]) \in Nat
  BY <1>1, PipelineAssumption DEF IInv, DaemonInv, Keys
<1>3. e = Event(key, L + 1)
  <2>1. Event(key, L + 1) = NewEvent(key, L, HeadAfter(key, L), 1) BY <1>2, EventIs
  <2> QED BY <1>2, <2>1
<1>4. emitted'[key] = Chain(key, 0, L + 1) /\ Len(emitted'[key]) = L + 1
  <2>1. Append(Chain(key, 0, L), Event(key, 0 + L + 1)) = Chain(key, 0, L + 1)
    BY <1>2, ChainGrows
  <2>2. emitted[key] = Chain(key, 0, L) /\ 0 + L + 1 = L + 1 BY <1>2
  <2>3. Append(emitted[key], e) = Chain(key, 0, L + 1)
    <3> HIDE DEF e, L
    <3> QED BY <1>3, <2>1, <2>2
  <2>4. key \in DOMAIN emitted BY <1>2
  <2>5. emitted'[key] = Append(emitted[key], e) BY <1>1, <2>4
  <2>6. Len(Chain(key, 0, L + 1)) = L + 1
    <3>1. L + 1 \in Nat BY <1>2
    <3> QED BY <3>1, ChainIsSeq
  <2> HIDE DEF e, L
  <2> QED BY <2>3, <2>5, <2>6
<1>5. chan' = Chain(key, L - n, n + 1) /\ Len(chan') = n + 1
  <2>1. L - n \in Nat /\ n + 1 \in Nat /\ L - n + n + 1 = L + 1 BY <1>2
  <2>2. Append(Chain(key, L - n, n), Event(key, L - n + n + 1)) = Chain(key, L - n, n + 1)
    BY <1>2, <2>1, ChainGrows
  <2>3. Len(Chain(key, L - n, n + 1)) = n + 1 BY <1>2, <2>1, ChainIsSeq
  <2> HIDE DEF e, L, n
  <2> QED BY <1>1, <1>2, <1>3, <2>1, <2>2, <2>3
<1>6. \A k \in Keys : k # key => emitted'[k] = emitted[k] BY <1>1, <1>2
<1>7. emitted' = [k \in Keys |-> Chain(k, 0, Len(emitted'[k]))]
  <2>1. emitted' = [k \in Keys |-> emitted'[k]] BY <1>1, <1>2
  <2>2. \A k \in Keys : emitted'[k] = Chain(k, 0, Len(emitted'[k]))
    BY <1>2, <1>4, <1>6
  <2> QED BY <2>1, <2>2
<1>8. \A k \in Keys : Len(emitted'[k]) \in Nat /\ Len(emitted[k]) <= Len(emitted'[k])
  BY <1>2, <1>4, <1>6
<1>9. DaemonInv'
  <2>1. prev' = HeadAfter(key', Len(emitted'[key']))
    <3>1. e.digest = <<key, L>> BY DEF NewEvent
    <3>2. L + 1 # 0 /\ (L + 1) - 1 = L BY <1>2
    <3>3. HeadAfter(key, L + 1) = <<key, L>>
      <4> HIDE DEF L
      <4> QED BY <3>2 DEF HeadAfter
    <3> HIDE DEF e, L
    <3> QED BY <1>1, <1>4, <3>1, <3>3
  <2>2. /\ Len(chan') \in Nat /\ Len(chan') <= Len(emitted'[key'])
        /\ Len(emitted'[key']) - Len(chan') = L - n
    BY <1>1, <1>2, <1>4, <1>5
  <2>3. chan' = Chain(key', Len(emitted'[key']) - Len(chan'), Len(chan'))
    BY <1>1, <1>5, <2>2
  <2>4. \A k \in Keys : k > key' => Len(emitted'[k]) = 0
    BY <1>1, <1>2, <1>6 DEF IInv, DaemonInv, Keys
  <2>5. call'.kind # "register" /\ key' \in Keys /\ up' /\ up' \in BOOLEAN /\ lost' \in BOOLEAN
        /\ key' \in 0..MaxRuns
    BY <1>1, <1>2 DEF IInv, DaemonInv
  <2> QED BY <1>7, <1>8, <2>1, <2>2, <2>3, <2>4, <2>5 DEF DaemonInv
<1>10. \A k \in 1..key : k \in Keys BY <1>2, PipelineAssumption DEF Keys
<1>11. RequestInv'
  <2>1. \A r : IsRequest(r) => IsRequest(r)' BY <1>1, <1>2, <1>8, <1>10, RequestStays
  <2> QED BY <1>1, <2>1 DEF IInv, RequestInv
<1>12. ServerInv' /\ Known' = Known /\ Credited' = Credited
  <2>1. ServerInv BY DEF IInv
  <2>2. \A k \in Keys : Registration(k) \in wire' => k \notin Known
    BY <1>1 DEF IInv, ServerInv
  <2> QED BY <1>1, <1>2, <1>8, <2>1, <2>2, ServerStays
<1>13. ASSUME ~lost' PROVE InOrder'
  <2>1. InOrder BY <1>1, <1>13 DEF IInv
  <2>2. ~(call = Registration(key)) BY <1>1 DEF Registration
  <2>3. key \in Known BY <1>1, <2>1, <2>2 DEF InOrder
  <2> DEFINE q == IF call \in wire THEN Len(call.events) ELSE 0
  <2>4. Credited[key] + q + n = L BY <1>1, <2>1, <2>3 DEF InOrder
  <2>5. Credited[key] \in Nat BY <1>2 DEF IInv, ServerInv
  <2>6. q \in Nat
    <3>1. CASE call \in wire
      <4>1. IsRequest(call) /\ call.kind = "ingest"
        BY <1>1, <3>1, RequestFacts DEF IInv, RequestInv
      <4>2. PICK a \in Nat, m \in Nat : call = Batch(call.device, Chain(call.device, a, m))
        BY <4>1, RequestFacts, <1>1
      <4>3. call.events = Chain(call.device, a, m) BY <4>2 DEF Batch
      <4>4. Len(Chain(call.device, a, m)) = m BY ChainIsSeq
      <4> QED BY <3>1, <4>3, <4>4
    <3> QED BY <3>1
  <2>7. Credited'[key'] + (IF call' \in wire' THEN Len(call'.events) ELSE 0) + Len(chan')
          = Len(emitted'[key'])
    <3>1. (IF call' \in wire' THEN Len(call'.events) ELSE 0) = q BY <1>1
    <3>2. Credited[key] + q + (n + 1) = L + 1
      <4> HIDE DEF q, n, L
      <4> QED BY <1>2, <2>4, <2>5, <2>6
    <3> HIDE DEF q, n, L
    <3> QED BY <1>1, <1>4, <1>5, <1>12, <3>1, <3>2
  <2> QED BY <1>1, <1>12, <2>1, <2>3, <2>7 DEF InOrder
<1> QED BY <1>9, <1>11, <1>12, <1>13 DEF IInv

LEMMA FlushIInv == IInv /\ Flush => IInv'
<1> SUFFICES ASSUME IInv, Flush PROVE IInv' OBVIOUS
<1> DEFINE L == Len(emitted[key])
           n == Len(chan)
           new == Batch(key, chan)
<1>1. /\ up /\ call = NoCall /\ chan' = <<>> /\ call' = new /\ wire' = wire \cup {new}
      /\ UNCHANGED <<up, key, prev, emitted, server, lost>>
  BY DEF Flush, Calls, Taken
<1>2. /\ key \in Keys /\ key \in Nat /\ key \in 1..key /\ L \in Nat /\ n \in Nat /\ n <= L
      /\ chan = Chain(key, L - n, n) /\ L - n \in Nat
      /\ \A k \in Keys : Len(emitted[k]) \in Nat
  BY <1>1, PipelineAssumption DEF IInv, DaemonInv, Keys
<1>3. new.kind = "ingest" /\ new.device = key /\ new.events = chan /\ new # NoCall
  BY DEF Batch, NoCall
<1>4. DaemonInv'
  <2>1. Len(<<>>) = 0 /\ Chain(key, L, 0) = <<>> BY <1>2, EmptyChain
  <2>2. Len(chan') = 0 /\ Len(emitted'[key']) - Len(chan') = L BY <1>1, <1>2, <2>1
  <2>3. chan' = Chain(key', Len(emitted'[key']) - Len(chan'), Len(chan')) BY <1>1, <2>1, <2>2
  <2>4. Len(chan') \in Nat /\ Len(chan') <= Len(emitted'[key']) BY <1>1, <1>2, <2>2
  <2> QED BY <1>1, <1>3, <2>3, <2>4 DEF IInv, DaemonInv
<1>5. \A r : r = new => IsRequest(r)'
  <2>1. L - n \in 0..L /\ n \in 0..L /\ (L - n) + n <= L BY <1>2
  <2>2. \A r : r = new => IsRequest(r) BY <1>2, <1>3, <2>1 DEF IsRequest
  <2> QED BY <1>1, <2>2 DEF IsRequest
<1>6. RequestInv'
  <2>1. \A r \in wire : IsRequest(r)' BY <1>1 DEF IInv, RequestInv, IsRequest
  <2> QED BY <1>1, <1>3, <1>5, <2>1 DEF RequestInv
<1>7. \A k \in Keys : Registration(k) \in wire' => k \notin Known
  <2>1. \A k : Registration(k) # new BY <1>3 DEF Registration
  <2> QED BY <1>1, <2>1 DEF IInv, ServerInv
<1>8. ServerInv' /\ Known' = Known /\ Credited' = Credited
  <2>1. ServerInv BY DEF IInv
  <2> QED BY <1>1, <1>2, <1>7, <2>1, ServerStays
<1>9. ASSUME ~lost' PROVE InOrder'
  <2>1. InOrder BY <1>1, <1>9 DEF IInv
  <2>2. \A r \in wire : r # NoCall BY RequestFacts DEF IInv, RequestInv
  <2>3. \A r \in wire : r.device # key BY <1>1, <2>1, <2>2 DEF InOrder
  <2>4. \A q, r \in wire' : q.device = r.device => q = r
    BY <1>1, <1>3, <2>1, <2>3 DEF InOrder
  <2>5. call \notin wire /\ call # Registration(key) BY <1>1, <2>2 DEF NoCall, Registration
  <2>6. key \in Known /\ Credited[key] + 0 + n = L BY <1>1, <2>1, <2>5 DEF InOrder
  <2>7. Credited[key] \in Nat BY <1>2 DEF IInv, ServerInv
  <2>8. new = Batch(key, Chain(key, Credited[key], Len(new.events)))
    <3>1. Credited[key] = L - n BY <1>2, <2>6, <2>7
    <3> QED BY <1>2, <1>3, <3>1
  <2>9. \A r \in wire' : r.kind = "ingest" =>
          /\ r.device \in Known'
          /\ r = Batch(r.device, Chain(r.device, Credited'[r.device], Len(r.events)))
    BY <1>1, <1>3, <1>8, <2>1, <2>6, <2>8 DEF InOrder
  <2>10. \A r \in wire' : r.device = key' => r = call' BY <1>1, <2>3
  <2>11. Credited'[key'] + (IF call' \in wire' THEN Len(call'.events) ELSE 0) + Len(chan')
           = Len(emitted'[key'])
    <3>1. Len(<<>>) = 0 OBVIOUS
    <3>2. (IF call' \in wire' THEN Len(call'.events) ELSE 0) = n BY <1>1, <1>3
    <3>3. Credited[key] + n + 0 = L BY <1>2, <2>6, <2>7
    <3> QED BY <1>1, <1>8, <3>1, <3>2, <3>3
  <2> QED BY <1>1, <1>8, <2>1, <2>4, <2>6, <2>9, <2>10, <2>11 DEF InOrder
<1> QED BY <1>4, <1>6, <1>8, <1>9 DEF IInv

LEMMA ReturnIInv == IInv /\ Return => IInv'
<1> SUFFICES ASSUME IInv, Return PROVE IInv' OBVIOUS
<1>1. /\ call # NoCall /\ call \notin wire /\ call' = NoCall
      /\ UNCHANGED <<up, key, prev, emitted, chan, wire, server, lost>>
  BY DEF Return, CallOver
<1>2. key \in Nat /\ \A k \in Keys : Len(emitted[k]) \in Nat
  BY PipelineAssumption DEF IInv, DaemonInv
<1>3. NoCall.kind # "register" BY DEF NoCall
<1>4. DaemonInv' BY <1>1, <1>3 DEF IInv, DaemonInv
<1>5. RequestInv' BY <1>1 DEF IInv, RequestInv, IsRequest
<1>6. ServerInv' /\ Known' = Known /\ Credited' = Credited
  <2>1. ServerInv /\ \A k \in Keys : Registration(k) \in wire' => k \notin Known
    BY <1>1 DEF IInv, ServerInv
  <2> QED BY <1>1, <1>2, <2>1, ServerStays
<1>7. NoCall \notin wire BY RequestFacts DEF IInv, RequestInv
<1>8. ~lost' => InOrder'
  BY <1>1, <1>6, <1>7 DEF IInv, InOrder
<1> QED BY <1>4, <1>5, <1>6, <1>8 DEF IInv

LEMMA LossIInv == IInv /\ (Drop \/ GiveUp) => IInv'
<1> SUFFICES ASSUME IInv, Drop \/ GiveUp PROVE IInv' OBVIOUS
<1>1. /\ lost' /\ lost' \in BOOLEAN /\ wire' \subseteq wire /\ call' \in {call, NoCall}
      /\ ~up => call' = call
      /\ UNCHANGED <<up, key, prev, emitted, chan, server>>
  <2>1. CASE Drop BY <2>1 DEF Drop
  <2>2. CASE GiveUp
    <3>1. call # NoCall BY <2>2, RequestFacts DEF GiveUp, IInv, RequestInv
    <3>2. up BY <3>1 DEF IInv, DaemonInv
    <3> QED BY <2>2, <3>2 DEF GiveUp
  <2> QED BY <2>1, <2>2
<1>2. key \in Nat /\ \A k \in Keys : Len(emitted[k]) \in Nat
  BY PipelineAssumption DEF IInv, DaemonInv
<1>3. NoCall.kind # "register" BY DEF NoCall
<1>4. DaemonInv' BY <1>1, <1>3 DEF IInv, DaemonInv
<1>5. RequestInv' BY <1>1 DEF IInv, RequestInv, IsRequest
<1>6. ServerInv'
  <2>1. ServerInv /\ \A k \in Keys : Registration(k) \in wire' => k \notin Known
    BY <1>1 DEF IInv, ServerInv
  <2> QED BY <1>1, <1>2, <2>1, ServerStays
<1> QED BY <1>1, <1>4, <1>5, <1>6 DEF IInv

\* What handling a request does: a registration makes the device known, a
\* batch may lengthen the device's prefix, and does so by all of its events
\* when they are the next ones.
HandledRegistration(k) ==
  /\ Known' = Known \cup {k} /\ Credited' = Credited
  /\ server'.seen = server.seen /\ server'.refused = server.refused
HandledBatch(k, a, m) ==
  \E n \in Nat :
    /\ Known' = Known /\ Credited' = [Credited EXCEPT ![k] = n]
    /\ n = Credited[k] \/ (Credited[k] < n /\ n <= a + m)
    /\ k \notin Known => n = Credited[k]
    /\ k \in Known /\ a = Credited[k] => n = a + m /\ server'.refused = server.refused
    /\ SeenOK(Credited', server'.seen)

LEMMA RegistrationEffect ==
  ASSUME IInv, NEW k \in Keys, k \notin Known, server' = Registered(server, k)
  PROVE  /\ HandledRegistration(k)
         /\ server' = ServerState(Credited', Known', server'.seen, server'.refused)
<1> DEFINE c == Credited
           D == Known \cup {k}
<1>1. /\ server = ServerState(c, Known, server.seen, server.refused)
      /\ c \in [Keys -> Nat] /\ c[k] = 0
  BY DEF IInv, ServerInv, Credited
<1>2. server.devices = [d \in Known |-> RecordOf(d, c[d])] BY <1>1 DEF ServerState
<1>3. [d \in D |-> IF d = k THEN NewDevice(k) ELSE server.devices[d]]
        = [d \in D |-> RecordOf(d, c[d])]
  <2>1. NewDevice(k) = RecordOf(k, c[k])
    BY <1>1 DEF NewDevice, RecordOf, HeadAfter, NoCtr, GENESIS_PREV
  <2> HIDE DEF c
  <2> QED BY <1>2, <2>1
<1>4. server' = [server EXCEPT !.devices = [d \in D |-> RecordOf(d, c[d])]]
  BY <1>3 DEF Registered, Known
<1>5. server' = ServerState(c, D, server.seen, server.refused)
  <2> DEFINE devices == [d \in Known |-> RecordOf(d, c[d])]
             credited == [d \in Keys |-> Chain(d, 0, c[d])]
             after == [d \in D |-> RecordOf(d, c[d])]
  <2>1. server = [devices |-> devices, seen |-> server.seen, credited |-> credited,
                  refused |-> server.refused]
    BY <1>1 DEF ServerState
  <2>2. ServerState(c, D, server.seen, server.refused)
          = [devices |-> after, seen |-> server.seen, credited |-> credited,
             refused |-> server.refused]
    BY DEF ServerState
  <2> HIDE DEF c, devices, credited, after
  <2> QED BY <1>4, <2>1, <2>2 DEF after
<1>6. Known' = D /\ Credited' = c /\ server'.seen = server.seen /\ server'.refused = server.refused
  <2> HIDE DEF c, D
  <2> QED BY <1>1, <1>5, StateParts DEF Known, Credited
<1> QED BY <1>5, <1>6 DEF HandledRegistration

LEMMA BatchEffect ==
  ASSUME IInv, NEW k \in Keys, NEW a \in Nat, NEW m \in Nat,
         server' = IngestedAll(server, Chain(k, a, m))
  PROVE  /\ HandledBatch(k, a, m)
         /\ server' = ServerState(Credited', Known', server'.seen, server'.refused)
<1> DEFINE c == Credited
<1>1. /\ server = ServerState(c, Known, server.seen, server.refused)
      /\ c \in [Keys -> Nat] /\ SeenOK(c, server.seen) /\ Known \in SUBSET Keys
  <2>1. Known \in SUBSET Keys
    BY PipelineAssumption DEF IInv, DaemonInv, ServerInv, Keys
  <2> QED BY <2>1 DEF IInv, ServerInv, Credited, SeenOK
<1>2. AfterEvents(c, Known, server.refused, k, a, m, server')
  <2> HIDE DEF c
  <2> QED BY <1>1, IngestedBatch
<1>3. PICK n, ids, gone :
        /\ n \in Nat
        /\ server' = ServerState([c EXCEPT ![k] = n], Known, ids, gone)
        /\ SeenOK([c EXCEPT ![k] = n], ids)
        /\ n = c[k] \/ (c[k] < n /\ n <= a + m)
        /\ k \notin Known => n = c[k]
        /\ k \in Known /\ a = c[k] => n = a + m /\ gone = server.refused
  BY <1>2 DEF AfterEvents
<1> DEFINE d == [c EXCEPT ![k] = n]
<1>4. d \in [Keys -> Nat] BY <1>1, <1>3
<1>5. Known' = Known /\ Credited' = d /\ server'.seen = ids /\ server'.refused = gone
  <2>1. server' = ServerState(d, Known, ids, gone) BY <1>3
  <2> HIDE DEF d
  <2> QED BY <1>4, <2>1, StateParts DEF Known, Credited
<1> HIDE DEF c
<1> QED BY <1>3, <1>5 DEF HandledBatch, c

LEMMA HandleRegistrationIInv ==
  ASSUME IInv, NEW request \in wire, Handle(request), request.kind = "register"
  PROVE  IInv'
<1> DEFINE k == request.device
<1>1. /\ k \in 1..key /\ request = Registration(k)
  BY RequestFacts DEF IInv, RequestInv
<1>2. /\ key \in Nat /\ k \in Keys /\ \A j \in Keys : Len(emitted[j]) \in Nat
  BY <1>1, PipelineAssumption DEF IInv, DaemonInv, Keys
<1>3. k \notin Known BY <1>1, <1>2 DEF IInv, ServerInv
<1>4. /\ wire' = wire \ {request} /\ server' = Registered(server, k)
      /\ UNCHANGED <<up, key, prev, emitted, chan, call, lost>>
  BY DEF Handle
<1> HIDE DEF k
<1>5. /\ Known' = Known \cup {k} /\ Credited' = Credited
      /\ server'.seen = server.seen /\ server'.refused = server.refused
      /\ server' = ServerState(Credited', Known', server'.seen, server'.refused)
  BY <1>2, <1>3, <1>4, RegistrationEffect DEF HandledRegistration
<1>6. DaemonInv' BY <1>4 DEF IInv, DaemonInv
<1>7. RequestInv' BY <1>4 DEF IInv, RequestInv, IsRequest
<1>8. ServerInv'
  <2>1. Known' \subseteq 1..key' BY <1>1, <1>4, <1>5 DEF IInv, ServerInv, k
  <2>2. \A j \in Keys : Registration(j) \in wire' => j \notin Known'
    BY <1>1, <1>4, <1>5 DEF IInv, ServerInv, k
  <2>3. \A j \in Keys : /\ Credited'[j] \in Nat /\ Credited'[j] <= Len(emitted'[j])
                        /\ j \notin Known' => Credited'[j] = 0
    BY <1>4, <1>5 DEF IInv, ServerInv
  <2>4. \A j \in Keys, i \in Nat : <<j, i>> \in server'.seen => i < Credited'[j]
    BY <1>5 DEF IInv, ServerInv
  <2> QED BY <1>5, <2>1, <2>2, <2>3, <2>4 DEF ServerInv
<1>9. ASSUME ~lost' PROVE InOrder'
  <2>1. InOrder BY <1>4, <1>9 DEF IInv
  <2>2. /\ server'.refused = {}
        /\ \A q, r \in wire' : q.device = r.device => q = r
        /\ \A r \in wire' : r.kind = "ingest" =>
             /\ r.device \in Known'
             /\ r = Batch(r.device, Chain(r.device, Credited'[r.device], Len(r.events)))
    BY <1>4, <1>5, <2>1 DEF InOrder
  <2>3. ASSUME up' PROVE key' \in Known' \/ (call' = Registration(key') /\ call' \in wire')
    <3>1. key \in Known \/ (call = Registration(key) /\ call \in wire)
      BY <1>4, <2>1, <2>3 DEF InOrder
    <3>2. call = request => key \in Known'
      <4>1. call # NoCall => call.device = key BY DEF IInv, RequestInv
      <4>2. request # NoCall BY RequestFacts DEF IInv, RequestInv
      <4> QED BY <1>5, <4>1, <4>2 DEF k
    <3> QED BY <1>4, <1>5, <3>1, <3>2
  <2>4. ASSUME up', key' \in Known'
        PROVE  Credited'[key'] + (IF call' \in wire' THEN Len(call'.events) ELSE 0) + Len(chan')
                 = Len(emitted'[key'])
    <3>1. CASE key \in Known
      <4>1. call # request
        <5>1. call # NoCall => call.device = key BY DEF IInv, RequestInv
        <5>2. request # NoCall BY RequestFacts DEF IInv, RequestInv
        <5> QED BY <1>3, <3>1, <5>1, <5>2 DEF k
      <4> QED BY <1>4, <1>5, <2>1, <2>4, <3>1, <4>1 DEF InOrder
    <3>2. CASE key \notin Known
      <4>1. k = key BY <1>4, <1>5, <2>4, <3>2
      <4>2. call = Registration(key) BY <1>4, <2>1, <2>4, <3>2 DEF InOrder
      <4>3. call \notin wire' BY <1>1, <1>4, <4>1, <4>2 DEF k
      <4>4. call.kind = "register" BY <4>2 DEF Registration
      <4>5. Len(emitted[key]) = 0 /\ Len(chan) \in Nat /\ Len(chan) <= Len(emitted[key])
        BY <1>4, <2>4, <4>4 DEF IInv, DaemonInv
      <4>6. Credited[key] = 0 BY <1>2, <3>2, <4>1 DEF IInv, ServerInv
      <4> QED BY <1>4, <1>5, <4>3, <4>5, <4>6
    <3> QED BY <3>1, <3>2
  <2>5. ASSUME up' PROVE \A r \in wire' : r.device = key' => r = call'
    BY <1>4, <2>1, <2>5 DEF InOrder
  <2> QED BY <2>2, <2>3, <2>4, <2>5 DEF InOrder
<1> QED BY <1>6, <1>7, <1>8, <1>9 DEF IInv

LEMMA HandleBatchIInv ==
  ASSUME IInv, NEW request \in wire, Handle(request), request.kind # "register"
  PROVE  IInv'
<1> DEFINE k == request.device
<1>1. /\ k \in 1..key /\ request.kind = "ingest" /\ request # NoCall
  BY RequestFacts DEF IInv, RequestInv
<1>2. /\ key \in Nat /\ k \in Keys /\ \A j \in Keys : Len(emitted[j]) \in Nat
      /\ \A j \in Keys : Credited[j] \in Nat /\ Credited[j] <= Len(emitted[j])
  BY <1>1, PipelineAssumption DEF IInv, DaemonInv, ServerInv, Keys
<1>3. PICK a \in Nat, m \in Nat :
        a + m <= Len(emitted[k]) /\ request = Batch(k, Chain(k, a, m))
  BY <1>1, RequestFacts DEF IInv, RequestInv
<1>4. /\ wire' = wire \ {request} /\ server' = IngestedAll(server, request.events)
      /\ UNCHANGED <<up, key, prev, emitted, chan, call, lost>>
  BY <1>1 DEF Handle
<1> HIDE DEF k
<1>5. \A b, n : request = Batch(k, Chain(k, b, n)) => request.events = Chain(k, b, n)
  BY DEF Batch
<1>6. DaemonInv' BY <1>4 DEF IInv, DaemonInv
<1>7. RequestInv' BY <1>4 DEF IInv, RequestInv, IsRequest
<1>8. HandledBatch(k, a, m) /\ server' = ServerState(Credited', Known', server'.seen, server'.refused)
  <2>1. server' = IngestedAll(server, Chain(k, a, m)) BY <1>3, <1>4, <1>5
  <2> QED BY <1>2, <2>1, BatchEffect
<1>9. ServerInv'
  <2>1. PICK n \in Nat :
          /\ Known' = Known /\ Credited' = [Credited EXCEPT ![k] = n]
          /\ n = Credited[k] \/ (Credited[k] < n /\ n <= a + m)
          /\ k \notin Known => n = Credited[k]
          /\ SeenOK(Credited', server'.seen)
    BY <1>8 DEF HandledBatch
  <2>2. k \in DOMAIN Credited /\ \A j \in Keys : j \in DOMAIN Credited BY <1>2 DEF Credited
  <2>3. Credited'[k] = n /\ \A j \in Keys : j # k => Credited'[j] = Credited[j] BY <2>1, <2>2
  <2>4. n <= Len(emitted[k]) BY <1>2, <1>3, <2>1
  <2>5. \A j \in Keys : /\ Credited'[j] \in Nat /\ Credited'[j] <= Len(emitted'[j])
                        /\ j \notin Known' => Credited'[j] = 0
    <3> TAKE j \in Keys
    <3>1. CASE j = k BY <1>4, <2>1, <2>3, <2>4, <3>1 DEF IInv, ServerInv
    <3>2. CASE j # k BY <1>2, <1>4, <2>1, <2>3, <3>2 DEF IInv, ServerInv
    <3> QED BY <3>1, <3>2
  <2>6. /\ Known' \subseteq 1..key'
        /\ \A j \in Keys : Registration(j) \in wire' => j \notin Known'
    BY <1>4, <2>1 DEF IInv, ServerInv
  <2>7. \A j \in Keys, i \in Nat : <<j, i>> \in server'.seen => i < Credited'[j]
    BY <2>1 DEF SeenOK
  <2> QED BY <1>8, <2>5, <2>6, <2>7 DEF ServerInv
<1>10. ASSUME ~lost' PROVE InOrder'
  <2> DEFINE c == Credited[k]
             q == Len(request.events)
  <2>1. InOrder BY <1>4, <1>10 DEF IInv
  <2>2. k \in Known /\ request = Batch(k, Chain(k, c, q)) BY <1>1, <2>1 DEF InOrder, k
  <2>3. c \in Nat /\ q \in Nat
    <3>1. Len(Chain(k, a, m)) = m BY ChainIsSeq
    <3> QED BY <1>2, <1>3, <1>5, <3>1
  <2> HIDE DEF c, q
  <2>4. HandledBatch(k, c, q)
    <3>1. server' = IngestedAll(server, Chain(k, c, q)) BY <1>4, <1>5, <2>2
    <3> QED BY <1>2, <2>3, <3>1, BatchEffect
  <2>5. /\ Known' = Known /\ Credited' = [Credited EXCEPT ![k] = c + q]
        /\ server'.refused = server.refused
    BY <2>2, <2>4 DEF HandledBatch, c
  <2>6. \A j : j # k => Credited'[j] = Credited[j] BY <2>5
  <2>7. \A r \in wire' : r.device # k BY <1>4, <2>1 DEF InOrder, k
  <2>8. /\ server'.refused = {}
        /\ \A r, t \in wire' : r.device = t.device => r = t
        /\ \A r \in wire' : r.kind = "ingest" =>
             /\ r.device \in Known'
             /\ r = Batch(r.device, Chain(r.device, Credited'[r.device], Len(r.events)))
    BY <1>4, <2>1, <2>5, <2>6, <2>7 DEF InOrder
  <2>9. ASSUME up' PROVE \A r \in wire' : r.device = key' => r = call'
    BY <1>4, <2>1, <2>9 DEF InOrder
  <2>10. call # Registration(key) \/ call # request
    <3>1. Registration(key).kind = "register" BY DEF Registration
    <3> QED BY <1>1, <3>1
  <2>11. ASSUME up' PROVE key' \in Known' \/ (call' = Registration(key') /\ call' \in wire')
    BY <1>4, <2>1, <2>5, <2>10, <2>11 DEF InOrder
  <2>12. ASSUME up', key' \in Known'
         PROVE  Credited'[key'] + (IF call' \in wire' THEN Len(call'.events) ELSE 0) + Len(chan')
                  = Len(emitted'[key'])
    <3>1. Credited[key] + (IF call \in wire THEN Len(call.events) ELSE 0) + Len(chan)
            = Len(emitted[key])
      BY <1>4, <2>1, <2>5, <2>12 DEF InOrder
    <3>2. CASE k = key
      <4>1. request = call BY <1>4, <2>1, <2>12, <3>2 DEF InOrder, k
      <4>2. c + q + Len(chan) = Len(emitted[key]) BY <3>1, <3>2, <4>1 DEF c, q
      <4>3. Credited'[key] = c + q
        <5>1. key \in DOMAIN Credited BY <1>2, <3>2 DEF Credited
        <5> QED BY <2>5, <3>2, <5>1
      <4>4. call' \notin wire' BY <1>4, <4>1
      <4>5. Len(chan) \in Nat BY DEF IInv, DaemonInv
      <4>6. (c + q) + 0 + Len(chan) = Len(emitted[key]) BY <2>3, <4>2, <4>5
      <4>7. (IF call' \in wire' THEN Len(call'.events) ELSE 0) = 0 BY <4>4
      <4> QED BY <1>4, <4>3, <4>6, <4>7
    <3>3. CASE k # key
      <4>1. call # request
        <5>1. call # NoCall => call.device = key BY DEF IInv, RequestInv
        <5> QED BY <1>1, <3>3, <5>1 DEF k
      <4>2. call' \in wire' <=> call \in wire BY <1>4, <4>1
      <4>3. Credited'[key'] = Credited[key] BY <1>4, <2>6, <3>3
      <4>4. CASE call \in wire BY <1>4, <3>1, <4>2, <4>3, <4>4
      <4>5. CASE call \notin wire BY <1>4, <3>1, <4>2, <4>3, <4>5
      <4> QED BY <4>4, <4>5
    <3> QED BY <3>2, <3>3
  <2> QED BY <2>8, <2>9, <2>11, <2>12 DEF InOrder
<1> QED BY <1>6, <1>7, <1>9, <1>10 DEF IInv

-----------------------------------------------------------------------------
(* What the invariant means. *)

LEMMA IInvIsType == IInv => TypeOK
<1> SUFFICES ASSUME IInv PROVE TypeOK OBVIOUS
<1> USE PipelineAssumption
<1>1. /\ up \in BOOLEAN /\ key \in 0..MaxRuns /\ key \in Nat
      /\ \A k \in Keys : Len(emitted[k]) \in Nat
  BY DEF IInv, DaemonInv
<1>2. \A k \in Keys : k > key => emitted[k] = <<>> BY EmptyChain DEF IInv, DaemonInv
<1>3. ASSUME NEW i \in DOMAIN chan PROVE chan[i].key = key
  <2>1. CASE up
    <3> DEFINE a == Len(emitted[key]) - Len(chan)
               n == Len(chan)
    <3>1. /\ a \in Nat /\ n \in Nat /\ chan = Chain(key, a, n)
      BY <2>1 DEF IInv, DaemonInv
    <3> HIDE DEF a, n
    <3>2. i \in 1..n /\ chan[i] = Event(key, a + i)
      <4>1. DOMAIN Chain(key, a, n) = 1..n
            /\ \A j \in 1..n : Chain(key, a, n)[j] = Event(key, a + j)
        BY <3>1, ChainIsSeq
      <4> QED BY <1>3, <3>1, <4>1
    <3> QED BY <3>2 DEF Event, NewEvent
  <2>2. CASE ~up
    <3>1. chan = <<>> BY <2>2 DEF IInv, DaemonInv
    <3>2. DOMAIN <<>> = {} OBVIOUS
    <3> QED BY <1>3, <3>1, <3>2
  <2> QED BY <1>1, <2>1, <2>2
<1>4. \A r \in wire : r.kind \in {"register", "ingest"} /\ r.device \in 1..key
  BY RequestFacts DEF IInv, RequestInv
<1>5. call.kind \in {"none", "register", "ingest"}
  <2>1. CASE call = NoCall BY <2>1 DEF NoCall
  <2>2. CASE call # NoCall BY <2>2, RequestFacts DEF IInv, RequestInv
  <2> QED BY <2>1, <2>2
<1>6. Known \subseteq 1..key BY DEF IInv, ServerInv
<1>7. ASSUME NEW k \in Known PROVE server.devices[k].ctr \in NoCtr..(Len(emitted[k]) - 1)
  <2>1. k \in Keys BY <1>1, <1>6 DEF Keys
  <2>2. Credited[k] \in Nat /\ Credited[k] <= Len(emitted[k]) BY <2>1 DEF IInv, ServerInv
  <2> DEFINE c == Credited
             D == Known
  <2>3. server = ServerState(c, D, server.seen, server.refused) /\ k \in D
    BY DEF IInv, ServerInv
  <2> HIDE DEF c, D
  <2>4. server.devices[k] = RecordOf(k, c[k])
    <3>1. server.devices = [d \in D |-> RecordOf(d, c[d])] BY <2>3 DEF ServerState
    <3> QED BY <2>3, <3>1
  <2>5. server.devices[k].ctr = c[k] - 1 BY <2>4 DEF RecordOf
  <2> QED BY <1>1, <2>1, <2>2, <2>5 DEF c, NoCtr
<1> QED BY <1>1, <1>2, <1>3, <1>4, <1>5, <1>6, <1>7 DEF TypeOK, Known

LEMMA NextIInv == IInv /\ [Next]_vars => IInv'
<1> SUFFICES ASSUME IInv, [Next]_vars PROVE IInv' OBVIOUS
<1>1. CASE Start BY <1>1, StartIInv
<1>2. CASE Crash BY <1>2, CrashIInv
<1>3. CASE Emit BY <1>3, EmitIInv
<1>4. CASE Flush BY <1>4, FlushIInv
<1>5. CASE Return BY <1>5, ReturnIInv
<1>6. CASE HandleAny
  <2>1. PICK request \in wire : Handle(request) BY <1>6 DEF HandleAny
  <2> QED BY <2>1, HandleRegistrationIInv, HandleBatchIInv
<1>7. CASE Drop \/ GiveUp BY <1>7, LossIInv
<1>8. CASE UNCHANGED vars
  <2>1. UNCHANGED <<up, key, prev, emitted, chan, call, wire, server, lost>> BY <1>8 DEF vars
  <2>2. Known' = Known /\ Credited' = Credited BY <2>1 DEF Known, Credited
  <2>3. DaemonInv' BY <2>1 DEF IInv, DaemonInv
  <2>4. RequestInv' BY <2>1 DEF IInv, RequestInv, IsRequest
  <2>5. ServerInv' BY <2>1, <2>2 DEF IInv, ServerInv
  <2>6. ~lost' => InOrder' BY <2>1, <2>2 DEF IInv, InOrder
  <2> QED BY <2>3, <2>4, <2>5, <2>6 DEF IInv
<1> QED BY <1>1, <1>2, <1>3, <1>4, <1>5, <1>6, <1>7, <1>8 DEF Next, Daemon

\* The inductive invariant holds of every behaviour.
THEOREM Invariance == Spec => []IInv
<1>1. Init => IInv BY InitIInv
<1>2. IInv /\ [Next]_vars => IInv' BY NextIInv
<1> QED BY <1>1, <1>2, PTL DEF Spec

\* Every variable has its type: in particular the server knows no device of a
\* run that has not started and is never ahead of what that run has made.
THEOREM Types == Spec => []TypeOK
<1>1. IInv => TypeOK BY IInvIsType
<1> QED BY <1>1, Invariance, PTL

\* While no request is lost or overtaken, the server refuses no event of an
\* unmodified daemon, over any number of runs and events (main.rs:341-351;
\* server main.rs:859-885).
THEOREM HonestEventsAccepted == Spec => []NoHonestEventRefused
<1>1. IInv => NoHonestEventRefused BY DEF IInv, InOrder, NoHonestEventRefused
<1> QED BY <1>1, Invariance, PTL

-----------------------------------------------------------------------------
(* The refinement. *)

\* The server's view of a device: the numbers of its first c events.
Numbers(c) == [i \in 1..c |-> i - 1]
NumbersIn(s) == [k \in Keys |-> [i \in DOMAIN s.credited[k] |-> s.credited[k][i].ctr]]
View == NumbersIn(server)
Made == [k \in Keys |-> Len(emitted[k])]

LEMMA LenNumbers ==
  ASSUME NEW c \in Nat
  PROVE  Len(Numbers(c)) = c
<1>1. Numbers(c) \in [1..c -> Int] BY DEF Numbers
<1>2. Numbers(c) \in Seq(Int) BY <1>1, SeqDef
<1>3. DOMAIN Numbers(c) = 1..c BY DEF Numbers
<1> QED BY <1>2, <1>3, LenProperties

LEMMA NumbersCredited ==
  ASSUME NEW c \in [Keys -> Nat], NEW D, NEW ids, NEW refused,
         NEW s, s = ServerState(c, D, ids, refused)
  PROVE  NumbersIn(s) = [k \in Keys |-> Numbers(c[k])]
<1>1. s.credited = [k \in Keys |-> Chain(k, 0, c[k])] BY DEF ServerState
<1>2. ASSUME NEW k \in Keys
      PROVE  [i \in DOMAIN s.credited[k] |-> s.credited[k][i].ctr] = Numbers(c[k])
  <2>1. c[k] \in Nat OBVIOUS
  <2>2. s.credited[k] = Chain(k, 0, c[k]) BY <1>1
  <2>3. /\ DOMAIN Chain(k, 0, c[k]) = 1..c[k]
        /\ \A i \in 1..c[k] : Chain(k, 0, c[k])[i] = Event(k, 0 + i)
    BY <2>1, ChainIsSeq
  <2>4. \A i \in 1..c[k] : Event(k, 0 + i).ctr = i - 1 BY <2>1 DEF Event, NewEvent
  <2> QED BY <2>2, <2>3, <2>4 DEF Numbers
<1> QED BY <1>2 DEF NumbersIn

LEMMA ViewIs ==
  /\ ServerInv => View = [k \in Keys |-> Numbers(Credited[k])]
  /\ ServerInv' => View' = [k \in Keys |-> Numbers(Credited'[k])]
<1>1. ASSUME ServerInv PROVE View = [k \in Keys |-> Numbers(Credited[k])]
  <2> DEFINE c == Credited
             D == Known
  <2>1. server = ServerState(c, D, server.seen, server.refused) /\ c \in [Keys -> Nat]
    BY <1>1 DEF ServerInv, Credited
  <2> HIDE DEF c, D
  <2>2. NumbersIn(server) = [k \in Keys |-> Numbers(c[k])] BY <2>1, NumbersCredited
  <2>3. View = [k \in Keys |-> Numbers(c[k])] BY <2>2 DEF View, NumbersIn
  <2> QED BY <2>3 DEF c
<1>2. ASSUME ServerInv' PROVE View' = [k \in Keys |-> Numbers(Credited'[k])]
  <2> DEFINE c == Credited'
             D == Known'
  <2>1. server' = ServerState(c, D, server'.seen, server'.refused) /\ c \in [Keys -> Nat]
    BY <1>2 DEF ServerInv, Credited
  <2> HIDE DEF c, D
  <2>2. NumbersIn(server') = [k \in Keys |-> Numbers(c[k])] BY <2>1, NumbersCredited
  <2>3. View' = [k \in Keys |-> Numbers(c[k])] BY <2>2 DEF View, NumbersIn
  <2> QED BY <2>3 DEF c
<1> QED BY <1>1, <1>2

LEMMA HandleEffect ==
  ASSUME IInv, NEW request \in wire, Handle(request)
  PROVE  \/ Credited' = Credited
         \/ \E k \in Keys, n \in Nat :
              Credited[k] < n /\ Credited' = [Credited EXCEPT ![k] = n]
<1> DEFINE k == request.device
<1>1. k \in 1..key /\ k \in Keys
  BY RequestFacts, PipelineAssumption DEF IInv, DaemonInv, RequestInv, Keys
<1>2. CASE request.kind = "register"
  <2>1. request = Registration(k) BY <1>2, RequestFacts DEF IInv, RequestInv
  <2>2. k \notin Known BY <1>1, <2>1 DEF IInv, ServerInv
  <2>3. server' = Registered(server, k) BY <1>2 DEF Handle
  <2> QED BY <1>1, <2>2, <2>3, RegistrationEffect DEF HandledRegistration
<1>3. CASE request.kind # "register"
  <2>1. PICK a \in Nat, m \in Nat : request = Batch(k, Chain(k, a, m))
    BY <1>3, RequestFacts DEF IInv, RequestInv
  <2>2. server' = IngestedAll(server, Chain(k, a, m))
    <3>1. request.events = Chain(k, a, m) BY <2>1 DEF Batch
    <3> QED BY <1>3, <3>1 DEF Handle
  <2>3. HandledBatch(k, a, m) BY <1>1, <2>2, BatchEffect
  <2>4. PICK n \in Nat :
          /\ Credited' = [Credited EXCEPT ![k] = n]
          /\ n = Credited[k] \/ Credited[k] < n
    BY <2>3 DEF HandledBatch
  <2>5. [Credited EXCEPT ![k] = Credited[k]] = Credited BY DEF Credited
  <2> QED BY <1>1, <2>4, <2>5
<1> QED BY <1>2, <1>3

LEMMA InitCredits == Init => Credits!Init
<1> SUFFICES ASSUME Init PROVE Credits!Init OBVIOUS
<1>1. ServerInv BY InitIInv DEF IInv
<1>2. Len(<<>>) = 0 OBVIOUS
<1>3. Made = [k \in Keys |-> 0] BY <1>2 DEF Init, Made
<1>4. \A k \in Keys : Credited[k] = 0 BY <1>2 DEF Init, Credited
<1>5. Numbers(0) = <<>>
  <2>1. Numbers(0) \in [1..0 -> Int] BY DEF Numbers
  <2>2. Numbers(0) \in Seq(Int) BY <2>1, SeqDef
  <2>3. Len(Numbers(0)) = 0 BY LenNumbers
  <2> QED BY <2>2, <2>3, EmptySeq
<1>6. View = [k \in Keys |-> <<>>] BY <1>1, <1>4, <1>5, ViewIs
<1> QED BY <1>3, <1>6 DEF Credits!Init, Made, View, NumbersIn

LEMMA NextCredits == IInv /\ IInv' /\ [Next]_vars => [Credits!Next]_(Credits!credit)
<1> SUFFICES ASSUME IInv, IInv', [Next]_vars
             PROVE  (\E k \in Keys : Credits!Make(k) \/ Credits!Credit(k))
                      \/ (Made' = Made /\ View' = View)
  BY DEF Credits!Next, Credits!credit, Made, View, NumbersIn
<1>1. CASE Emit
  <2>1. /\ server' = server /\ key \in Keys /\ key \in DOMAIN emitted
        /\ Len(emitted'[key]) = Len(emitted[key]) + 1
        /\ \A k \in Keys : k # key => emitted'[k] = emitted[k]
    <3>1. /\ key \in Keys /\ key \in DOMAIN emitted
          /\ emitted[key] = Chain(key, 0, Len(emitted[key])) /\ Len(emitted[key]) \in Nat
      BY <1>1 DEF Emit, IInv, DaemonInv
    <3>2. prev = HeadAfter(key, Len(emitted[key])) BY <1>1 DEF Emit, IInv, DaemonInv
    <3> DEFINE L == Len(emitted[key])
               e == NewEvent(key, L, prev, 1)
    <3>3. emitted' = [emitted EXCEPT ![key] = Append(@, e)] BY <1>1 DEF Emit
    <3>4. e = Event(key, 0 + L + 1)
      <4>1. Event(key, L + 1) = NewEvent(key, L, HeadAfter(key, L), 1) BY <3>1, EventIs
      <4>2. 0 + L + 1 = L + 1 BY <3>1
      <4> QED BY <3>2, <4>1, <4>2
    <3>5. Append(Chain(key, 0, L), Event(key, 0 + L + 1)) = Chain(key, 0, L + 1)
      BY <3>1, ChainGrows
    <3>6. Len(Chain(key, 0, L + 1)) = L + 1
      <4>1. L + 1 \in Nat BY <3>1
      <4> QED BY <4>1, ChainIsSeq
    <3>7. server' = server BY <1>1 DEF Emit
    <3> HIDE DEF e, L
    <3>8. emitted'[key] = Append(emitted[key], e) BY <3>1, <3>3
    <3>9. emitted'[key] = Chain(key, 0, L + 1) BY <3>1, <3>4, <3>5, <3>8 DEF L
    <3>10. Len(emitted'[key]) = Len(emitted[key]) + 1 BY <3>6, <3>9 DEF L
    <3> QED BY <3>1, <3>3, <3>7, <3>10
  <2>2. Made' = [Made EXCEPT ![key] = @ + 1]
    <3>1. \A k \in Keys : Made'[k] = [Made EXCEPT ![key] = @ + 1][k] BY <2>1 DEF Made
    <3> QED BY <3>1 DEF Made
  <2>3. View' = View BY <2>1 DEF View, NumbersIn
  <2>4. PICK k \in Keys : k = key BY <2>1
  <2>5. Credits!Make(k) BY <2>2, <2>3, <2>4 DEF Credits!Make, Made, View, NumbersIn
  <2> QED BY <2>5
<1>2. CASE HandleAny
  <2>1. PICK request \in wire : Handle(request) BY <1>2 DEF HandleAny
  <2>2. emitted' = emitted /\ Made' = Made BY <2>1 DEF Handle, Made
  <2>3. View = [k \in Keys |-> Numbers(Credited[k])] BY ViewIs DEF IInv
  <2>5. View' = [k \in Keys |-> Numbers(Credited'[k])] BY ViewIs DEF IInv
  <2>6. CASE Credited' = Credited BY <2>2, <2>3, <2>5, <2>6
  <2>7. CASE Credited' # Credited
    <3>1. PICK k \in Keys, n \in Nat :
            Credited[k] < n /\ Credited' = [Credited EXCEPT ![k] = n]
      BY <2>1, <2>7, HandleEffect
    <3>2. /\ Credited[k] \in Nat /\ Credited'[k] = n
          /\ \A j \in Keys : j # k => Credited'[j] = Credited[j]
      BY <3>1 DEF IInv, ServerInv, Credited
    <3>3. n <= Len(emitted[k]) /\ Len(emitted[k]) \in Nat
      BY <2>2, <3>2 DEF IInv, ServerInv, DaemonInv
    <3>4. Len(View[k]) = Credited[k] /\ Made[k] = Len(emitted[k])
      BY <2>3, <3>2, LenNumbers DEF Made
    <3>5. n \in (Len(View[k]) + 1)..Made[k] BY <3>1, <3>2, <3>3, <3>4
    <3>6. View' = [View EXCEPT ![k] = Numbers(n)] BY <2>3, <2>5, <3>2
    <3>7. Credits!Credit(k)
      BY <2>2, <3>5, <3>6 DEF Credits!Credit, Made, View, NumbersIn, Numbers
    <3> QED BY <3>7
  <2> QED BY <2>6, <2>7
<1>3. CASE Start \/ Crash \/ Flush \/ Return \/ Drop \/ GiveUp \/ UNCHANGED vars
  BY <1>3 DEF Start, Crash, Flush, Return, Drop, GiveUp, vars, Made, View, NumbersIn
<1> QED BY <1>1, <1>2, <1>3 DEF Next, Daemon

\* Whatever the network loses or delays and however often the daemon restarts,
\* each device's events are credited in the order it made them, none skipped
\* and none twice (server main.rs:859-893).
THEOREM Refinement == Spec => CreditsInOrder
<1>1. Init => Credits!Init BY InitCredits
<1>2. IInv /\ IInv' /\ [Next]_vars => [Credits!Next]_(Credits!credit) BY NextCredits
<1> QED BY <1>1, <1>2, Invariance, PTL DEF Spec, CreditsInOrder, Credits!Spec

=============================================================================
