------------------------ MODULE ImpressionEngineProofs ------------------------
(***************************************************************************)
(* Lemmas about the operators of ImpressionEngine, for every value of its  *)
(* constants, and the lemmas on numbers and on joined sequences that the   *)
(* proofs about its users, the daemon and the sessions, have in common.    *)
(***************************************************************************)
EXTENDS ImpressionEngine, FiniteSetTheorems, SequenceTheorems, WellFoundedInduction, TLAPS

\* Rounding down to whole units never gains anything.
LEMMA DivBelow ==
  ASSUME NEW n \in Nat, NEW d \in Nat \ {0}
  PROVE  n \div d \in Nat /\ (n \div d) * d <= n
  BY SMT

LEMMA TimesMonotone ==
  ASSUME NEW a \in Nat, NEW b \in Nat, NEW c \in Nat, a <= b
  PROVE  a * c <= b * c
  BY SMT

LEMMA Distributes ==
  ASSUME NEW a \in Nat, NEW b \in Nat, NEW c \in Nat
  PROVE  (a + b) * c = a * c + b * c /\ a * c \in Nat /\ b * c \in Nat
  BY SMT

\* An account of what is spent and unspent stays balanced when some of what
\* is unspent is paid for, and when both sides grow by as much.
LEMMA SpendNow ==
  ASSUME NEW x \in Nat, NEW y \in Nat, NEW a \in Nat, NEW b \in Nat, NEW c \in Nat,
         NEW n \in Nat, NEW z \in Nat,
         x + a * n <= z, y <= c * n, b + c <= a
  PROVE  (x + y) + b * n <= z
<1>1. (b + c) * n <= a * n BY TimesMonotone
<1>2. (b + c) * n = b * n + c * n /\ b * n \in Nat /\ c * n \in Nat /\ a * n \in Nat
  BY Distributes
<1> DEFINE p == a * n
           q == b * n
           r == c * n
<1>3. p \in Nat /\ q \in Nat /\ r \in Nat /\ q + r <= p /\ x + p <= z /\ y <= r
  BY <1>1, <1>2
<1> HIDE DEF p, q, r
<1>4. (x + y) + q <= z BY <1>3
<1> QED BY <1>4 DEF q

LEMMA SpendLater ==
  ASSUME NEW x \in Nat, NEW a \in Nat, NEW b \in Nat, NEW d \in Nat,
         NEW n \in Nat, NEW z \in Nat,
         x + a * n <= z * n, b <= a + d
  PROVE  x + b * n <= (z + d) * n
<1>1. b * n <= (a + d) * n BY TimesMonotone
<1>2. (a + d) * n = a * n + d * n /\ (z + d) * n = z * n + d * n
  BY Distributes
<1> DEFINE p == a * n
           q == b * n
           r == d * n
           s == z * n
<1>3. p \in Nat /\ q \in Nat /\ r \in Nat /\ s \in Nat /\ q <= p + r /\ x + p <= s
  BY <1>1, <1>2, Distributes
<1>4. (z + d) * n = s + r BY <1>2
<1> HIDE DEF p, q, r, s
<1>5. x + q <= s + r BY <1>3
<1> QED BY <1>4, <1>5 DEF q

\* When each unit comes to be worth more, what is held of it is worth no less
\* than before.
LEMMA WorthMore ==
  ASSUME NEW x \in Nat, NEW u \in Nat, NEW z \in Nat, NEW n \in Nat \ {0}, NEW m \in Nat,
         n <= m, x + u * n <= z * n
  PROVE  x + u * m <= z * m
<1>1. u * n \in Nat /\ z * n \in Nat /\ u * m \in Nat /\ z * m \in Nat BY Distributes
<1>2. u <= z
  <2> SUFFICES ASSUME z + 1 <= u PROVE FALSE OBVIOUS
  <2>1. (z + 1) * n <= u * n BY TimesMonotone
  <2>2. (z + 1) * n = z * n + 1 * n /\ 1 * n = n BY Distributes
  <2> DEFINE a == u * n
             b == z * n
  <2>3. a \in Nat /\ b \in Nat /\ b + n <= a /\ x + a <= b BY <1>1, <2>1, <2>2
  <2> HIDE DEF a, b
  <2> QED BY <2>3
<1> DEFINE d == z - u
<1>3. d \in Nat /\ z = u + d BY <1>2
<1> HIDE DEF d
<1>4. z * n = u * n + d * n /\ z * m = u * m + d * m /\ d * n \in Nat /\ d * m \in Nat
  BY <1>3, Distributes
<1>5. d * n <= d * m
  <2>1. n * d <= m * d BY <1>3, TimesMonotone
  <2>2. n * d = d * n /\ m * d = d * m BY <1>3
  <2> QED BY <2>1, <2>2
<1> DEFINE a == u * n
           b == u * m
           e == d * n
           f == d * m
<1>6. a \in Nat /\ b \in Nat /\ e \in Nat /\ f \in Nat /\ x + a <= a + e /\ e <= f
      /\ z * m = b + f
  BY <1>1, <1>4, <1>5
<1> HIDE DEF a, b, e, f
<1>7. x + b <= b + f BY <1>6
<1> QED BY <1>6, <1>7 DEF b

\* A sub-span never counts more seconds than the time it lasted.
LEMMA CountableBounded ==
  ASSUME NEW open \in Nat, NEW close \in Nat, NEW hb, NEW paused, NEW tty
  PROVE  /\ CountableSecondsIn(open, close, hb, paused, tty) \in Nat
         /\ CountableSecondsIn(open, close, hb, paused, tty) * SECOND
              <= IF close > open THEN close - open ELSE 0
<1> DEFINE C == CountableSecondsIn(open, close, hb, paused, tty)
<1>1. CASE paused \/ ~tty \/ close <= open
  <2>1. C = 0 BY <1>1 DEF CountableSecondsIn
  <2>2. 0 * SECOND = 0 /\ 0 \in Nat BY EngineAssumption
  <2> QED BY <2>1, <2>2
<1>2. CASE ~(paused \/ ~tty \/ close <= open)
  <2> DEFINE n == WholeSeconds(open, close)
             T == {k \in 1..n : Fresh(hb, open + k * SECOND)}
  <2>1. close - open \in Nat /\ close > open BY <1>2
  <2>2. n \in Nat /\ n * SECOND <= close - open
    BY <2>1, DivBelow, EngineAssumption DEF WholeSeconds
  <2>3. IsFiniteSet(1..n) /\ Cardinality(1..n) = n
    BY <2>2, FS_Interval
  <2>4. Cardinality(T) \in Nat /\ Cardinality(T) <= n
    BY <2>3, FS_Subset, FS_CardinalityType
  <2>5. Cardinality(T) * SECOND <= n * SECOND
    BY <2>2, <2>4, TimesMonotone, EngineAssumption
  <2>6. C = Cardinality(T) BY <1>2 DEF CountableSecondsIn
  <2>7. Cardinality(T) * SECOND \in Nat /\ n * SECOND \in Nat
    BY <2>2, <2>4, EngineAssumption
  <2> QED BY <2>1, <2>2, <2>4, <2>5, <2>6, <2>7
<1> QED BY <1>1, <1>2

\* An impression is paid for with IMPRESSION_SECONDS counted seconds.
LEMMA ImpressionsBacked ==
  ASSUME NEW c \in Nat
  PROVE  Impressions(c) \in Nat /\ Impressions(c) * IMPRESSION_SECONDS <= c
<1> DEFINE n == c \div IMPRESSION_SECONDS
<1>1. n \in Nat /\ n * IMPRESSION_SECONDS <= c
  BY DivBelow, EngineAssumption
<1>2. Impressions(c) \in Nat /\ Impressions(c) <= n
  BY <1>1, EngineAssumption DEF Impressions
<1>3. Impressions(c) * IMPRESSION_SECONDS <= n * IMPRESSION_SECONDS
  BY <1>1, <1>2, TimesMonotone, EngineAssumption
<1> QED BY <1>1, <1>2, <1>3, EngineAssumption

LEMMA NoImpressionForNothing == Impressions(0) = 0
<1>1. 0 \div IMPRESSION_SECONDS = 0 BY EngineAssumption
<1> QED BY <1>1, EngineAssumption DEF Impressions

\* The operations of the engine keep a session a session.
LEMMA EngineTypes ==
  ASSUME NEW s \in SessionType, NEW t \in Nat, NEW b \in BOOLEAN
  PROVE  /\ NewSession \in SessionType
         /\ CloseSubspan(s, t) \in SessionType
         /\ Closed(s, t) \in SessionType
         /\ StopImpressions(s, t) \in Nat
         /\ OnPromptSubmit(s, t) \in SessionType
         /\ OnPreTool(s, t) \in SessionType
         /\ OnPostTool(s, t) \in SessionType
         /\ OnStop(s, t) \in SessionType
         /\ OnHeartbeat(s, t) \in SessionType
         /\ SetPaused(s, b) \in SessionType
<1>1. NewSession \in SessionType BY DEF NewSession, SessionType, Phase, NotOpen
<1>2. CloseSubspan(s, t) \in SessionType
  <2>1. CASE s.open = NotOpen BY <2>1 DEF CloseSubspan
  <2>2. CASE s.open # NotOpen
    <3> DEFINE c == CountableSecondsIn(s.open, t, s.heartbeats, s.paused, s.tty)
    <3>1. s.open \in Nat BY <2>2 DEF SessionType
    <3>2. c \in Nat BY <3>1, CountableBounded
    <3>3. CloseSubspan(s, t) = [s EXCEPT !.open = NotOpen, !.counted = @ + c]
      BY <2>2 DEF CloseSubspan
    <3> HIDE DEF c
    <3>4. s.counted + c \in Nat BY <3>2 DEF SessionType
    <3> QED BY <3>3, <3>4 DEF SessionType
  <2> QED BY <2>1, <2>2
<1>3. Closed(s, t) \in SessionType BY <1>2 DEF Closed
<1>4. StopImpressions(s, t) \in Nat
  <2>1. Closed(s, t).counted \in Nat BY <1>3 DEF SessionType
  <2> QED BY <2>1, ImpressionsBacked DEF StopImpressions
<1>5. \A x \in SessionType : ResetInterval(x) \in SessionType
  BY DEF ResetInterval, SessionType, Phase
<1>6. OnPromptSubmit(s, t) \in SessionType
  BY <1>5 DEF OnPromptSubmit, SessionType, Phase
<1>7. OnPreTool(s, t) \in SessionType
  BY <1>2 DEF OnPreTool, SessionType, Phase
<1>8. OnPostTool(s, t) \in SessionType
  BY DEF OnPostTool, SessionType, Phase
<1>9. OnStop(s, t) \in SessionType
  BY <1>3, <1>5 DEF OnStop
<1>10. OnHeartbeat(s, t) \in SessionType
  BY DEF OnHeartbeat, SessionType
<1>11. SetPaused(s, b) \in SessionType
  BY DEF SetPaused, SessionType
<1> QED BY <1>1, <1>2, <1>3, <1>4, <1>6, <1>7, <1>8, <1>9, <1>10, <1>11

\* No operation but SetPaused touches a session's pause switch.
LEMMA EngineKeepsPause ==
  ASSUME NEW s \in SessionType, NEW t \in Nat, NEW b \in BOOLEAN
  PROVE  /\ SetPaused(s, b).paused = b
         /\ OnPromptSubmit(s, t).paused = s.paused
         /\ OnPreTool(s, t).paused = s.paused
         /\ OnPostTool(s, t).paused = s.paused
         /\ OnStop(s, t).paused = s.paused
         /\ OnHeartbeat(s, t).paused = s.paused
<1>1. CloseSubspan(s, t).paused = s.paused /\ CloseSubspan(s, t) \in SessionType
  BY EngineTypes DEF CloseSubspan, SessionType
<1>2. Closed(s, t).paused = s.paused /\ Closed(s, t) \in SessionType
  BY <1>1, EngineTypes DEF Closed
<1>3. \A x \in SessionType : ResetInterval(x).paused = x.paused
  BY DEF ResetInterval, SessionType
<1>4. SetPaused(s, b).paused = b BY DEF SetPaused, SessionType
<1>5. OnPromptSubmit(s, t).paused = s.paused
  BY DEF OnPromptSubmit, ResetInterval, SessionType
<1>6. OnPreTool(s, t).paused = s.paused
  <2>1. CASE s.phase = "Waiting" BY <1>1, <2>1 DEF OnPreTool, SessionType
  <2>2. CASE s.phase # "Waiting" BY <2>2 DEF OnPreTool
  <2> QED BY <2>1, <2>2
<1>7. OnPostTool(s, t).paused = s.paused BY DEF OnPostTool, SessionType
<1>8. OnStop(s, t).paused = s.paused BY <1>2, <1>3 DEF OnStop
<1>9. OnHeartbeat(s, t).paused = s.paused BY DEF OnHeartbeat, SessionType
<1> QED BY <1>4, <1>5, <1>6, <1>7, <1>8, <1>9

-----------------------------------------------------------------------------
(* What a heartbeat permits.  While the clock is not stepped back, counted   *)
(* seconds are spaced a second apart and each is within the gate of a        *)
(* heartbeat, so n heartbeats permit at most n times the ticks of one gate.  *)
(* Each step back may open the gates of the heartbeats held once more.       *)

GateTicks == GATE_WINDOW \div SECOND + 1

\* The seconds one heartbeat may attest when the clock was stepped back k times.
Permits(k) == (k + 1) * GateTicks

Spaced(T) == \A a, b \in T : a < b => a + SECOND <= b

\* The session counted `before` seconds until the clock was last stepped back,
\* and T could be the instants of those it has counted since.
Attests(T, before, s, t) ==
  /\ T \subseteq Nat /\ IsFiniteSet(T) /\ Spaced(T)
  /\ s.counted = before + Cardinality(T)
  /\ \A a \in T : /\ a <= t /\ Fresh(s.heartbeats, a)
                  /\ s.open # NotOpen => a <= s.open

GateInv(s, t, k) ==
  /\ IsFiniteSet(s.heartbeats)
  /\ \E before \in Nat, T \in SUBSET Nat :
       before <= Cardinality(s.heartbeats) * (k * GateTicks) /\ Attests(T, before, s, t)

LEMMA DivFacts ==
  ASSUME NEW a \in Nat, NEW b \in Nat, NEW d \in Nat \ {0}
  PROVE  /\ a \div d \in Nat
         /\ a <= b => a \div d <= b \div d
         /\ a <= b /\ a \div d = b \div d => b < a + d
<1>1. a = d * (a \div d) + (a % d) /\ a % d \in 0..(d - 1) /\ a \div d \in Nat BY SMT
<1>2. b = d * (b \div d) + (b % d) /\ b % d \in 0..(d - 1) /\ b \div d \in Nat BY SMT
<1>3. ASSUME a <= b, b \div d < a \div d PROVE FALSE
  <2>1. (b \div d + 1) * d <= (a \div d) * d BY <1>1, <1>2, <1>3, TimesMonotone
  <2> DEFINE x == a \div d
             y == b \div d
  <2>2. (y + 1) * d = y * d + d BY <1>2, Distributes
  <2> QED BY <1>1, <1>2, <1>3, <2>1, <2>2
<1> QED BY <1>1, <1>2, <1>3

LEMMA GateTicksNat == GateTicks \in Nat /\ GATE_WINDOW \div SECOND \in Nat
<1>1. GATE_WINDOW \div SECOND \in Nat BY DivFacts, EngineAssumption
<1> QED BY <1>1 DEF GateTicks

LEMMA PermitsNat ==
  ASSUME NEW k \in Nat
  PROVE  /\ Permits(k) \in Nat \ {0} /\ k * GateTicks \in Nat
         /\ Permits(k) = k * GateTicks + GateTicks
         /\ Permits(k + 1) \in Nat \ {0} /\ (k + 1) * GateTicks = Permits(k)
         /\ Permits(k) <= Permits(k + 1)
<1> DEFINE g == GateTicks
<1>1. g \in Nat \ {0} BY GateTicksNat DEF GateTicks
<1>2. Permits(k) = (k + 1) * g /\ Permits(k + 1) = ((k + 1) + 1) * g BY DEF Permits
<1> HIDE DEF g
<1>3. /\ (k + 1) * g = k * g + 1 * g /\ k * g \in Nat /\ 1 * g = g
      /\ ((k + 1) + 1) * g = (k + 1) * g + 1 * g
  BY <1>1, Distributes
<1> DEFINE a == k * g
<1>4. a \in Nat /\ Permits(k) = a + g /\ Permits(k + 1) = (a + g) + g BY <1>2, <1>3
<1> HIDE DEF a
<1>5. Permits(k) \in Nat \ {0} /\ Permits(k + 1) \in Nat \ {0} /\ Permits(k) <= Permits(k + 1)
  BY <1>1, <1>4
<1> QED BY <1>2, <1>4, <1>5 DEF a, g

\* Map each instant to a heartbeat that permits it and to the whole seconds
\* between them: two instants a second apart never share both.
LEMMA SpacedFew ==
  ASSUME NEW hb \in SUBSET Nat, IsFiniteSet(hb), NEW T \in SUBSET Nat, Spaced(T),
         \A a \in T : Fresh(hb, a)
  PROVE  Cardinality(T) <= Cardinality(hb) * GateTicks
<1> DEFINE q == GATE_WINDOW \div SECOND
           h(a) == CHOOSE x \in hb : x <= a /\ a - x <= GATE_WINDOW
           f == [a \in T |-> <<h(a), (a - h(a)) \div SECOND>>]
<1>1. \A a \in T : h(a) \in hb /\ h(a) <= a /\ a - h(a) <= GATE_WINDOW BY DEF Fresh
<1> HIDE DEF h
<1>2. \A a \in T : a \in Nat /\ h(a) \in Nat /\ a - h(a) \in Nat
  <2> TAKE a \in T
  <2>1. a \in Nat /\ h(a) \in Nat /\ h(a) <= a BY <1>1
  <2> QED BY <2>1
<1>3. \A a \in T : (a - h(a)) \div SECOND \in 0..q
  <2> TAKE a \in T
  <2>1. a - h(a) \in Nat /\ a - h(a) <= GATE_WINDOW BY <1>1, <1>2
  <2>2. (a - h(a)) \div SECOND \in Nat /\ (a - h(a)) \div SECOND <= q
    BY <2>1, DivFacts, EngineAssumption
  <2>3. q \in Nat BY GateTicksNat
  <2> HIDE DEF q
  <2> QED BY <2>2, <2>3
<1>4. \A a, b \in T : a < b => f[a] # f[b]
  <2> SUFFICES ASSUME NEW a \in T, NEW b \in T, a < b, f[a] = f[b] PROVE FALSE OBVIOUS
  <2>1. h(a) = h(b) /\ (a - h(a)) \div SECOND = (b - h(b)) \div SECOND BY <2>1
  <2> DEFINE x == a - h(a)
             y == b - h(a)
  <2>2. x \in Nat /\ y \in Nat /\ x <= y /\ x \div SECOND = y \div SECOND
    BY <1>2, <2>1
  <2>3. y < x + SECOND BY <2>2, DivFacts, EngineAssumption
  <2>4. a + SECOND <= b BY DEF Spaced
  <2> QED BY <1>2, <2>3, <2>4, EngineAssumption
<1>5. f \in [T -> hb \X (0..q)] BY <1>1, <1>3
<1> HIDE DEF f
<1>6. f \in Injection(T, hb \X (0..q))
  <2>1. \A a, b \in T : a < b \/ b < a \/ a = b BY <1>2
  <2>2. \A a, b \in T : f[a] = f[b] => a = b BY <1>4, <2>1
  <2> QED BY <1>5, <2>2 DEF Injection, IsInjective
<1>7. IsFiniteSet(0..q) /\ Cardinality(0..q) = q + 1
  <2>1. q \in Nat BY GateTicksNat
  <2> HIDE DEF q
  <2> QED BY <2>1, FS_Interval
<1>8. IsFiniteSet(hb \X (0..q)) /\ Cardinality(hb \X (0..q)) = Cardinality(hb) * (q + 1)
  BY <1>7, FS_Product
<1>9. Cardinality(T) <= Cardinality(hb \X (0..q)) BY <1>6, <1>8, FS_Injection
<1> QED BY <1>8, <1>9 DEF GateTicks

LEMMA GateFew ==
  ASSUME NEW s \in SessionType, NEW t \in Nat, NEW k \in Nat, GateInv(s, t, k)
  PROVE  s.counted <= Cardinality(s.heartbeats) * Permits(k)
<1>1. PICK before \in Nat, T \in SUBSET Nat :
        before <= Cardinality(s.heartbeats) * (k * GateTicks) /\ Attests(T, before, s, t)
  BY DEF GateInv
<1>2. s.heartbeats \in SUBSET Nat /\ IsFiniteSet(s.heartbeats) BY DEF SessionType, GateInv
<1> DEFINE h == Cardinality(s.heartbeats)
           n == Cardinality(T)
<1>3. s.counted = before + n /\ n \in Nat /\ h \in Nat
  BY <1>1, <1>2, FS_CardinalityType DEF Attests
<1>4. n <= h * GateTicks BY <1>1, <1>2, SpacedFew DEF Attests
<1>5. before <= h * (k * GateTicks) BY <1>1
<1> HIDE DEF h, n
<1>6. h * Permits(k) = h * (k * GateTicks) + h * GateTicks
      /\ h * (k * GateTicks) \in Nat /\ h * GateTicks \in Nat
  <2> DEFINE a == k * GateTicks
             g == GateTicks
  <2>1. a \in Nat /\ g \in Nat /\ Permits(k) = a + g BY PermitsNat, GateTicksNat
  <2> HIDE DEF a, g
  <2>2. (a + g) * h = a * h + g * h /\ a * h \in Nat /\ g * h \in Nat
    BY <1>3, <2>1, Distributes
  <2>3. h * (a + g) = (a + g) * h /\ h * a = a * h /\ h * g = g * h BY <1>3, <2>1
  <2> QED BY <2>1, <2>2, <2>3 DEF a, g
<1> DEFINE v == h * (k * GateTicks)
           w == h * GateTicks
<1>7. v \in Nat /\ w \in Nat /\ before <= v /\ n <= w /\ h * Permits(k) = v + w
  BY <1>4, <1>5, <1>6
<1> HIDE DEF v, w
<1>8. before + n <= v + w BY <1>3, <1>7
<1> QED BY <1>3, <1>7, <1>8 DEF h

\* The instants that CountableSecondsIn counts extend those counted before.
LEMMA ClosedAttests ==
  ASSUME NEW s \in SessionType, NEW t \in Nat, NEW j \in Nat, GateInv(s, t, j)
  PROVE  /\ GateInv(CloseSubspan(s, t), t, j)
         /\ CloseSubspan(s, t).heartbeats = s.heartbeats
<1> DEFINE r == CloseSubspan(s, t)
           c == CountableSecondsIn(s.open, t, s.heartbeats, s.paused, s.tty)
<1>1. r.heartbeats = s.heartbeats BY DEF CloseSubspan, SessionType
<1>2. CASE s.open = NotOpen BY <1>2 DEF CloseSubspan
<1>3. CASE s.open # NotOpen
  <2>1. PICK before \in Nat, T \in SUBSET Nat :
          /\ before <= Cardinality(s.heartbeats) * (j * GateTicks)
          /\ Attests(T, before, s, t)
    BY DEF GateInv
  <2>2. s.open \in Nat /\ IsFiniteSet(s.heartbeats) /\ s.counted \in Nat
    BY <1>3 DEF SessionType, GateInv
  <2>0. \A a \in T : a \in Nat /\ a <= s.open /\ a <= t BY <1>3, <2>1 DEF Attests
  <2>3. r = [s EXCEPT !.open = NotOpen, !.counted = @ + c] BY <1>3 DEF CloseSubspan
  <2> HIDE DEF c, r
  <2>4. r.open = NotOpen /\ r.counted = s.counted + c BY <2>3 DEF SessionType
  <2> SUFFICES \E U \in SUBSET Nat : Attests(U, before, r, t)
    BY <1>1, <2>1, <2>2 DEF GateInv, r
  <2>5. CASE s.paused \/ ~s.tty \/ t <= s.open
    <3>1. c = 0 BY <2>5 DEF c, CountableSecondsIn
    <3>2. r.counted = s.counted BY <2>2, <2>4, <3>1
    <3>3. Attests(T, before, r, t) BY <1>1, <2>1, <2>4, <3>2 DEF Attests, r
    <3> QED BY <3>3
  <2>6. CASE ~(s.paused \/ ~s.tty \/ t <= s.open)
    <3> DEFINE n == WholeSeconds(s.open, t)
               K == {k \in 1..n : Fresh(s.heartbeats, s.open + k * SECOND)}
               g == [k \in K |-> s.open + k * SECOND]
               U == {s.open + k * SECOND : k \in K}
    <3>1. t - s.open \in Nat BY <2>2, <2>6
    <3>2. n \in Nat /\ n * SECOND <= t - s.open
      BY <3>1, DivBelow, EngineAssumption DEF WholeSeconds
    <3>3. c = Cardinality(K) BY <2>6 DEF c, CountableSecondsIn
    <3> HIDE DEF n
    <3>4. IsFiniteSet(K)
      <4>1. IsFiniteSet(1..n) BY <3>2, FS_Interval
      <4>2. K \subseteq 1..n OBVIOUS
      <4> HIDE DEF K
      <4> QED BY <4>1, <4>2, FS_Subset
    <3>5. \A k \in K : /\ k \in Nat /\ k >= 1 /\ k * SECOND \in Nat
                       /\ SECOND <= k * SECOND /\ k * SECOND <= n * SECOND
      <4> TAKE k \in K
      <4>1. k \in Nat /\ 1 <= k /\ k <= n BY <3>2
      <4>2. 1 * SECOND <= k * SECOND /\ k * SECOND <= n * SECOND
        BY <3>2, <4>1, TimesMonotone, EngineAssumption
      <4>3. k * SECOND \in Nat /\ 1 * SECOND = SECOND
        BY <4>1, Distributes, EngineAssumption
      <4> QED BY <4>1, <4>2, <4>3
    <3>6. \A k, l \in K : k < l => k * SECOND + SECOND <= l * SECOND
      <4> SUFFICES ASSUME NEW k \in K, NEW l \in K, k < l
                   PROVE  k * SECOND + SECOND <= l * SECOND
        OBVIOUS
      <4>1. k + 1 \in Nat /\ l \in Nat /\ k + 1 <= l /\ k \in Nat BY <3>5
      <4>2. (k + 1) * SECOND <= l * SECOND BY <4>1, TimesMonotone, EngineAssumption
      <4>3. (k + 1) * SECOND = k * SECOND + 1 * SECOND /\ 1 * SECOND = SECOND
        BY <4>1, Distributes, EngineAssumption
      <4> QED BY <4>2, <4>3
    <3>7. \A a \in U : /\ a \in Nat /\ s.open + SECOND <= a /\ a <= t
                       /\ Fresh(s.heartbeats, a)
      <4> SUFFICES ASSUME NEW k \in K
                   PROVE  /\ s.open + k * SECOND \in Nat
                          /\ s.open + SECOND <= s.open + k * SECOND
                          /\ s.open + k * SECOND <= t
                          /\ Fresh(s.heartbeats, s.open + k * SECOND)
        OBVIOUS
      <4>1. Fresh(s.heartbeats, s.open + k * SECOND) OBVIOUS
      <4>2. k * SECOND \in Nat /\ SECOND <= k * SECOND /\ k * SECOND <= n * SECOND BY <3>5
      <4>3. n * SECOND \in Nat BY <3>2, Distributes, EngineAssumption
      <4> QED BY <2>2, <3>2, <4>1, <4>2, <4>3, EngineAssumption
    <3>8. Spaced(U)
      <4> SUFFICES ASSUME NEW k \in K, NEW l \in K, s.open + k * SECOND < s.open + l * SECOND
                   PROVE  s.open + k * SECOND + SECOND <= s.open + l * SECOND
        BY DEF Spaced
      <4>1. k \in Nat /\ l \in Nat /\ k * SECOND \in Nat /\ l * SECOND \in Nat BY <3>5
      <4>2. k < l
        <5>1. CASE l <= k
          <6>1. l * SECOND <= k * SECOND BY <4>1, <5>1, TimesMonotone, EngineAssumption
          <6> QED BY <2>2, <4>1, <6>1
        <5> QED BY <4>1, <5>1
      <4>3. k * SECOND + SECOND <= l * SECOND BY <3>6, <4>2
      <4> QED BY <2>2, <4>1, <4>3, EngineAssumption
    <3>9. IsFiniteSet(U) /\ Cardinality(U) = Cardinality(K)
      <4>1. g \in [K -> U] /\ \A a \in U : \E k \in K : g[k] = a OBVIOUS
      <4>2. \A k, l \in K : g[k] = g[l] => k = l
        <5> SUFFICES ASSUME NEW k \in K, NEW l \in K, g[k] = g[l] PROVE k = l OBVIOUS
        <5>1. s.open + k * SECOND = s.open + l * SECOND OBVIOUS
        <5>2. /\ k \in Nat /\ l \in Nat /\ k * SECOND \in Nat /\ l * SECOND \in Nat BY <3>5
        <5>3. ~(k < l) /\ ~(l < k) BY <2>2, <3>6, <5>1, <5>2, EngineAssumption
        <5> QED BY <5>2, <5>3
      <4> HIDE DEF g, U
      <4>3. g \in Bijection(K, U)
        BY <4>1, <4>2 DEF Bijection, Injection, IsInjective, Surjection
      <4> QED BY <3>4, <4>3, FS_Bijection DEF ExistsBijection
    <3> HIDE DEF U
    <3>10. T \cap U = {}
      <4> SUFFICES ASSUME NEW a \in T, a \in U PROVE FALSE OBVIOUS
      <4>1. a \in Nat /\ a <= s.open BY <2>0
      <4>2. s.open + SECOND <= a BY <3>7
      <4> QED BY <2>2, <4>1, <4>2, EngineAssumption
    <3>11. IsFiniteSet(T \cup U) /\ s.counted + c = before + Cardinality(T \cup U)
      <4>1. IsFiniteSet(T) /\ s.counted = before + Cardinality(T) BY <2>1 DEF Attests
      <4>7. Cardinality(T) \in Nat BY <4>1, FS_CardinalityType
      <4>2. /\ IsFiniteSet(T \cup U)
            /\ Cardinality(T \cup U)
                 = Cardinality(T) + Cardinality(U) - Cardinality(T \cap U)
        BY <3>9, <4>1, FS_Union
      <4>3. Cardinality({}) = 0 BY FS_EmptySet
      <4>4. c \in Nat BY <3>3, <3>4, FS_CardinalityType
      <4>5. Cardinality(T \cap U) = 0 BY <3>10, <4>3
      <4>6. Cardinality(U) = c BY <3>3, <3>9
      <4> QED BY <2>2, <4>1, <4>2, <4>4, <4>5, <4>6, <4>7
    <3>12. Spaced(T \cup U)
      <4> SUFFICES ASSUME NEW a \in T \cup U, NEW b \in T \cup U, a < b
                   PROVE  a + SECOND <= b
        BY DEF Spaced
      <4>1. \A x \in T : x \in Nat /\ x <= s.open BY <2>0
      <4>2. CASE a \in T /\ b \in T BY <2>1, <4>2 DEF Attests, Spaced
      <4>3. CASE a \in U /\ b \in U BY <3>8, <4>3 DEF Spaced
      <4>4. CASE a \in T /\ b \in U BY <2>2, <3>7, <4>1, <4>4, EngineAssumption
      <4>5. CASE a \in U /\ b \in T
        <5>1. b \in Nat /\ b <= s.open /\ a \in Nat /\ s.open + SECOND <= a
          BY <3>7, <4>1, <4>5
        <5> QED BY <2>2, <5>1, EngineAssumption
      <4> QED BY <4>2, <4>3, <4>4, <4>5
    <3>13. \A a \in T \cup U : a \in Nat /\ a <= t /\ Fresh(s.heartbeats, a)
      BY <2>0, <2>1, <3>7 DEF Attests
    <3>14. Attests(T \cup U, before, r, t)
      BY <1>1, <2>4, <3>11, <3>12, <3>13 DEF Attests, r
    <3> QED BY <3>13, <3>14
  <2> QED BY <2>5, <2>6
<1> QED BY <1>1, <1>2, <1>3

\* Every operation keeps what is counted attested; a heartbeat adds at most
\* one, and a prompt and a Stop start over.
LEMMA GateKept ==
  ASSUME NEW s \in SessionType, NEW t \in Nat, NEW k \in Nat, NEW b \in BOOLEAN,
         GateInv(s, t, k)
  PROVE  /\ GateInv(SetPaused(s, b), t, k) /\ SetPaused(s, b).heartbeats = s.heartbeats
         /\ GateInv(OnPromptSubmit(s, t), t, k) /\ OnPromptSubmit(s, t).heartbeats = {}
         /\ GateInv(OnPreTool(s, t), t, k) /\ OnPreTool(s, t).heartbeats = s.heartbeats
         /\ GateInv(OnPostTool(s, t), t, k) /\ OnPostTool(s, t).heartbeats = s.heartbeats
         /\ GateInv(OnStop(s, t), t, k) /\ OnStop(s, t).heartbeats = {}
         /\ GateInv(OnHeartbeat(s, t), t, k)
         /\ Cardinality(OnHeartbeat(s, t).heartbeats) <= Cardinality(s.heartbeats) + 1
<1>0. k * GateTicks \in Nat BY PermitsNat
<1>1. PICK before \in Nat, T \in SUBSET Nat :
        before <= Cardinality(s.heartbeats) * (k * GateTicks) /\ Attests(T, before, s, t)
  BY DEF GateInv
<1>2. IsFiniteSet(s.heartbeats) /\ s.heartbeats \in SUBSET Nat BY DEF GateInv, SessionType
<1>4. \A a \in T : a \in Nat /\ a <= t BY <1>1 DEF Attests
<1>5. ASSUME NEW r \in SessionType, r.heartbeats = {}, r.counted = 0
      PROVE  GateInv(r, t, k)
  <2>1. IsFiniteSet({}) /\ Cardinality({}) = 0 BY FS_EmptySet
  <2>2. Attests({}, 0, r, t) BY <1>5, <2>1 DEF Attests, Spaced
  <2>3. 0 <= Cardinality(r.heartbeats) * (k * GateTicks) BY <1>0, <1>5, <2>1
  <2> QED BY <1>5, <2>1, <2>2, <2>3 DEF GateInv
<1>6. ASSUME NEW r \in SessionType, r.heartbeats = s.heartbeats, r.counted = s.counted,
             r.open = s.open
      PROVE  GateInv(r, t, k)
  <2>1. Attests(T, before, r, t) BY <1>1, <1>6 DEF Attests
  <2> QED BY <1>1, <1>2, <1>6, <2>1 DEF GateInv
<1>7. GateInv(SetPaused(s, b), t, k) /\ SetPaused(s, b).heartbeats = s.heartbeats
  <2> DEFINE r == SetPaused(s, b)
  <2>1. r \in SessionType BY EngineTypes
  <2>2. r.heartbeats = s.heartbeats /\ r.counted = s.counted /\ r.open = s.open
    BY DEF SetPaused, SessionType
  <2> HIDE DEF r
  <2>3. GateInv(r, t, k) BY <1>6, <2>1, <2>2
  <2> QED BY <2>2, <2>3 DEF r
<1>8. GateInv(OnPromptSubmit(s, t), t, k) /\ OnPromptSubmit(s, t).heartbeats = {}
  <2> DEFINE r == OnPromptSubmit(s, t)
  <2>1. r \in SessionType BY EngineTypes
  <2>2. r.heartbeats = {} /\ r.counted = 0 /\ r.open = t
    BY DEF OnPromptSubmit, ResetInterval, SessionType
  <2> HIDE DEF r
  <2>3. GateInv(r, t, k) BY <1>5, <2>1, <2>2
  <2> QED BY <2>2, <2>3 DEF r
<1>9. GateInv(OnPreTool(s, t), t, k) /\ OnPreTool(s, t).heartbeats = s.heartbeats
  <2> DEFINE c == CloseSubspan(s, t)
             r == [c EXCEPT !.phase = "ToolRunning"]
  <2>1. c \in SessionType BY EngineTypes
  <2>2. GateInv(c, t, k) /\ c.heartbeats = s.heartbeats BY ClosedAttests
  <2> HIDE DEF c
  <2>3. r.heartbeats = c.heartbeats /\ r.counted = c.counted /\ r.open = c.open
    BY <2>1 DEF SessionType
  <2> HIDE DEF r
  <2>4. PICK p \in Nat, U \in SUBSET Nat :
          p <= Cardinality(c.heartbeats) * (k * GateTicks) /\ Attests(U, p, c, t)
    BY <2>2 DEF GateInv
  <2>5. Attests(U, p, r, t) BY <2>3, <2>4 DEF Attests
  <2>6. GateInv(r, t, k) BY <2>2, <2>3, <2>4, <2>5 DEF GateInv
  <2>7. CASE s.phase = "Waiting"
    <3>1. OnPreTool(s, t) = r BY <2>7 DEF OnPreTool, r, c
    <3> QED BY <2>2, <2>3, <2>6, <3>1
  <2>8. CASE s.phase # "Waiting" BY <2>8 DEF OnPreTool
  <2> QED BY <2>7, <2>8
<1>10. GateInv(OnPostTool(s, t), t, k) /\ OnPostTool(s, t).heartbeats = s.heartbeats
  <2> DEFINE r == OnPostTool(s, t)
  <2>1. CASE s.phase = "ToolRunning"
    <3>1. r.heartbeats = s.heartbeats /\ r.counted = s.counted /\ r.open = t
      BY <2>1 DEF OnPostTool, SessionType
    <3> HIDE DEF r
    <3>3. Attests(T, before, r, t) BY <1>1, <1>4, <3>1 DEF Attests
    <3>4. GateInv(r, t, k) BY <1>1, <1>2, <3>1, <3>3 DEF GateInv
    <3> QED BY <3>1, <3>4 DEF r
  <2>2. CASE s.phase # "ToolRunning" BY <2>2 DEF OnPostTool
  <2> QED BY <2>1, <2>2
<1>11. GateInv(OnStop(s, t), t, k) /\ OnStop(s, t).heartbeats = {}
  <2> DEFINE r == OnStop(s, t)
  <2>1. r \in SessionType /\ Closed(s, t) \in SessionType BY EngineTypes
  <2>2. r.heartbeats = {} /\ r.counted = 0 /\ r.open = NotOpen
    BY <2>1 DEF OnStop, ResetInterval, SessionType
  <2> HIDE DEF r
  <2>3. GateInv(r, t, k) BY <1>5, <2>1, <2>2
  <2> QED BY <2>2, <2>3 DEF r
<1>12. GateInv(OnHeartbeat(s, t), t, k)
       /\ Cardinality(OnHeartbeat(s, t).heartbeats) <= Cardinality(s.heartbeats) + 1
  <2> DEFINE r == OnHeartbeat(s, t)
  <2>1. r.heartbeats = s.heartbeats \cup {t} /\ r.counted = s.counted /\ r.open = s.open
    BY DEF OnHeartbeat, SessionType
  <2> HIDE DEF r
  <2>2. /\ IsFiniteSet(r.heartbeats) /\ Cardinality(r.heartbeats) <= Cardinality(s.heartbeats) + 1
        /\ Cardinality(s.heartbeats) <= Cardinality(r.heartbeats)
        /\ Cardinality(s.heartbeats) \in Nat /\ Cardinality(r.heartbeats) \in Nat
    <3>1. Cardinality(s.heartbeats) \in Nat BY <1>2, FS_CardinalityType
    <3>2. /\ IsFiniteSet(s.heartbeats \cup {t})
          /\ Cardinality(s.heartbeats \cup {t}) \in
               {Cardinality(s.heartbeats), Cardinality(s.heartbeats) + 1}
      BY <1>2, FS_AddElement
    <3> DEFINE x == Cardinality(s.heartbeats)
               y == Cardinality(r.heartbeats)
    <3>3. y \in {x, x + 1} BY <2>1, <3>2
    <3>4. x \in Nat BY <3>1
    <3> HIDE DEF x, y
    <3>5. y <= x + 1 /\ x <= y /\ x \in Nat /\ y \in Nat BY <3>3, <3>4
    <3> QED BY <2>1, <3>2, <3>5 DEF x, y
  <2>3. \A a \in T : Fresh(s.heartbeats, a) => Fresh(r.heartbeats, a) BY <2>1 DEF Fresh
  <2>4. Attests(T, before, r, t) BY <1>1, <2>1, <2>3 DEF Attests
  <2>6. before <= Cardinality(r.heartbeats) * (k * GateTicks)
    <3> DEFINE x == Cardinality(s.heartbeats)
               y == Cardinality(r.heartbeats)
               g == k * GateTicks
    <3>1. x \in Nat /\ y \in Nat /\ x <= y /\ g \in Nat /\ before <= x * g BY <1>0, <1>1, <2>2
    <3> HIDE DEF x, y, g
    <3>2. x * g <= y * g /\ x * g \in Nat /\ y * g \in Nat BY <3>1, TimesMonotone, Distributes
    <3>3. before <= y * g BY <3>1, <3>2
    <3> QED BY <3>3 DEF y, g
  <2>5. GateInv(r, t, k) BY <2>2, <2>4, <2>6 DEF GateInv
  <2> QED BY <2>2, <2>5 DEF r
<1> QED BY <1>7, <1>8, <1>9, <1>10, <1>11, <1>12

LEMMA NewSessionGate ==
  ASSUME NEW t \in Nat, NEW k \in Nat
  PROVE  GateInv(NewSession, t, k) /\ Cardinality(NewSession.heartbeats) = 0
<1>1. IsFiniteSet({}) /\ Cardinality({}) = 0 BY FS_EmptySet
<1>2. NewSession.heartbeats = {} /\ NewSession.counted = 0 /\ NewSession.open = NotOpen
  BY DEF NewSession
<1>3. Attests({}, 0, NewSession, t) BY <1>1, <1>2 DEF Attests, Spaced
<1>4. 0 <= Cardinality(NewSession.heartbeats) * (k * GateTicks) BY <1>1, <1>2, PermitsNat
<1> QED BY <1>1, <1>2, <1>3, <1>4 DEF GateInv

\* Time that passes attests nothing and forgets nothing.
LEMMA GateLater ==
  ASSUME NEW s \in SessionType, NEW t \in Nat, NEW u \in Nat, NEW k \in Nat, t <= u,
         GateInv(s, t, k)
  PROVE  GateInv(s, u, k)
<1>1. PICK before \in Nat, T \in SUBSET Nat :
        before <= Cardinality(s.heartbeats) * (k * GateTicks) /\ Attests(T, before, s, t)
  BY DEF GateInv
<1>2. \A a \in T : a <= u
  <2> TAKE a \in T
  <2>1. a \in Nat /\ a <= t BY <1>1 DEF Attests
  <2> QED BY <2>1
<1>3. Attests(T, before, s, u) BY <1>1, <1>2 DEF Attests
<1> QED BY <1>1, <1>3 DEF GateInv

\* A step back makes all that is counted a thing of the past, whose instants the
\* clock may show again.
LEMMA GateBack ==
  ASSUME NEW s \in SessionType, NEW t \in Nat, NEW u \in Nat, NEW k \in Nat,
         GateInv(s, t, k)
  PROVE  GateInv(s, u, k + 1)
<1>1. s.counted <= Cardinality(s.heartbeats) * ((k + 1) * GateTicks) BY GateFew DEF Permits
<1>2. s.counted \in Nat BY DEF SessionType
<1>3. IsFiniteSet({}) /\ Cardinality({}) = 0 BY FS_EmptySet
<1>4. Attests({}, s.counted, s, u) BY <1>2, <1>3 DEF Attests, Spaced
<1> QED BY <1>1, <1>2, <1>4 DEF GateInv

\* What a Stop pays is attested by the heartbeats of its interval.
LEMMA StopAttested ==
  ASSUME NEW s \in SessionType, NEW t \in Nat, NEW k \in Nat, GateInv(s, t, k)
  PROVE  StopImpressions(s, t) * IMPRESSION_SECONDS <= Cardinality(s.heartbeats) * Permits(k)
<1> DEFINE c == Closed(s, t)
<1>1. c \in SessionType /\ c.counted \in Nat BY EngineTypes DEF SessionType
<1>2. GateInv(c, t, k) /\ c.heartbeats = s.heartbeats BY ClosedAttests DEF Closed
<1>3. c.counted <= Cardinality(s.heartbeats) * Permits(k) BY <1>1, <1>2, GateFew
<1>4. StopImpressions(s, t) \in Nat /\ StopImpressions(s, t) * IMPRESSION_SECONDS <= c.counted
  BY <1>1, ImpressionsBacked DEF StopImpressions
<1>5. Cardinality(s.heartbeats) \in Nat BY FS_CardinalityType DEF GateInv
<1>6. Cardinality(s.heartbeats) * Permits(k) \in Nat
      /\ StopImpressions(s, t) * IMPRESSION_SECONDS \in Nat
  BY <1>4, <1>5, PermitsNat, EngineAssumption, Distributes
<1> QED BY <1>1, <1>3, <1>4, <1>6

\* A Stop never pays more than the cap.
LEMMA StopCapped ==
  ASSUME NEW s \in SessionType, NEW t \in Nat
  PROVE  StopImpressions(s, t) <= MAX_IMPRESSIONS_PER_INTERVAL
<1>1. Closed(s, t).counted \in Nat BY EngineTypes DEF SessionType
<1>2. Closed(s, t).counted \div IMPRESSION_SECONDS \in Nat BY <1>1, DivBelow, EngineAssumption
<1> QED BY <1>2, EngineAssumption DEF StopImpressions, Impressions

-----------------------------------------------------------------------------
(* Induction and recursion over the first numbers. *)

LEMMA LeastOf ==
  ASSUME NEW T \in SUBSET Nat, T # {}
  PROVE  \E x \in T : \A y \in T : x <= y
<1> DEFINE R == OpToRel(<, Nat)
<1>1. IsWellFoundedOn(R, Nat) BY NatLessThanWellFounded
<1>2. PICK x \in T : \A y \in T : ~ (<<y, x>> \in R)
  <2> HIDE DEF R
  <2> QED BY <1>1, WFMin
<1>3. \A y \in T : ~(y < x) BY <1>2 DEF OpToRel
<1> QED BY <1>3

\* Induction up to n, for a property given as the set of numbers that have it.
LEMMA UpTo ==
  ASSUME NEW n \in Nat, NEW T, 0 \in T,
         \A i \in 0..(n - 1) : i \in T => i + 1 \in T
  PROVE  \A i \in 0..n : i \in T
<1> SUFFICES ASSUME (0..n) \ T # {} PROVE FALSE
  OBVIOUS
<1>1. (0..n) \ T \in SUBSET Nat OBVIOUS
<1>2. PICK x \in (0..n) \ T : \A y \in (0..n) \ T : x <= y BY <1>1, LeastOf
<1>3. x # 0 /\ x - 1 \in 0..(n - 1) BY <1>2
<1>4. x - 1 \in T BY <1>2, <1>3
<1> QED BY <1>2, <1>3, <1>4

\* f goes from `base` by the first n functions of `step`.
Iterates(f, n, base, step) ==
  f[0] = base /\ \A i \in 1..n : f[i] = step[i][f[i - 1]]

LEMMA Recursion ==
  ASSUME NEW n \in Nat, NEW S, NEW base \in S, NEW step \in [1..n -> [S -> S]]
  PROVE  \E f \in [0..n -> S] : Iterates(f, n, base, step)
<1> DEFINE T == {m \in 0..n : \E f \in [0..m -> S] : Iterates(f, m, base, step)}
<1>1. 0 \in T
  <2> DEFINE g == [i \in 0..0 |-> base]
  <2>1. g \in [0..0 -> S] /\ Iterates(g, 0, base, step) BY DEF Iterates
  <2> HIDE DEF g
  <2> QED BY <2>1
<1>2. ASSUME NEW m \in 0..(n - 1), m \in T PROVE m + 1 \in T
  <2>1. PICK f \in [0..m -> S] : Iterates(f, m, base, step) BY <1>2
  <2> DEFINE g == [i \in 0..(m + 1) |-> IF i <= m THEN f[i] ELSE step[m + 1][f[m]]]
  <2>2. step[m + 1][f[m]] \in S BY <2>1
  <2>3. g \in [0..(m + 1) -> S] BY <2>1, <2>2
  <2>4. Iterates(g, m + 1, base, step)
    <3>1. g[0] = base BY <2>1 DEF Iterates
    <3>2. ASSUME NEW i \in 1..(m + 1) PROVE g[i] = step[i][g[i - 1]]
      <4>1. CASE i <= m BY <2>1, <4>1 DEF Iterates
      <4>2. CASE i = m + 1 BY <4>2
      <4> QED BY <4>1, <4>2
    <3> QED BY <3>1, <3>2 DEF Iterates
  <2>5. m + 1 \in 0..n OBVIOUS
  <2> HIDE DEF g
  <2> QED BY <2>3, <2>4, <2>5
<1>3. n \in T
  <2>1. \A m \in 0..(n - 1) : m \in T => m + 1 \in T BY <1>2
  <2> HIDE DEF T
  <2>2. \A m \in 0..n : m \in T BY <1>1, <2>1, UpTo
  <2> QED BY <2>2
<1> QED BY <1>3

\* t is s and then the first n bytes of u.
Continued(t, s, u, n) ==
  /\ Len(t) = Len(s) + n
  /\ \A i \in 1..Len(s) : t[i] = s[i]
  /\ \A j \in 1..n : t[Len(s) + j] = u[j]

LEMMA Joined ==
  ASSUME NEW S, NEW s \in Seq(S), NEW w \in Seq(S), NEW t, t = s \o w
  PROVE  t \in Seq(S) /\ Continued(t, s, w, Len(w))
  BY DEF Continued
=============================================================================
