-------------------------- MODULE SessionWaitProofs --------------------------
(***************************************************************************)
(* Proofs about SessionWait, for every value of its constants: its type    *)
(* invariant under every delivery and clock assumption, that what is       *)
(* earned was waited for, under timely delivery, and what heartbeats and   *)
(* prompts still bound when hooks are dropped and datagrams are late.      *)
(* And proofs about Wire, which brings those hooks and heartbeats from a   *)
(* JSON document to the daemon: that the scanners find what a parser would *)
(* find, that a datagram is read as it was sent or not at all, and that    *)
(* hooks and heartbeats of a session name it alike.                        *)
(***************************************************************************)
EXTENDS SessionWait, Wire, ImpressionEngineProofs

-----------------------------------------------------------------------------
(* Type correctness. *)

LEMMA InitTyped == Init => TypeOK
<1> SUFFICES ASSUME Init PROVE TypeOK OBVIOUS
<1>1. NewSession \in SessionType BY DEF NewSession, SessionType, Phase, NotOpen
<1> QED BY <1>1 DEF Init, TypeOK, HostState

LEMMA SendTyped ==
  ASSUME wire \in Seq(Msg), NEW m \in Msg, Send(m)
  PROVE  wire' \in Seq(Msg)
  BY DEF Send

LEMMA HostTurnTyped ==
  ASSUME TypeOK, NEW m \in HostMoves, HostTurn(m[1], m[2], m[3]), wire' \in Seq(Msg)
  PROVE  TypeOK'
<1>1. m[2] \in HostState BY DEF HostMoves, HostState
<1> QED BY <1>1 DEF HostTurn, TypeOK

LEMMA ReceiveTyped ==
  ASSUME TypeOK, Receive
  PROVE  TypeOK'
<1> DEFINE m == Head(wire)
<1>1. m \in Msg /\ wire' \in Seq(Msg) BY DEF TypeOK, Receive
<1>2. session \in SessionType /\ now \in Nat /\ earned \in Nat BY DEF TypeOK
<1> HIDE DEF m
<1>3. Handled(session, m, now) \in SessionType
  BY <1>1, <1>2, EngineTypes DEF Handled, Msg, Hook
<1>4. Earned(session, m, now) \in Nat
  BY <1>2, EngineTypes DEF Earned
<1>5. session' = Handled(session, m, now) /\ earned' = earned + Earned(session, m, now)
  BY DEF Receive, m
<1> QED BY <1>1, <1>2, <1>3, <1>4, <1>5 DEF Receive, TypeOK

LEMMA StepTyped == TypeOK /\ [BestEffortNext]_vars => TypeOK'
<1> SUFFICES ASSUME TypeOK, [BestEffortNext]_vars PROVE TypeOK'
  OBVIOUS
<1> USE DEF TypeOK
<1>1. CASE HostStep
  <2>1. PICK m \in HostMoves : HostTurn(m[1], m[2], m[3]) /\ Send(m[3])
    BY <1>1 DEF HostStep
  <2>2. m[3] \in Msg BY DEF HostMoves, Msg, Hook
  <2> QED BY <2>1, <2>2, SendTyped, HostTurnTyped
<1>2. CASE HostStepLost
  <2>1. PICK m \in HostMoves : HostTurn(m[1], m[2], m[3]) /\ UNCHANGED wire
    BY <1>2 DEF HostStepLost
  <2> QED BY <2>1, HostTurnTyped
<1>3. CASE StatuslineTick BY <1>3, SendTyped DEF StatuslineTick, Msg
<1>4. CASE UserCommand BY <1>4, SendTyped DEF UserCommand, Msg
<1>5. CASE Receive BY <1>5, ReceiveTyped
<1>6. CASE Tick BY <1>6 DEF Tick
<1>7. CASE ClockBack BY <1>7 DEF ClockBack, ClockSet
<1>8. CASE UNCHANGED vars BY <1>8 DEF vars
<1> QED BY <1>1, <1>2, <1>3, <1>4, <1>5, <1>6, <1>7, <1>8
        DEF BestEffortNext, Messages

\* A session stays well formed whatever is dropped, late, or out of order
\* (main.rs handle, engine.rs).
THEOREM TypesUnderBestEffort == BestEffortSpec => []TypeOK
<1>1. Init => TypeOK BY InitTyped
<1>2. TypeOK /\ [BestEffortNext]_vars => TypeOK' BY StepTyped
<1> QED BY <1>1, <1>2, PTL DEF BestEffortSpec

\* The same under timely delivery and a clock that is stepped back.
THEOREM TypesUnderSteppedBack == SteppedBackSpec => []TypeOK
<1>1. Init => TypeOK BY InitTyped
<1>2. TypeOK /\ [SteppedBackNext]_vars => TypeOK'
  BY StepTyped DEF SteppedBackNext, TimelyNext, BestEffortNext
<1> QED BY <1>1, <1>2, PTL DEF SteppedBackSpec

-----------------------------------------------------------------------------
(* Earned by waiting: the inductive invariant. *)

\* The time an open sub-span may still turn into counted seconds.
Pending(s, t) == IF s.open # NotOpen /\ t > s.open THEN t - s.open ELSE 0

\* Waiting time that impressions, counted seconds and the open sub-span stand for.
Claim(e, s, t) == (e * IMPRESSION_SECONDS) * SECOND + s.counted * SECOND + Pending(s, t)

\* A sub-span is open exactly while waiting, and an idle session has nothing counted.
WellFormed(s) ==
  /\ s.open # NotOpen <=> s.phase = "Waiting"
  /\ s.phase = "Idle" => s.counted = 0

HostAfter(hook) ==
  IF hook = "Stop" THEN "idle" ELSE IF hook = "PreToolUse" THEN "tool" ELSE "waiting"

\* The last hook on the wire tells where the host is; when none is, an engine
\* that waits waits for a host that waits.
InSync ==
  /\ \A i \in 1..Len(wire) :
       wire[i] \in Hook /\ (\A j \in (i + 1)..Len(wire) : wire[j] \notin Hook)
         => host = HostAfter(wire[i])
  /\ (\A i \in 1..Len(wire) : wire[i] \notin Hook)
       => (session.phase = "Waiting" => host = "waiting")

IInv ==
  /\ TypeOK
  /\ WellFormed(session)
  /\ InSync
  /\ Claim(earned, session, now) <= waited

LEMMA PendingNat ==
  ASSUME NEW s \in SessionType, NEW t \in Nat
  PROVE  Pending(s, t) \in Nat
  BY DEF Pending, SessionType

LEMMA ClaimNat ==
  ASSUME NEW e \in Nat, NEW s \in SessionType, NEW t \in Nat
  PROVE  Claim(e, s, t) \in Nat
<1>1. (e * IMPRESSION_SECONDS) * SECOND \in Nat BY EngineAssumption
<1>2. s.counted * SECOND \in Nat BY EngineAssumption DEF SessionType
<1> QED BY <1>1, <1>2, PendingNat DEF Claim

\* Closing a sub-span counts no more than its pending time.
LEMMA CloseClaims ==
  ASSUME NEW s \in SessionType, NEW t \in Nat
  PROVE  /\ CloseSubspan(s, t).counted * SECOND <= s.counted * SECOND + Pending(s, t)
         /\ CloseSubspan(s, t).open = NotOpen
         /\ CloseSubspan(s, t).phase = s.phase
<1>1. s.counted \in Nat /\ s.counted * SECOND \in Nat
  BY EngineAssumption DEF SessionType
<1>2. CASE s.open = NotOpen
  BY <1>1, <1>2, PendingNat DEF CloseSubspan, Pending
<1>3. CASE s.open # NotOpen
  <2> DEFINE c == CountableSecondsIn(s.open, t, s.heartbeats, s.paused, s.tty)
             r == CloseSubspan(s, t)
  <2>1. s.open \in Nat BY <1>3 DEF SessionType
  <2>2. c \in Nat /\ c * SECOND <= Pending(s, t)
    BY <1>3, <2>1, CountableBounded DEF Pending
  <2>3. r = [s EXCEPT !.open = NotOpen, !.counted = @ + c]
    BY <1>3 DEF CloseSubspan
  <2> HIDE DEF c
  <2>4. r.counted = s.counted + c /\ r.open = NotOpen /\ r.phase = s.phase
    BY <2>3 DEF SessionType
  <2>5. r.counted * SECOND = s.counted * SECOND + c * SECOND
    BY <1>1, <2>2, <2>4, Distributes, EngineAssumption
  <2>6. Pending(s, t) \in Nat /\ c * SECOND \in Nat
    BY <2>2, PendingNat, Distributes, EngineAssumption
  <2> QED BY <1>1, <2>2, <2>4, <2>5, <2>6
<1> QED BY <1>2, <1>3

\* No message makes the engine claim more than it did.
LEMMA MessageClaims ==
  ASSUME NEW s \in SessionType, WellFormed(s), NEW m \in Msg, NEW t \in Nat, NEW e \in Nat
  PROVE  /\ WellFormed(Handled(s, m, t))
         /\ Claim(e + Earned(s, m, t), Handled(s, m, t), t) <= Claim(e, s, t)
<1> DEFINE base == (e * IMPRESSION_SECONDS) * SECOND
           claimed(x) == x.counted * SECOND + Pending(x, t)
<1>1. base \in Nat BY Distributes, EngineAssumption
<1>2. \A x \in SessionType :
        x.counted \in Nat /\ x.counted * SECOND \in Nat /\ Pending(x, t) \in Nat
  BY PendingNat, Distributes, EngineAssumption DEF SessionType
<1>3. ASSUME m # "Stop", NEW r \in SessionType, Handled(s, m, t) = r, WellFormed(r),
             claimed(r) <= claimed(s)
      PROVE  WellFormed(Handled(s, m, t))
             /\ Claim(e + Earned(s, m, t), Handled(s, m, t), t) <= Claim(e, s, t)
  <2>1. Earned(s, m, t) = 0 BY <1>3 DEF Earned
  <2> HIDE DEF base
  <2>2. e + 0 = e OBVIOUS
  <2>3. Claim(e, r, t) = base + r.counted * SECOND + Pending(r, t)
        /\ Claim(e, s, t) = base + s.counted * SECOND + Pending(s, t)
    BY DEF Claim, base
  <2> QED BY <1>1, <1>2, <1>3, <2>1, <2>2, <2>3
<1>4. s.phase \in Phase BY DEF SessionType
<1>5. CASE m = "UserPromptSubmit"
  <2> DEFINE r == OnPromptSubmit(s, t)
  <2>1. Handled(s, m, t) = r BY <1>5 DEF Handled
  <2>2. r \in SessionType BY EngineTypes
  <2>3. r.phase = "Waiting" /\ r.open = t /\ r.counted = 0
    BY DEF OnPromptSubmit, ResetInterval, SessionType
  <2>4. Pending(r, t) = 0 /\ r.counted * SECOND = 0
    BY <2>3, EngineAssumption DEF Pending
  <2>5. WellFormed(r) BY <2>3 DEF WellFormed, NotOpen
  <2> HIDE DEF r
  <2> QED BY <1>2, <1>3, <1>5, <2>1, <2>2, <2>4, <2>5
<1>6. CASE m = "PreToolUse"
  <2> DEFINE r == OnPreTool(s, t)
             c == CloseSubspan(s, t)
  <2>1. Handled(s, m, t) = r BY <1>6 DEF Handled
  <2>2. r \in SessionType /\ c \in SessionType BY EngineTypes
  <2>3. CASE s.phase = "Waiting"
    <3>1. r = [c EXCEPT !.phase = "ToolRunning"] BY <2>3 DEF OnPreTool
    <3>2. c.open = NotOpen /\ c.counted * SECOND <= s.counted * SECOND + Pending(s, t)
      BY CloseClaims
    <3> HIDE DEF r, c
    <3>3. r.phase = "ToolRunning" /\ r.open = NotOpen /\ r.counted = c.counted
      BY <2>2, <3>1, <3>2 DEF SessionType
    <3>4. Pending(r, t) = 0 BY <3>3 DEF Pending
    <3>5. WellFormed(r) BY <3>3 DEF WellFormed
    <3> QED BY <1>2, <1>3, <1>6, <2>1, <2>2, <3>2, <3>3, <3>4, <3>5
  <2>4. CASE s.phase # "Waiting"
    <3>1. r = s BY <2>4 DEF OnPreTool
    <3> QED BY <1>2, <1>3, <1>6, <2>1, <3>1
  <2> QED BY <2>3, <2>4
<1>7. CASE m = "PostToolUse"
  <2> DEFINE r == OnPostTool(s, t)
  <2>1. Handled(s, m, t) = r BY <1>7 DEF Handled
  <2>2. r \in SessionType BY EngineTypes
  <2>3. CASE s.phase = "ToolRunning"
    <3>1. r.phase = "Waiting" /\ r.open = t /\ r.counted = s.counted
      BY <2>3 DEF OnPostTool, SessionType
    <3>2. Pending(r, t) = 0 BY <3>1 DEF Pending
    <3>3. WellFormed(r) BY <3>1 DEF WellFormed, NotOpen
    <3> HIDE DEF r
    <3> QED BY <1>2, <1>3, <1>7, <2>1, <2>2, <3>1, <3>2, <3>3
  <2>4. CASE s.phase # "ToolRunning"
    <3>1. r = s BY <2>4 DEF OnPostTool
    <3> QED BY <1>2, <1>3, <1>7, <2>1, <3>1
  <2> QED BY <2>3, <2>4
<1>8. CASE m \in {"Heartbeat", "Pause", "Resume"}
  <2> DEFINE r == Handled(s, m, t)
  <2>1. r \in SessionType BY <1>8, EngineTypes DEF Handled
  <2>2. r.phase = s.phase /\ r.open = s.open /\ r.counted = s.counted
    BY <1>8 DEF Handled, OnHeartbeat, SetPaused, SessionType
  <2>3. WellFormed(r) /\ Pending(r, t) = Pending(s, t)
    BY <2>2 DEF WellFormed, Pending
  <2> HIDE DEF r
  <2>4. r = Handled(s, m, t) BY DEF r
  <2> QED BY <1>2, <1>3, <1>8, <2>1, <2>2, <2>3, <2>4
<1>9. CASE m = "Stop"
  <2> DEFINE r == OnStop(s, t)
             c == Closed(s, t)
             n == StopImpressions(s, t)
  <2>1. Handled(s, m, t) = r /\ Earned(s, m, t) = n BY <1>9 DEF Handled, Earned
  <2>2. c \in SessionType /\ n \in Nat BY EngineTypes
  <2>3. r.phase = "Idle" /\ r.open = NotOpen /\ r.counted = 0
    BY <2>2 DEF OnStop, ResetInterval, SessionType
  <2>4. WellFormed(r) BY <2>3 DEF WellFormed
  <2>5. c.counted * SECOND <= s.counted * SECOND + Pending(s, t)
    <3>1. CASE s.phase = "Waiting" BY <3>1, CloseClaims DEF Closed
    <3>2. CASE s.phase # "Waiting"
      <4>1. c = s BY <3>2 DEF Closed
      <4> QED BY <4>1, <1>2
    <3> QED BY <3>1, <3>2
  <2>6. n * IMPRESSION_SECONDS <= c.counted
    BY <1>2, <2>2, ImpressionsBacked DEF StopImpressions
  <2> HIDE DEF r, c, n
  <2>7. (n * IMPRESSION_SECONDS) * SECOND <= c.counted * SECOND
    <3>1. n * IMPRESSION_SECONDS \in Nat /\ c.counted \in Nat
      BY <1>2, <2>2, Distributes, EngineAssumption
    <3> QED BY <2>6, <3>1, TimesMonotone, EngineAssumption
  <2>8. ((e + n) * IMPRESSION_SECONDS) * SECOND
          = base + (n * IMPRESSION_SECONDS) * SECOND
    <3>1. (e + n) * IMPRESSION_SECONDS = e * IMPRESSION_SECONDS + n * IMPRESSION_SECONDS
          /\ e * IMPRESSION_SECONDS \in Nat /\ n * IMPRESSION_SECONDS \in Nat
      BY <2>2, Distributes, EngineAssumption
    <3> QED BY <3>1, Distributes, EngineAssumption
  <2>9. Claim(e + n, r, t) = base + (n * IMPRESSION_SECONDS) * SECOND
    <3>1. Pending(r, t) = 0 /\ r.counted * SECOND = 0
      BY <2>3, EngineAssumption DEF Pending
    <3>2. (n * IMPRESSION_SECONDS) * SECOND \in Nat
      BY <2>2, Distributes, EngineAssumption
    <3> QED BY <1>1, <2>8, <3>1, <3>2 DEF Claim
  <2>10. Claim(e, s, t) = base + s.counted * SECOND + Pending(s, t) BY DEF Claim
  <2>11. (n * IMPRESSION_SECONDS) * SECOND \in Nat
    BY <2>2, Distributes, EngineAssumption
  <2> HIDE DEF base
  <2> QED BY <1>1, <1>2, <2>1, <2>2, <2>4, <2>5, <2>7, <2>9, <2>10, <2>11
<1> QED BY <1>5, <1>6, <1>7, <1>8, <1>9 DEF Msg, Hook

-----------------------------------------------------------------------------
(* Earned by waiting: the steps. *)

LEMMA InitInv == Init => IInv
<1> SUFFICES ASSUME Init PROVE IInv OBVIOUS
<1>1. TypeOK BY InitTyped
<1>2. session.phase = "Idle" /\ session.open = NotOpen /\ session.counted = 0
  BY DEF Init, NewSession
<1>3. WellFormed(session) BY <1>2 DEF WellFormed
<1>4. InSync BY <1>2 DEF InSync, Init
<1>5. Claim(earned, session, now) = 0
  BY <1>2, EngineAssumption DEF Claim, Pending, Init
<1> QED BY <1>1, <1>3, <1>4, <1>5 DEF IInv, Init

\* A hook that is sent becomes the last hook of the wire.
LEMMA HookSentInSync ==
  ASSUME TypeOK, NEW m \in HostMoves, host' = m[2], Send(m[3])
  PROVE  InSync'
<1>1. m[3] \in Hook /\ m[2] = HostAfter(m[3]) BY DEF HostMoves, Hook, HostAfter
<1>2. wire \in Seq(Msg) /\ wire' = Append(wire, m[3]) /\ Len(wire') = Len(wire) + 1
  BY <1>1 DEF TypeOK, Send, Msg
<1>3. wire'[Len(wire')] = m[3] /\ Len(wire') \in 1..Len(wire') BY <1>1, <1>2
<1>4. ASSUME NEW i \in 1..Len(wire'), \A j \in (i + 1)..Len(wire') : wire'[j] \notin Hook
      PROVE  i = Len(wire')
  BY <1>1, <1>2, <1>3, <1>4
<1>5. ~ \A i \in 1..Len(wire') : wire'[i] \notin Hook BY <1>1, <1>3
<1> QED BY <1>1, <1>3, <1>4, <1>5 DEF InSync

\* Any other message leaves the last hook the last.
LEMMA OtherSentInSync ==
  ASSUME TypeOK, InSync, NEW m \in Msg \ Hook, Send(m), UNCHANGED <<host, session>>
  PROVE  InSync'
<1>1. wire \in Seq(Msg) /\ wire' = Append(wire, m) /\ Len(wire') = Len(wire) + 1
  BY DEF TypeOK, Send
<1>2. wire'[Len(wire) + 1] = m /\ \A i \in 1..Len(wire) : wire'[i] = wire[i]
  BY <1>1
<1>3. ASSUME NEW i \in 1..Len(wire'), wire'[i] \in Hook,
             \A j \in (i + 1)..Len(wire') : wire'[j] \notin Hook
      PROVE  host' = HostAfter(wire'[i])
  <2>1. i \in 1..Len(wire) BY <1>1, <1>2, <1>3
  <2>2. wire[i] \in Hook /\ \A j \in (i + 1)..Len(wire) : wire[j] \notin Hook
    BY <1>1, <1>2, <1>3, <2>1
  <2> QED BY <1>2, <2>1, <2>2 DEF InSync
<1>4. ASSUME \A i \in 1..Len(wire') : wire'[i] \notin Hook
      PROVE  session'.phase = "Waiting" => host' = "waiting"
  <2>1. \A i \in 1..Len(wire) : wire[i] \notin Hook BY <1>1, <1>2, <1>4
  <2> QED BY <2>1 DEF InSync
<1> QED BY <1>3, <1>4 DEF InSync

\* The phase a message leaves: only a hook changes it, to what the host did.
LEMMA PhaseAfter ==
  ASSUME NEW s \in SessionType, NEW m \in Msg, NEW t \in Nat
  PROVE  /\ m \notin Hook => Handled(s, m, t).phase = s.phase
         /\ m \in Hook /\ Handled(s, m, t).phase = "Waiting" => HostAfter(m) = "waiting"
<1>1. CASE m \in {"Heartbeat", "Pause", "Resume"}
  BY <1>1 DEF Handled, OnHeartbeat, SetPaused, SessionType, Hook
<1>2. CASE m \in {"UserPromptSubmit", "PostToolUse"}
  BY <1>2 DEF HostAfter, Hook
<1>3. CASE m = "PreToolUse"
  <2>1. Handled(s, m, t) = OnPreTool(s, t) BY <1>3 DEF Handled
  <2>2. CloseSubspan(s, t) \in SessionType BY EngineTypes
  <2>3. OnPreTool(s, t).phase # "Waiting" BY <2>2 DEF OnPreTool, SessionType
  <2> QED BY <1>3, <2>1, <2>3 DEF Hook
<1>4. CASE m = "Stop"
  <2>1. Handled(s, m, t) = OnStop(s, t) BY <1>4 DEF Handled
  <2>2. Closed(s, t) \in SessionType BY EngineTypes
  <2>3. OnStop(s, t).phase = "Idle" BY <2>2 DEF OnStop, ResetInterval, SessionType
  <2> QED BY <1>4, <2>1, <2>3 DEF Hook
<1> QED BY <1>1, <1>2, <1>3, <1>4 DEF Msg, Hook

LEMMA ReceiveInv ==
  ASSUME IInv, Receive
  PROVE  IInv'
<1> DEFINE m == Head(wire)
<1>1. /\ wire \in Seq(Msg) /\ Len(wire) \in Nat \ {0}
      /\ m \in Msg /\ m = wire[1]
      /\ wire' = Tail(wire) /\ Len(wire') = Len(wire) - 1
      /\ \A i \in 1..Len(wire') : wire'[i] = wire[i + 1]
  BY DEF IInv, TypeOK, Receive
<1>2. session \in SessionType /\ now \in Nat /\ earned \in Nat
      /\ WellFormed(session) /\ InSync
  BY DEF IInv, TypeOK
<1>3. /\ session' = Handled(session, m, now) /\ earned' = earned + Earned(session, m, now)
      /\ UNCHANGED <<now, host, waited>>
  BY DEF Receive
<1> HIDE DEF m
<1>4. TypeOK' BY ReceiveTyped DEF IInv
<1>5. WellFormed(session') /\ Claim(earned', session', now') <= waited'
  <2>1. WellFormed(session')
        /\ Claim(earned', session', now) <= Claim(earned, session, now)
    BY <1>1, <1>2, <1>3, MessageClaims
  <2>2. Claim(earned, session, now) <= waited BY DEF IInv
  <2>3. /\ Claim(earned', session', now) \in Int /\ Claim(earned, session, now) \in Int
        /\ waited \in Int
    <3>1. session' \in SessionType /\ earned' \in Nat /\ waited \in Nat
      BY <1>4 DEF IInv, TypeOK
    <3> QED BY <1>2, <3>1, ClaimNat
  <2> QED BY <1>3, <2>1, <2>2, <2>3
<1>6. InSync'
  <2>1. ASSUME NEW i \in 1..Len(wire'), wire'[i] \in Hook,
               \A j \in (i + 1)..Len(wire') : wire'[j] \notin Hook
        PROVE  host' = HostAfter(wire'[i])
    <3>1. i + 1 \in 1..Len(wire) /\ wire'[i] = wire[i + 1] BY <1>1
    <3>2. ASSUME NEW j \in (i + 2)..Len(wire) PROVE wire[j] \notin Hook
      <4>1. j - 1 \in (i + 1)..Len(wire') /\ j - 1 \in 1..Len(wire') BY <1>1
      <4>2. wire'[j - 1] = wire[j] BY <1>1, <4>1
      <4> QED BY <2>1, <4>1, <4>2
    <3>3. \A k \in 1..Len(wire) :
            wire[k] \in Hook /\ (\A j \in (k + 1)..Len(wire) : wire[j] \notin Hook)
              => host = HostAfter(wire[k])
      BY <1>2 DEF InSync
    <3>4. \A j \in ((i + 1) + 1)..Len(wire) : wire[j] \notin Hook BY <3>2
    <3>5. host = HostAfter(wire[i + 1]) BY <2>1, <3>1, <3>3, <3>4
    <3> QED BY <1>3, <3>1, <3>5
  <2>2. ASSUME \A i \in 1..Len(wire') : wire'[i] \notin Hook, session'.phase = "Waiting"
        PROVE  host' = "waiting"
    <3>1. ASSUME NEW j \in 2..Len(wire) PROVE wire[j] \notin Hook
      <4>1. j - 1 \in 1..Len(wire') /\ wire'[j - 1] = wire[j] BY <1>1
      <4> QED BY <2>2, <4>1
    <3>2. CASE m \in Hook
      <4>1. host = HostAfter(m) BY <1>1, <1>2, <3>1, <3>2 DEF InSync
      <4>2. HostAfter(m) = "waiting" BY <1>1, <1>2, <1>3, <2>2, <3>2, PhaseAfter
      <4> QED BY <1>3, <4>1, <4>2
    <3>3. CASE m \notin Hook
      <4>1. \A i \in 1..Len(wire) : wire[i] \notin Hook BY <1>1, <3>1, <3>3
      <4>2. session.phase = "Waiting" BY <1>1, <1>2, <1>3, <2>2, <3>3, PhaseAfter
      <4> QED BY <1>2, <1>3, <4>1, <4>2 DEF InSync
    <3> QED BY <3>2, <3>3
  <2> QED BY <2>1, <2>2 DEF InSync
<1> QED BY <1>4, <1>5, <1>6 DEF IInv

\* A step that leaves engine, clock and account alone only has to keep the wire in sync.
LEMMA SendInv ==
  ASSUME IInv, TypeOK', InSync', UNCHANGED <<now, session, earned, waited>>
  PROVE  IInv'
  BY DEF IInv, Claim, Pending, WellFormed

LEMMA StepInv == IInv /\ [SteppedBackNext]_vars => IInv'
<1> SUFFICES ASSUME IInv, [SteppedBackNext]_vars PROVE IInv'
  OBVIOUS
<1>1. TypeOK /\ InSync /\ TypeOK'
  BY StepTyped DEF IInv, SteppedBackNext, TimelyNext, BestEffortNext
<1>2. CASE HostStep
  <2>1. PICK m \in HostMoves : HostTurn(m[1], m[2], m[3]) /\ Send(m[3])
    BY <1>2 DEF HostStep
  <2>2. InSync' BY <1>1, <2>1, HookSentInSync DEF HostTurn
  <2> QED BY <1>1, <2>1, <2>2, SendInv DEF HostTurn
<1>3. CASE StatuslineTick
  <2>1. InSync' BY <1>1, <1>3, OtherSentInSync DEF StatuslineTick, Msg, Hook
  <2> QED BY <1>1, <1>3, <2>1, SendInv DEF StatuslineTick
<1>4. CASE UserCommand
  <2>1. PICK c \in {"Pause", "Resume"} : Send(c) BY <1>4 DEF UserCommand
  <2>2. InSync' BY <1>1, <1>4, <2>1, OtherSentInSync DEF UserCommand, Msg, Hook
  <2> QED BY <1>1, <1>4, <2>2, SendInv DEF UserCommand
<1>5. CASE Receive BY <1>5, ReceiveInv
<1>6. CASE wire = <<>> /\ Tick
  <2>1. session.phase = "Waiting" => host = "waiting" BY <1>1, <1>6 DEF InSync
  <2>2. /\ now' = now + 1 /\ UNCHANGED <<host, wire, session, earned>>
        /\ waited' = IF host = "waiting" THEN waited + 1 ELSE waited
    BY <1>6 DEF Tick
  <2>3. InSync' /\ WellFormed(session)' BY <2>2 DEF IInv, InSync, WellFormed
  <2>4. Pending(session, now) + (waited' - waited) >= Pending(session, now + 1)
    <3>1. session.open \in Nat \cup {NotOpen} /\ now \in Nat /\ waited \in Nat
      BY DEF IInv, TypeOK, SessionType
    <3>2. CASE session.open = NotOpen BY <2>2, <3>1, <3>2 DEF Pending
    <3>3. CASE session.open # NotOpen
      <4>1. waited' = waited + 1 BY <2>1, <2>2, <3>3 DEF IInv, WellFormed
      <4> QED BY <3>1, <3>3, <4>1 DEF Pending
    <3> QED BY <3>2, <3>3
  <2>5. Claim(earned, session, now + 1) <= waited'
    <3> DEFINE x == (earned * IMPRESSION_SECONDS) * SECOND
               y == session.counted * SECOND
    <3>1. x \in Nat /\ y \in Nat
      BY Distributes, EngineAssumption DEF IInv, TypeOK, SessionType
    <3>2. /\ Pending(session, now) \in Nat /\ Pending(session, now + 1) \in Nat
          /\ waited \in Nat /\ waited' \in Nat
      <4>1. session \in SessionType /\ now \in Nat /\ now + 1 \in Nat
            /\ waited \in Nat /\ waited' \in Nat
        BY <1>1 DEF TypeOK
      <4> QED BY <4>1, PendingNat
    <3>3. x + y + Pending(session, now) <= waited BY DEF IInv, Claim
    <3>4. Claim(earned, session, now + 1) = x + y + Pending(session, now + 1) BY DEF Claim
    <3> HIDE DEF x, y
    <3> QED BY <2>4, <3>1, <3>2, <3>3, <3>4
  <2>6. Claim(earned, session, now)' <= waited' BY <2>2, <2>5 DEF Claim, Pending
  <2> QED BY <1>1, <2>3, <2>6 DEF IInv
<1>7. CASE wire = <<>> /\ ClockBack
  <2>1. PICK t \in 0..(now - 1) : ClockSet(t) BY <1>7 DEF ClockBack
  <2>2. now' = t /\ UNCHANGED <<host, wire, session, earned, waited>>
    BY <2>1 DEF ClockSet
  <2>3. InSync' /\ WellFormed(session)' BY <2>2 DEF IInv, InSync, WellFormed
  <2>4. Pending(session, t) <= Pending(session, now)
    BY <2>1 DEF Pending, IInv, TypeOK, SessionType
  <2>5. Claim(earned, session, t) <= waited
    <3> DEFINE x == (earned * IMPRESSION_SECONDS) * SECOND
               y == session.counted * SECOND
    <3>1. x \in Nat /\ y \in Nat
      BY Distributes, EngineAssumption DEF IInv, TypeOK, SessionType
    <3>2. Pending(session, now) \in Nat /\ Pending(session, t) \in Nat /\ waited \in Nat
      <4>1. session \in SessionType /\ now \in Nat /\ t \in Nat /\ waited \in Nat
        BY <1>1, <2>1 DEF TypeOK
      <4> QED BY <4>1, PendingNat
    <3>3. x + y + Pending(session, now) <= waited BY DEF IInv, Claim
    <3>4. Claim(earned, session, t) = x + y + Pending(session, t) BY DEF Claim
    <3> HIDE DEF x, y
    <3> QED BY <2>4, <3>1, <3>2, <3>3, <3>4
  <2>6. Claim(earned, session, now)' <= waited' BY <2>2, <2>5 DEF Claim, Pending
  <2> QED BY <1>1, <2>3, <2>6 DEF IInv
<1>8. CASE UNCHANGED vars
  <2>1. InSync' BY <1>8 DEF IInv, InSync, vars
  <2> QED BY <1>1, <1>8, <2>1, SendInv DEF vars
<1> QED BY <1>2, <1>3, <1>4, <1>5, <1>6, <1>7, <1>8 DEF SteppedBackNext, TimelyNext, Messages

LEMMA InvEarned == IInv => EarnedByWaiting
<1> SUFFICES ASSUME IInv PROVE EarnedByWaiting OBVIOUS
<1> DEFINE x == (earned * IMPRESSION_SECONDS) * SECOND
           y == session.counted * SECOND
<1>1. x \in Nat /\ y \in Nat /\ Pending(session, now) \in Nat /\ waited \in Nat
  BY PendingNat, Distributes, EngineAssumption DEF IInv, TypeOK, SessionType
<1>2. x + y + Pending(session, now) <= waited BY DEF IInv, Claim
<1> HIDE DEF y
<1> QED BY <1>1, <1>2 DEF EarnedByWaiting

\* As long as messages are handled before time passes, every impression was
\* waited for, for any sizes, any number of turns and any clock stepped back
\* (engine.rs on_stop, countable_seconds_in).
THEOREM EarnedWasWaited == SteppedBackSpec => []EarnedByWaiting
<1>1. Init => IInv BY InitInv
<1>2. IInv /\ [SteppedBackNext]_vars => IInv' BY StepInv
<1>3. IInv => EarnedByWaiting BY InvEarned
<1> QED BY <1>1, <1>2, <1>3, PTL DEF SteppedBackSpec

\* A Stop with no interval open earns nothing (engine.rs on_stop).
THEOREM LateStopIsFree == SteppedBackSpec => []LateStopEarnsNothing
<1>1. Init => IInv BY InitInv
<1>2. IInv /\ [SteppedBackNext]_vars => IInv' BY StepInv
<1>3. IInv => LateStopEarnsNothing
  <2> SUFFICES ASSUME IInv, session.phase = "Idle" PROVE StopImpressions(session, now) = 0
    BY DEF LateStopEarnsNothing
  <2>1. session.counted = 0 BY DEF IInv, WellFormed
  <2> QED BY <2>1, NoImpressionForNothing DEF StopImpressions, Closed
<1> QED BY <1>1, <1>2, <1>3, PTL DEF SteppedBackSpec

-----------------------------------------------------------------------------
(* What heartbeats and prompts still guarantee when hooks are dropped and *)
(* datagrams are late: the messages on the wire are spent one at a time.  *)

OnWire(w, m) == Cardinality({i \in 1..Len(w) : w[i] = m})

LEMMA OnWireNat ==
  ASSUME NEW w \in Seq(Msg), NEW m
  PROVE  /\ OnWire(w, m) \in Nat
         /\ IsFiniteSet({i \in 1..Len(w) : w[i] = m})
<1>1. Len(w) \in Nat OBVIOUS
<1>2. IsFiniteSet(1..Len(w)) BY <1>1, FS_Interval
<1>3. {i \in 1..Len(w) : w[i] = m} \subseteq 1..Len(w) OBVIOUS
<1>4. IsFiniteSet({i \in 1..Len(w) : w[i] = m}) BY <1>2, <1>3, FS_Subset
<1> QED BY <1>4, FS_CardinalityType DEF OnWire

LEMMA OnWireAppend ==
  ASSUME NEW w \in Seq(Msg), NEW x \in Msg, NEW m
  PROVE  OnWire(Append(w, x), m) = OnWire(w, m) + IF x = m THEN 1 ELSE 0
<1> DEFINE v == Append(w, x)
           n == Len(w)
           I == {i \in 1..n : w[i] = m}
           J == {i \in 1..Len(v) : v[i] = m}
<1>1. n \in Nat /\ Len(v) = n + 1 /\ v[n + 1] = x /\ \A i \in 1..n : v[i] = w[i] OBVIOUS
<1>2. IsFiniteSet(I) /\ Cardinality(I) = OnWire(w, m) /\ OnWire(w, m) \in Nat
  BY OnWireNat DEF OnWire
<1>3. Cardinality(J) = OnWire(v, m) BY DEF OnWire
<1> HIDE DEF v, n
<1>4. n + 1 \notin I BY <1>1
<1>5. CASE x = m
  <2>1. J = I \cup {n + 1}
    <3>1. \A i : i \in 1..(n + 1) <=> i \in 1..n \/ i = n + 1 BY <1>1
    <3> QED BY <1>1, <1>5, <3>1
  <2>2. Cardinality(I \cup {n + 1}) = Cardinality(I) + 1 BY <1>2, <1>4, FS_AddElement
  <2> HIDE DEF I, J
  <2>3. OnWire(v, m) = OnWire(w, m) + 1 BY <1>2, <1>3, <2>1, <2>2
  <2> QED BY <1>5, <2>3 DEF v
<1>6. CASE x # m
  <2>1. J = I
    <3>1. \A i : i \in 1..(n + 1) <=> i \in 1..n \/ i = n + 1 BY <1>1
    <3> QED BY <1>1, <1>6, <3>1
  <2> HIDE DEF I, J
  <2>2. OnWire(v, m) = OnWire(w, m) + 0 BY <1>2, <1>3, <2>1
  <2> QED BY <1>6, <2>2 DEF v
<1> QED BY <1>5, <1>6

LEMMA OnWireTail ==
  ASSUME NEW w \in Seq(Msg), w # <<>>, NEW m
  PROVE  OnWire(w, m) = OnWire(Tail(w), m) + IF Head(w) = m THEN 1 ELSE 0
<1> DEFINE v == Tail(w)
           n == Len(v)
           I == {i \in 1..n : v[i] = m}
           J == {i \in 1..Len(w) : w[i] = m}
           S == {i \in 2..Len(w) : w[i] = m}
           f == [i \in I |-> i + 1]
<1>1. /\ v \in Seq(Msg) /\ n \in Nat /\ Len(w) = n + 1 /\ Head(w) = w[1]
      /\ \A i \in 1..n : v[i] = w[i + 1]
  OBVIOUS
<1>2. IsFiniteSet(I) /\ Cardinality(I) = OnWire(v, m) /\ OnWire(v, m) \in Nat
  BY <1>1, OnWireNat DEF OnWire
<1>3. Cardinality(J) = OnWire(w, m) BY DEF OnWire
<1> HIDE DEF v, n
<1>4. f \in Bijection(I, S)
  <2>1. \A i \in I : i \in 1..n /\ i + 1 \in S
    <3> TAKE i \in I
    <3>1. i \in 1..n /\ v[i] = m OBVIOUS
    <3>2. i + 1 \in 2..Len(w) /\ w[i + 1] = m BY <1>1, <3>1
    <3> QED BY <3>1, <3>2
  <2>2. \A j \in S : j - 1 \in I /\ (j - 1) + 1 = j
    <3> TAKE j \in S
    <3>1. j \in 2..Len(w) /\ w[j] = m OBVIOUS
    <3>2. j - 1 \in 1..n /\ (j - 1) + 1 = j BY <1>1, <3>1
    <3>3. v[j - 1] = w[(j - 1) + 1] BY <1>1, <3>2
    <3> QED BY <3>1, <3>2, <3>3
  <2>3. f \in [I -> S] BY <2>1
  <2>4. \A i, j \in I : f[i] = f[j] => i = j
    <3> SUFFICES ASSUME NEW i \in I, NEW j \in I, f[i] = f[j] PROVE i = j OBVIOUS
    <3>1. i \in Nat /\ j \in Nat /\ i + 1 = j + 1 BY <1>1, <2>1
    <3> QED BY <3>1
  <2>5. \A j \in S : \E i \in I : f[i] = j
    <3> TAKE j \in S
    <3>1. j - 1 \in I /\ f[j - 1] = j BY <2>2
    <3> QED BY <3>1
  <2> HIDE DEF f, I, S
  <2> QED BY <2>3, <2>4, <2>5 DEF Bijection, Injection, IsInjective, Surjection
<1>5. IsFiniteSet(S) /\ Cardinality(S) = OnWire(v, m)
  BY <1>2, <1>4, FS_Bijection DEF ExistsBijection
<1>6. 1 \notin S BY <1>1
<1>7. CASE Head(w) = m
  <2>1. J = S \cup {1}
    <3>1. \A i : i \in 1..Len(w) <=> i \in 2..Len(w) \/ i = 1 BY <1>1
    <3> QED BY <1>1, <1>7, <3>1
  <2>2. Cardinality(S \cup {1}) = Cardinality(S) + 1 BY <1>5, <1>6, FS_AddElement
  <2> HIDE DEF S, J
  <2>3. OnWire(w, m) = OnWire(v, m) + 1 BY <1>2, <1>3, <1>5, <2>1, <2>2
  <2> QED BY <1>7, <2>3 DEF v
<1>8. CASE Head(w) # m
  <2>1. J = S
    <3>1. \A i : i \in 1..Len(w) <=> i \in 2..Len(w) \/ i = 1 BY <1>1
    <3> QED BY <1>1, <1>8, <3>1
  <2> HIDE DEF S, J
  <2>2. OnWire(w, m) = OnWire(v, m) + 0 BY <1>2, <1>3, <1>5, <2>1
  <2> QED BY <1>8, <2>2 DEF v
<1> QED BY <1>7, <1>8

\* Heartbeats not yet spent: those the open interval holds and those on the wire.
Unspent(s, w) == Cardinality(s.heartbeats) + OnWire(w, "Heartbeat")

\* Intervals not yet paid: the open one and those whose prompt is on the wire.
Unpaid(s, w) == (IF s.phase = "Idle" THEN 0 ELSE 1) + OnWire(w, "UserPromptSubmit")

BeatsInv ==
  /\ GateInv(session, now, backs)
  /\ earned * IMPRESSION_SECONDS + Unspent(session, wire) * Permits(backs) <= beats * Permits(backs)

PromptsInv ==
  /\ WellFormed(session)
  /\ earned + Unpaid(session, wire) * MAX_IMPRESSIONS_PER_INTERVAL
       <= prompts * MAX_IMPRESSIONS_PER_INTERVAL

LateInv == TypeOK /\ BeatsInv /\ PromptsInv

LEMMA InitLate == Init => LateInv
<1> SUFFICES ASSUME Init PROVE LateInv OBVIOUS
<1>1. TypeOK BY InitTyped
<1>0. Permits(backs) \in Nat BY <1>1, PermitsNat DEF TypeOK
<1>2. /\ session = NewSession /\ now = 0 /\ earned = 0 /\ beats = 0 /\ prompts = 0
      /\ now \in Nat /\ backs \in Nat
  BY DEF Init
<1>3. \A m : OnWire(wire, m) = 0
  <2> TAKE m
  <2>1. wire = <<>> /\ Len(wire) = 0 BY DEF Init
  <2>2. {i \in 1..Len(wire) : wire[i] = m} = {} BY <2>1
  <2> QED BY <2>2, FS_EmptySet DEF OnWire
<1>4. GateInv(session, now, backs) /\ Cardinality(session.heartbeats) = 0
  BY <1>2, NewSessionGate
<1>5. Unspent(session, wire) = 0 BY <1>3, <1>4 DEF Unspent
<1>6. session.phase = "Idle" /\ session.open = NotOpen /\ session.counted = 0
  BY <1>2 DEF NewSession
<1>7. Unpaid(session, wire) = 0 BY <1>3, <1>6 DEF Unpaid
<1>8. BeatsInv
  BY <1>2, <1>4, <1>5, <1>0, EngineAssumption DEF BeatsInv
<1>9. PromptsInv
  BY <1>2, <1>6, <1>7, EngineAssumption DEF PromptsInv, WellFormed
<1> QED BY <1>1, <1>8, <1>9 DEF LateInv

\* A step that only sends, loses or waits: the account of the wire is all
\* that can change.
LEMMA SentLate ==
  ASSUME LateInv, TypeOK', UNCHANGED <<session, earned, backs>>,
         now' \in Nat, now <= now',
         NEW db \in Nat, NEW dp \in Nat,
         beats' = beats + db, prompts' = prompts + dp,
         OnWire(wire', "Heartbeat") <= OnWire(wire, "Heartbeat") + db,
         OnWire(wire', "UserPromptSubmit") <= OnWire(wire, "UserPromptSubmit") + dp
  PROVE  LateInv'
<1>1. /\ session \in SessionType /\ now \in Nat /\ earned \in Nat /\ beats \in Nat
      /\ prompts \in Nat /\ backs \in Nat
  BY DEF LateInv, TypeOK
<1>0. Permits(backs) \in Nat BY <1>1, PermitsNat
<1>2. GateInv(session, now', backs) BY <1>1, GateLater DEF LateInv, BeatsInv
<1>3. /\ Cardinality(session.heartbeats) \in Nat
      /\ OnWire(wire, "Heartbeat") \in Nat /\ OnWire(wire', "Heartbeat") \in Nat
      /\ OnWire(wire, "UserPromptSubmit") \in Nat /\ OnWire(wire', "UserPromptSubmit") \in Nat
  <2>1. wire \in Seq(Msg) /\ wire' \in Seq(Msg) BY DEF LateInv, TypeOK
  <2> QED BY <1>2, <2>1, OnWireNat, FS_CardinalityType DEF GateInv
<1> DEFINE a == Unspent(session, wire)
           b == Unspent(session, wire')
           c == Unpaid(session, wire)
           d == Unpaid(session, wire')
<1>4. a \in Nat /\ b \in Nat /\ b <= a + db BY <1>3 DEF Unspent
<1>5. c \in Nat /\ d \in Nat /\ d <= c + dp BY <1>3 DEF Unpaid
<1>6. earned * IMPRESSION_SECONDS + a * Permits(backs) <= beats * Permits(backs)
  BY DEF LateInv, BeatsInv
<1>7. earned + c * MAX_IMPRESSIONS_PER_INTERVAL <= prompts * MAX_IMPRESSIONS_PER_INTERVAL
  BY DEF LateInv, PromptsInv
<1> HIDE DEF a, b, c, d
<1>8. earned * IMPRESSION_SECONDS + b * Permits(backs) <= beats' * Permits(backs)
  BY <1>1, <1>4, <1>6, <1>0, EngineAssumption, SpendLater
<1>9. earned + d * MAX_IMPRESSIONS_PER_INTERVAL <= prompts' * MAX_IMPRESSIONS_PER_INTERVAL
  BY <1>1, <1>5, <1>7, EngineAssumption, SpendLater
<1>10. BeatsInv' BY <1>2, <1>8 DEF BeatsInv, b
<1>11. PromptsInv' BY <1>9 DEF LateInv, PromptsInv, d, WellFormed
<1> QED BY <1>10, <1>11 DEF LateInv

\* One message handled: it leaves the wire, and what it pays was unspent.
LEMMA ReceivedLate ==
  ASSUME LateInv, Receive
  PROVE  LateInv'
<1> DEFINE m == Head(wire)
           n == Earned(session, m, now)
           r == Handled(session, m, now)
<1>1. /\ session \in SessionType /\ now \in Nat /\ earned \in Nat /\ beats \in Nat
      /\ prompts \in Nat /\ wire \in Seq(Msg) /\ wire # <<>> /\ m \in Msg /\ backs \in Nat
  BY DEF LateInv, TypeOK, Receive
<1>0. Permits(backs) \in Nat BY <1>1, PermitsNat
<1>2. /\ wire' = Tail(wire) /\ session' = r /\ earned' = earned + n
      /\ UNCHANGED <<now, prompts, beats, backs>>
  BY DEF Receive
<1>3. \A x : OnWire(wire, x) = OnWire(wire', x) + IF m = x THEN 1 ELSE 0
  BY <1>1, <1>2, OnWireTail
<1>4. TypeOK' BY ReceiveTyped DEF LateInv
<1>5. wire' \in Seq(Msg) /\ session' \in SessionType /\ n \in Nat
  <2>1. n \in Nat BY <1>1, EngineTypes DEF Earned
  <2> QED BY <1>4, <2>1 DEF TypeOK
<1>6. GateInv(session, now, backs) /\ WellFormed(session) BY DEF LateInv, BeatsInv, PromptsInv
<1> HIDE DEF m, n, r
<1> DEFINE h == Cardinality(session.heartbeats)
           hh == Cardinality(r.heartbeats)
<1>7. \A b \in BOOLEAN :
         /\ GateInv(SetPaused(session, b), now, backs)
         /\ SetPaused(session, b).heartbeats = session.heartbeats
         /\ GateInv(OnPromptSubmit(session, now), now, backs)
         /\ OnPromptSubmit(session, now).heartbeats = {}
         /\ GateInv(OnPreTool(session, now), now, backs)
         /\ OnPreTool(session, now).heartbeats = session.heartbeats
         /\ GateInv(OnPostTool(session, now), now, backs)
         /\ OnPostTool(session, now).heartbeats = session.heartbeats
         /\ GateInv(OnStop(session, now), now, backs) /\ OnStop(session, now).heartbeats = {}
         /\ GateInv(OnHeartbeat(session, now), now, backs)
         /\ Cardinality(OnHeartbeat(session, now).heartbeats) <= h + 1
  BY <1>1, <1>6, GateKept
<1>8. GateInv(r, now, backs)
  BY <1>1, <1>7 DEF r, Handled, Msg, Hook
<1>9. h \in Nat /\ hh \in Nat BY <1>6, <1>8, FS_CardinalityType DEF GateInv
<1>10. n * IMPRESSION_SECONDS <= h * Permits(backs) /\ (m # "Stop" => n = 0)
       /\ n <= MAX_IMPRESSIONS_PER_INTERVAL
  <2>1. CASE m = "Stop"
    <3>1. n = StopImpressions(session, now) BY <2>1 DEF n, Earned
    <3> QED BY <1>1, <1>6, <2>1, <3>1, StopAttested, StopCapped
  <2>2. CASE m # "Stop"
    <3>1. n = 0 BY <2>2 DEF n, Earned
    <3>2. h * Permits(backs) \in Nat BY <1>9, <1>0, Distributes
    <3>3. 0 * IMPRESSION_SECONDS = 0 BY EngineAssumption
    <3> QED BY <2>2, <3>1, <3>2, <3>3, EngineAssumption
  <2> QED BY <2>1, <2>2
<1>11. CASE m = "Stop"
  <2> DEFINE a == Unspent(session, wire)
             b == Unspent(session', wire')
             c == Unpaid(session, wire)
             d == Unpaid(session', wire')
  <2>1. r = OnStop(session, now) BY <1>11 DEF r, Handled
  <2>2. hh = 0 BY <1>7, <2>1, FS_EmptySet
  <2>3. /\ OnWire(wire, "Heartbeat") = OnWire(wire', "Heartbeat")
        /\ OnWire(wire, "UserPromptSubmit") = OnWire(wire', "UserPromptSubmit")
        /\ OnWire(wire', "Heartbeat") \in Nat /\ OnWire(wire', "UserPromptSubmit") \in Nat
    <3>1. OnWire(wire', "Heartbeat") \in Nat /\ OnWire(wire', "UserPromptSubmit") \in Nat
      BY <1>5, OnWireNat
    <3> QED BY <1>3, <1>11, <3>1
  <2>4. a \in Nat /\ b \in Nat /\ b + h <= a BY <1>2, <1>9, <2>2, <2>3 DEF Unspent
  <2>5. earned * IMPRESSION_SECONDS + a * Permits(backs) <= beats * Permits(backs)
    BY DEF LateInv, BeatsInv
  <2>6. earned + c * MAX_IMPRESSIONS_PER_INTERVAL <= prompts * MAX_IMPRESSIONS_PER_INTERVAL
    BY DEF LateInv, PromptsInv
  <2>7. r.phase = "Idle" /\ r.open = NotOpen /\ r.counted = 0
    <3>1. Closed(session, now) \in SessionType BY <1>1, EngineTypes
    <3> QED BY <2>1, <3>1 DEF OnStop, ResetInterval, SessionType
  <2>8. \E k \in Nat : n <= k * MAX_IMPRESSIONS_PER_INTERVAL /\ d + k <= c
        /\ c \in Nat /\ d \in Nat
    <3>1. CASE session.phase = "Idle"
      <4>1. session.counted = 0 BY <1>6, <3>1 DEF WellFormed
      <4>2. n = 0 BY <1>11, <3>1, <4>1, NoImpressionForNothing
                  DEF n, Earned, StopImpressions, Closed
      <4>3. n <= 0 * MAX_IMPRESSIONS_PER_INTERVAL BY <4>2, EngineAssumption
      <4>4. d + 0 <= c /\ c \in Nat /\ d \in Nat BY <1>2, <2>3, <2>7, <3>1 DEF Unpaid
      <4> QED BY <4>3, <4>4
    <3>2. CASE session.phase # "Idle"
      <4>1. n <= 1 * MAX_IMPRESSIONS_PER_INTERVAL BY <1>5, <1>10, EngineAssumption
      <4>2. d + 1 <= c /\ c \in Nat /\ d \in Nat BY <1>2, <2>3, <2>7, <3>2 DEF Unpaid
      <4> QED BY <4>1, <4>2
    <3> QED BY <3>1, <3>2
  <2> HIDE DEF a, b, c, d
  <2>9. (earned + n) * IMPRESSION_SECONDS + b * Permits(backs) <= beats * Permits(backs)
    <3>1. /\ earned * IMPRESSION_SECONDS \in Nat /\ n * IMPRESSION_SECONDS \in Nat
          /\ (earned + n) * IMPRESSION_SECONDS
               = earned * IMPRESSION_SECONDS + n * IMPRESSION_SECONDS
      BY <1>1, <1>5, Distributes, EngineAssumption
    <3>2. beats * Permits(backs) \in Nat BY <1>1, <1>0, Distributes
    <3> DEFINE x == earned * IMPRESSION_SECONDS
               y == n * IMPRESSION_SECONDS
               z == beats * Permits(backs)
    <3>3. /\ x \in Nat /\ y \in Nat /\ z \in Nat
          /\ x + a * Permits(backs) <= z /\ y <= h * Permits(backs)
      BY <1>10, <2>5, <3>1, <3>2
    <3> HIDE DEF x, y, z
    <3>4. (x + y) + b * Permits(backs) <= z BY <1>9, <2>4, <3>3, <1>0, SpendNow
    <3> QED BY <3>1, <3>4 DEF x, y, z
  <2>10. (earned + n) + d * MAX_IMPRESSIONS_PER_INTERVAL
           <= prompts * MAX_IMPRESSIONS_PER_INTERVAL
    <3>1. PICK k \in Nat : n <= k * MAX_IMPRESSIONS_PER_INTERVAL /\ d + k <= c
                           /\ c \in Nat /\ d \in Nat
      BY <2>8
    <3>2. prompts * MAX_IMPRESSIONS_PER_INTERVAL \in Nat
      BY <1>1, EngineAssumption, Distributes
    <3> QED BY <1>1, <1>5, <2>6, <3>1, <3>2, EngineAssumption, SpendNow
  <2>11. WellFormed(r) BY <2>7 DEF WellFormed
  <2>12. BeatsInv' BY <1>2, <1>8, <2>9 DEF BeatsInv, b
  <2>13. PromptsInv' BY <1>2, <2>10, <2>11 DEF PromptsInv, d
  <2> QED BY <1>4, <2>12, <2>13 DEF LateInv
<1>12. CASE m # "Stop"
  <2> DEFINE a == Unspent(session, wire)
             b == Unspent(session', wire')
             c == Unpaid(session, wire)
             d == Unpaid(session', wire')
  <2>1. n = 0 /\ earned' = earned BY <1>1, <1>2, <1>10, <1>12
  <2>2. /\ OnWire(wire', "Heartbeat") \in Nat /\ OnWire(wire', "UserPromptSubmit") \in Nat
        /\ OnWire(wire, "Heartbeat")
             = OnWire(wire', "Heartbeat") + IF m = "Heartbeat" THEN 1 ELSE 0
        /\ OnWire(wire, "UserPromptSubmit")
             = OnWire(wire', "UserPromptSubmit") + IF m = "UserPromptSubmit" THEN 1 ELSE 0
    BY <1>3, <1>5, OnWireNat
  <2>3. hh <= h + IF m = "Heartbeat" THEN 1 ELSE 0
    <3>1. CASE m = "Heartbeat" BY <1>7, <3>1 DEF r, Handled
    <3>2. CASE m = "UserPromptSubmit"
      <4>1. hh = 0 BY <1>7, <3>2, FS_EmptySet DEF r, Handled
      <4> QED BY <1>9, <3>2, <4>1
    <3>3. CASE m \notin {"Heartbeat", "UserPromptSubmit"}
      <4>1. r.heartbeats = session.heartbeats
        BY <1>1, <1>7, <1>12, <3>3 DEF r, Handled, Msg, Hook
      <4> QED BY <1>9, <3>3, <4>1
    <3> QED BY <3>1, <3>2, <3>3
  <2>4. /\ WellFormed(r)
        /\ session.phase = "Idle" /\ m # "UserPromptSubmit" => r.phase = "Idle"
    <3>1. WellFormed(r) BY <1>1, <1>6, MessageClaims DEF r
    <3>2. ASSUME session.phase = "Idle", m # "UserPromptSubmit" PROVE r.phase = "Idle"
      <4>1. OnPreTool(session, now) = session /\ OnPostTool(session, now) = session
        BY <3>2 DEF OnPreTool, OnPostTool
      <4>2. \A v : SetPaused(session, v).phase = "Idle"
            /\ OnHeartbeat(session, now).phase = "Idle"
        BY <1>1, <3>2 DEF SetPaused, OnHeartbeat, SessionType
      <4> QED BY <1>1, <1>12, <3>2, <4>1, <4>2 DEF r, Handled, Msg, Hook
    <3> QED BY <3>1, <3>2
  <2>5. a \in Nat /\ b \in Nat /\ b <= a
    <3>1. a = h + OnWire(wire, "Heartbeat") /\ b = hh + OnWire(wire', "Heartbeat")
      BY <1>2 DEF Unspent
    <3> HIDE DEF a, b, h, hh
    <3> QED BY <1>9, <2>2, <2>3, <3>1
  <2>6. c \in Nat /\ d \in Nat /\ d <= c BY <1>2, <2>2, <2>4 DEF Unpaid
  <2>7. earned * IMPRESSION_SECONDS + a * Permits(backs) <= beats * Permits(backs)
    BY DEF LateInv, BeatsInv
  <2>8. earned + c * MAX_IMPRESSIONS_PER_INTERVAL <= prompts * MAX_IMPRESSIONS_PER_INTERVAL
    BY DEF LateInv, PromptsInv
  <2> HIDE DEF a, b, c, d
  <2>9. earned * IMPRESSION_SECONDS + b * Permits(backs) <= (beats + 0) * Permits(backs)
    <3>1. earned * IMPRESSION_SECONDS \in Nat BY <1>1, Distributes, EngineAssumption
    <3>2. b <= a + 0 BY <2>5
    <3> QED BY <1>1, <2>5, <2>7, <3>1, <3>2, <1>0, SpendLater
  <2>10. earned + d * MAX_IMPRESSIONS_PER_INTERVAL
           <= (prompts + 0) * MAX_IMPRESSIONS_PER_INTERVAL
    <3>1. d <= c + 0 BY <2>6
    <3> QED BY <1>1, <2>6, <2>8, <3>1, EngineAssumption, SpendLater
  <2>11. beats + 0 = beats /\ prompts + 0 = prompts BY <1>1
  <2>12. BeatsInv' BY <1>2, <1>8, <2>1, <2>9, <2>11 DEF BeatsInv, b
  <2>13. PromptsInv' BY <1>2, <2>1, <2>4, <2>10, <2>11 DEF PromptsInv, d
  <2> QED BY <1>4, <2>12, <2>13 DEF LateInv
<1> QED BY <1>11, <1>12

\* A clock stepped back: what the kept heartbeats permit grows by one window
\* each, so the balance holds at the larger number of ticks.
LEMMA BackLate == LateInv /\ ClockBack => LateInv'
<1> SUFFICES ASSUME LateInv, ClockBack PROVE LateInv' OBVIOUS
<1>1. PICK t \in 0..(now - 1) : ClockSet(t) BY DEF ClockBack
<1>2. /\ now' = t /\ backs' = backs + 1
      /\ UNCHANGED <<session, earned, wire, beats, prompts>>
  BY <1>1 DEF ClockSet
<1>3. /\ TypeOK /\ session \in SessionType /\ now \in Nat /\ backs \in Nat /\ t \in Nat
      /\ earned \in Nat /\ beats \in Nat /\ wire \in Seq(Msg)
  BY <1>1 DEF LateInv, TypeOK
<1>4. TypeOK' BY <1>3, StepTyped DEF BestEffortNext
<1>5. GateInv(session, t, backs + 1) BY <1>3, GateBack DEF LateInv, BeatsInv
<1> DEFINE x == earned * IMPRESSION_SECONDS
           u == Unspent(session, wire)
           n == Permits(backs)
           m == Permits(backs + 1)
<1>6. x \in Nat BY <1>3, EngineAssumption, Distributes
<1>7. u \in Nat
  <2>1. IsFiniteSet(session.heartbeats) BY DEF LateInv, BeatsInv, GateInv
  <2>2. Cardinality(session.heartbeats) \in Nat /\ OnWire(wire, "Heartbeat") \in Nat
    BY <1>3, <2>1, OnWireNat, FS_CardinalityType
  <2> QED BY <2>2 DEF Unspent
<1>8. n \in Nat \ {0} /\ m \in Nat /\ n <= m BY <1>3, PermitsNat
<1>9. x + u * n <= beats * n BY DEF LateInv, BeatsInv
<1> HIDE DEF x, u, n, m
<1>10. x + u * m <= beats * m BY <1>3, <1>6, <1>7, <1>8, <1>9, WorthMore
<1>11. BeatsInv' BY <1>2, <1>5, <1>10 DEF BeatsInv, x, u, m
<1>12. PromptsInv' BY <1>2 DEF LateInv, PromptsInv
<1> QED BY <1>4, <1>11, <1>12 DEF LateInv

LEMMA StepLate == LateInv /\ [BestEffortNext]_vars => LateInv'
<1> SUFFICES ASSUME LateInv, [BestEffortNext]_vars PROVE LateInv' OBVIOUS
<1>1. TypeOK /\ TypeOK' BY StepTyped DEF LateInv
<1>2. wire \in Seq(Msg) /\ now \in Nat /\ beats \in Nat /\ prompts \in Nat
  BY <1>1 DEF TypeOK
<1>3. \A x : OnWire(wire, x) \in Nat BY <1>2, OnWireNat
<1>4. CASE HostStep \/ HostStepLost
  <2>1. PICK m \in HostMoves :
          HostTurn(m[1], m[2], m[3]) /\ (Send(m[3]) \/ UNCHANGED wire)
    BY <1>4 DEF HostStep, HostStepLost
  <2> DEFINE x == m[3]
             dp == IF x = "UserPromptSubmit" THEN 1 ELSE 0
  <2>2. x \in Hook /\ x \in Msg BY DEF HostMoves, Hook, Msg
  <2>3. /\ UNCHANGED <<now, session, earned, beats, backs>>
        /\ prompts' = IF x = "UserPromptSubmit" THEN prompts + 1 ELSE prompts
    BY <2>1 DEF HostTurn
  <2>4. wire' \in {Append(wire, x), wire} BY <2>1 DEF Send
  <2> HIDE DEF x
  <2>5. /\ OnWire(wire', "Heartbeat") = OnWire(wire, "Heartbeat")
        /\ OnWire(wire', "UserPromptSubmit") <= OnWire(wire, "UserPromptSubmit") + dp
    <3>1. OnWire(wire, "Heartbeat") \in Nat /\ OnWire(wire, "UserPromptSubmit") \in Nat
      BY <1>3
    <3>2. CASE wire' = wire BY <3>1, <3>2
    <3>3. CASE wire' = Append(wire, x)
      <4>1. x # "Heartbeat" BY <2>2 DEF Hook
      <4>2. /\ OnWire(wire', "Heartbeat") = OnWire(wire, "Heartbeat") + 0
            /\ OnWire(wire', "UserPromptSubmit") = OnWire(wire, "UserPromptSubmit") + dp
        BY <1>2, <2>2, <3>3, <4>1, OnWireAppend
      <4> QED BY <3>1, <4>2
    <3> QED BY <2>4, <3>2, <3>3
  <2>6. prompts' = prompts + dp /\ beats' = beats + 0 /\ dp \in Nat BY <1>2, <2>3
  <2>7. OnWire(wire', "Heartbeat") <= OnWire(wire, "Heartbeat") + 0 BY <1>3, <2>5
  <2> HIDE DEF dp
  <2>8. now' \in Nat /\ now <= now' BY <1>2, <2>3
  <2> QED BY <1>1, <2>3, <2>5, <2>6, <2>7, <2>8, SentLate
<1>5. CASE StatuslineTick
  <2>1. wire' = Append(wire, "Heartbeat") /\ beats' = beats + 1 /\ prompts' = prompts + 0
        /\ UNCHANGED <<now, session, earned, backs>>
    BY <1>2, <1>5 DEF StatuslineTick, Send
  <2>2. "Heartbeat" \in Msg BY DEF Msg
  <2>3. OnWire(wire', "Heartbeat") = OnWire(wire, "Heartbeat") + 1
        /\ OnWire(wire', "UserPromptSubmit") = OnWire(wire, "UserPromptSubmit") + 0
    BY <1>2, <2>1, <2>2, OnWireAppend
  <2>4. now' \in Nat /\ now <= now' BY <1>2, <2>1
  <2>5. OnWire(wire', "Heartbeat") <= OnWire(wire, "Heartbeat") + 1
        /\ OnWire(wire', "UserPromptSubmit") <= OnWire(wire, "UserPromptSubmit") + 0
    BY <1>3, <2>3
  <2> QED BY <1>1, <2>1, <2>4, <2>5, SentLate
<1>6. CASE UserCommand
  <2>1. PICK c \in {"Pause", "Resume"} : Send(c) BY <1>6 DEF UserCommand
  <2>2. wire' = Append(wire, c) /\ beats' = beats + 0 /\ prompts' = prompts + 0
        /\ UNCHANGED <<now, session, earned, backs>>
    BY <1>2, <1>6, <2>1 DEF UserCommand, Send
  <2>3. c \in Msg /\ c # "Heartbeat" /\ c # "UserPromptSubmit" BY DEF Msg
  <2>4. OnWire(wire', "Heartbeat") <= OnWire(wire, "Heartbeat") + 0
        /\ OnWire(wire', "UserPromptSubmit") <= OnWire(wire, "UserPromptSubmit") + 0
    <3>1. OnWire(wire', "Heartbeat") = OnWire(wire, "Heartbeat") + 0
          /\ OnWire(wire', "UserPromptSubmit") = OnWire(wire, "UserPromptSubmit") + 0
      BY <1>2, <2>2, <2>3, OnWireAppend
    <3> QED BY <1>3, <3>1
  <2>5. now' \in Nat /\ now <= now' BY <1>2, <2>2
  <2> QED BY <1>1, <2>2, <2>4, <2>5, SentLate
<1>7. CASE Receive BY <1>7, ReceivedLate
<1>8. CASE Tick \/ UNCHANGED vars
  <2>1. /\ now' \in {now, now + 1} /\ beats' = beats + 0 /\ prompts' = prompts + 0
        /\ UNCHANGED <<session, earned, wire, backs>>
    BY <1>2, <1>8 DEF Tick, vars
  <2>2. now' \in Nat /\ now <= now' BY <1>2, <2>1
  <2>3. OnWire(wire', "Heartbeat") <= OnWire(wire, "Heartbeat") + 0
        /\ OnWire(wire', "UserPromptSubmit") <= OnWire(wire, "UserPromptSubmit") + 0
    BY <1>3, <2>1
  <2> QED BY <1>1, <2>1, <2>2, <2>3, SentLate
<1>9. CASE ClockBack BY <1>9, BackLate
<1> QED BY <1>4, <1>5, <1>6, <1>7, <1>8, <1>9 DEF BestEffortNext, Messages

LEMMA LateBounds == LateInv => HeartbeatsAttest /\ CappedPerPrompt
<1> SUFFICES ASSUME LateInv PROVE HeartbeatsAttest /\ CappedPerPrompt OBVIOUS
<1>1. /\ wire \in Seq(Msg) /\ earned \in Nat /\ beats \in Nat /\ prompts \in Nat
      /\ backs \in Nat
      /\ IsFiniteSet(session.heartbeats)
  BY DEF LateInv, TypeOK, BeatsInv, GateInv
<1>0. Permits(backs) \in Nat BY <1>1, PermitsNat
<1>2. Unspent(session, wire) \in Nat /\ Unpaid(session, wire) \in Nat
  <2>1. Cardinality(session.heartbeats) \in Nat /\ \A x : OnWire(wire, x) \in Nat
    BY <1>1, OnWireNat, FS_CardinalityType
  <2> QED BY <2>1 DEF Unspent, Unpaid
<1> DEFINE x == earned * IMPRESSION_SECONDS
           u == Unspent(session, wire) * Permits(backs)
           v == beats * Permits(backs)
           w == Unpaid(session, wire) * MAX_IMPRESSIONS_PER_INTERVAL
           p == prompts * MAX_IMPRESSIONS_PER_INTERVAL
<1>3. x \in Nat /\ u \in Nat /\ v \in Nat /\ w \in Nat /\ p \in Nat
  BY <1>1, <1>2, <1>0, EngineAssumption, Distributes
<1>4. x + u <= v /\ earned + w <= p BY DEF LateInv, BeatsInv, PromptsInv
<1>5. p = MAX_IMPRESSIONS_PER_INTERVAL * prompts BY <1>1, EngineAssumption
<1> HIDE DEF x, u, v, w, p
<1>6. x <= v /\ earned <= p BY <1>1, <1>3, <1>4
<1> QED BY <1>5, <1>6 DEF x, v, HeartbeatsAttest, CappedPerPrompt, Windows, Permits, GateTicks

\* Whatever is dropped, late or repeated, and whenever the clock is stepped back,
\* n heartbeats attest at most n times the ticks of one gate, and of one gate more
\* for each step back (engine.rs countable_seconds_in).
THEOREM AttestedByHeartbeats == BestEffortSpec => []HeartbeatsAttest
<1>1. Init => LateInv BY InitLate
<1>2. LateInv /\ [BestEffortNext]_vars => LateInv' BY StepLate
<1>3. LateInv => HeartbeatsAttest BY LateBounds
<1> QED BY <1>1, <1>2, <1>3, PTL DEF BestEffortSpec

\* An interval is paid once and up to the cap, whatever Stops are dropped,
\* late or repeated (engine.rs on_prompt_submit, on_stop).
THEOREM PaidOncePerPrompt == BestEffortSpec => []CappedPerPrompt
<1>1. Init => LateInv BY InitLate
<1>2. LateInv /\ [BestEffortNext]_vars => LateInv' BY StepLate
<1>3. LateInv => CappedPerPrompt BY LateBounds
<1> QED BY <1>1, <1>2, <1>3, PTL DEF BestEffortSpec

-----------------------------------------------------------------------------
(* What is joined piece by piece. *)

\* One after the other; F goes through the first n sequences of ss.
Plus(u, v) == u \o v
Chained(F, n, ss) == F[0] = <<>> /\ \A i \in 1..n : F[i] = Plus(F[i - 1], ss[i])

\* FlattenSeq joins the sequences from the first to the last.
LEMMA FlattenSteps ==
  ASSUME NEW S, NEW ss \in Seq(Seq(S)), NEW n \in Nat, n = Len(ss)
  PROVE  \E F \in [0..n -> Seq(S)] : Chained(F, n, ss) /\ FlattenSeq(ss) = F[n]
<1> DEFINE B == Seq(S)
           step == [i \in 1..n |-> [u \in B |-> Plus(u, ss[i])]]
<1>1. \A i \in 1..n : ss[i] \in B OBVIOUS
<1>2. \A u, v \in B : Plus(u, v) \in B BY DEF Plus
<1>3. <<>> \in B /\ \A v \in B : Plus(<<>>, v) = v BY DEF Plus
<1> HIDE DEF B
<1>4. /\ step \in [1..n -> [B -> B]]
      /\ \A i \in 1..n, u \in B : step[i][u] = Plus(u, ss[i])
  BY <1>1, <1>2
<1> HIDE DEF step
<1>5. PICK F \in [0..n -> B] : Iterates(F, n, <<>>, step) BY <1>3, <1>4, Recursion
<1>6. Chained(F, n, ss)
  <2>1. ASSUME NEW i \in 1..n PROVE F[i] = Plus(F[i - 1], ss[i])
    <3>1. i - 1 \in 0..n OBVIOUS
    <3>2. F[i - 1] \in B BY <1>5, <3>1
    <3>3. F[i] = step[i][F[i - 1]] BY <1>5, Zenon DEF Iterates
    <3> QED BY <1>4, <3>2, <3>3
  <2> QED BY <1>5, <2>1 DEF Iterates, Chained
<1>7. FlattenSeq(ss) = F[n]
  <2>1. CASE n = 0
    <3>1. ss = <<>> BY <2>1, EmptySeq, Zenon
    <3>2. FlattenSeq(ss) = ss BY <2>1 DEF FlattenSeq
    <3>3. F[n] = <<>> BY <1>6, <2>1 DEF Chained
    <3> QED BY <3>1, <3>2, <3>3, Zenon
  <2>2. CASE n # 0
    <3> DEFINE Def(f) == [i \in 1..n |-> IF i = 1 THEN ss[i] ELSE Plus(f[i - 1], ss[i])]
               flatten == CHOOSE f : f = Def(f)
               G == [i \in 1..n |-> F[i]]
    <3>1. G = Def(G)
      <4>1. ASSUME NEW i \in 1..n
            PROVE  F[i] = IF i = 1 THEN ss[i] ELSE Plus(G[i - 1], ss[i])
        <5>1. F[i] = Plus(F[i - 1], ss[i]) BY <1>6 DEF Chained
        <5>2. CASE i = 1
          <6>1. F[i - 1] = <<>> BY <1>6, <5>2 DEF Chained
          <6>2. ss[i] \in B BY <1>1
          <6> QED BY <1>3, <5>1, <5>2, <6>1, <6>2
        <5>3. CASE i # 1
          <6>1. i - 1 \in 1..n BY <5>3
          <6>2. G[i - 1] = F[i - 1] BY <6>1
          <6> QED BY <5>1, <5>3, <6>2
        <5> QED BY <5>2, <5>3
      <4> QED BY <4>1
    <3>2. flatten = Def(flatten) BY <3>1
    <3>3. FlattenSeq(ss) = flatten[n] BY <2>2 DEF FlattenSeq, Plus
    <3> HIDE DEF flatten, G
    <3>4. \A i \in 1..n : flatten[i] = IF i = 1 THEN ss[i] ELSE Plus(flatten[i - 1], ss[i])
      BY <3>2
    <3> DEFINE T == {i \in 0..(n - 1) : flatten[i + 1] = F[i + 1]}
    <3>5. 0 \in T
      <4>1. flatten[1] = ss[1] BY <2>2, <3>4
      <4>2. F[1] = Plus(F[0], ss[1]) /\ F[0] = <<>> /\ ss[1] \in B BY <1>1, <1>6, <2>2 DEF Chained
      <4> QED BY <1>3, <2>2, <4>1, <4>2
    <3>6. ASSUME NEW i \in 0..((n - 1) - 1), i \in T PROVE i + 1 \in T
      <4>1. i + 2 \in 1..n /\ (i + 2) - 1 = i + 1 /\ i + 2 # 1 OBVIOUS
      <4>2. flatten[i + 2] = Plus(flatten[i + 1], ss[i + 2]) BY <3>4, <4>1
      <4>3. F[i + 2] = Plus(F[i + 1], ss[i + 2]) BY <1>6, <4>1 DEF Chained
      <4>4. flatten[i + 2] = F[i + 2] BY <3>6, <4>2, <4>3
      <4>5. (i + 1) + 1 = i + 2 /\ i + 1 \in 0..(n - 1) OBVIOUS
      <4> QED BY <4>4, <4>5
    <3>7. n - 1 \in T
      <4>1. \A i \in 0..((n - 1) - 1) : i \in T => i + 1 \in T BY <3>6
      <4>2. n - 1 \in Nat BY <2>2
      <4> HIDE DEF T
      <4>3. \A i \in 0..(n - 1) : i \in T BY <3>5, <4>1, <4>2, UpTo
      <4> QED BY <4>2, <4>3
    <3>8. flatten[n] = F[n] BY <3>7
    <3> QED BY <3>3, <3>8
  <2> QED BY <2>1, <2>2
<1> QED BY <1>5, <1>6, <1>7 DEF B

\* What holds of nothing and goes on to hold when a next sequence is added
\* holds of all that is joined.
LEMMA FlattenInduction ==
  ASSUME NEW S, NEW ss \in Seq(Seq(S)), NEW P, <<>> \in P,
         \A u \in Seq(S) \cap P, i \in 1..Len(ss) : Plus(u, ss[i]) \in P
  PROVE  FlattenSeq(ss) \in Seq(S) /\ FlattenSeq(ss) \in P
<1>1. PICK n \in Nat : n = Len(ss) OBVIOUS
<1>2. PICK F \in [0..n -> Seq(S)] : Chained(F, n, ss) /\ FlattenSeq(ss) = F[n]
  BY <1>1, FlattenSteps
<1> DEFINE T == {i \in 0..n : F[i] \in P}
<1>3. 0 \in T BY <1>2 DEF Chained
<1>4. ASSUME NEW i \in 0..(n - 1), i \in T PROVE i + 1 \in T
  <2>1. i + 1 \in 1..n /\ (i + 1) - 1 = i /\ i + 1 \in 0..n /\ i \in 0..n OBVIOUS
  <2>2. F[i + 1] = Plus(F[i], ss[i + 1]) BY <1>2, <2>1 DEF Chained
  <2>3. F[i] \in Seq(S) \cap P BY <1>4, <2>1
  <2> QED BY <1>1, <2>1, <2>2, <2>3
<1>5. n \in T
  <2>1. \A i \in 0..(n - 1) : i \in T => i + 1 \in T BY <1>4
  <2> HIDE DEF T
  <2>2. \A i \in 0..n : i \in T BY <1>3, <2>1, UpTo
  <2> QED BY <2>2
<1> QED BY <1>2, <1>5

-----------------------------------------------------------------------------
(* The codec. *)

Digit == 0..(BASE - 1)

\* The first n elements of a sequence.
LEMMA FrontIs ==
  ASSUME NEW S, NEW s \in Seq(S), NEW n \in 0..Len(s), NEW t, t = SubSeq(s, 1, n)
  PROVE  t \in Seq(S) /\ Len(t) = n /\ \A j \in 1..n : t[j] = s[j]
  OBVIOUS

\* A sequence of one element.
LEMMA Single ==
  ASSUME NEW S, NEW x \in S
  PROVE  \E h \in Seq(S) : h = <<x>> /\ Len(h) = 1 /\ h[1] = x
<1> DEFINE h == <<x>>
<1>1. h \in Seq(S) /\ Len(h) = 1 /\ h[1] = x OBVIOUS
<1>2. h = <<x>> OBVIOUS
<1> HIDE DEF h
<1> QED BY <1>1, <1>2

\* The smaller of two numbers.
LEMMA MinOfTwo ==
  ASSUME NEW x \in Int, NEW y \in Int
  PROVE  Min({x, y}) = IF x <= y THEN x ELSE y
<1> DEFINE m == IF x <= y THEN x ELSE y
<1>1. m \in {x, y} /\ \A z \in {x, y} : m =< z OBVIOUS
<1>2. \A k \in {x, y} : (\A z \in {x, y} : k =< z) => k = m OBVIOUS
<1> HIDE DEF m
<1>3. Min({x, y}) = m BY <1>1, <1>2 DEF Min
<1> QED BY <1>3 DEF m

\* p is a string of l bytes, those of a, with its length before it.
Put(p, a, l) ==
  /\ l \in Nat /\ l <= Len(a) /\ l <= BASE - 1 /\ (l = Len(a) \/ l = BASE - 1)
  /\ p \in Seq(Digit) /\ Len(p) = l + 1 /\ p[1] = l
  /\ \A j \in 1..l : p[j + 1] = a[j]

\* put_str writes as much of a string as a length can say, behind that length.
LEMMA PutStr ==
  ASSUME NEW a \in Seq(Digit)
  PROVE  \E l : Put(put_str(a), a, l)
<1>1. BASE \in Nat /\ BASE > 5 BY WireAssumption
<1>2. PICK l \in Nat : /\ l = Min({Len(a), BASE - 1})
                       /\ l <= Len(a) /\ l <= BASE - 1 /\ (l = Len(a) \/ l = BASE - 1)
  <2>1. Len(a) \in Nat OBVIOUS
  <2>2. Min({Len(a), BASE - 1}) = IF Len(a) <= BASE - 1 THEN Len(a) ELSE BASE - 1
    BY <1>1, <2>1, MinOfTwo
  <2> QED BY <1>1, <2>1, <2>2
<1> DEFINE s == SubSeq(a, 1, l)  h == <<l>>
<1>3. s \in Seq(Digit) /\ Len(s) = l /\ \A j \in 1..l : s[j] = a[j]
  <2>1. l \in 0..Len(a) BY <1>2
  <2>2. PICK t : t = s OBVIOUS
  <2>3. t \in Seq(Digit) /\ Len(t) = l /\ \A j \in 1..l : t[j] = a[j] BY <2>1, <2>2, FrontIs
  <2> HIDE DEF s
  <2> QED BY <2>2, <2>3
<1>4. h \in Seq(Digit) /\ Len(h) = 1 /\ h[1] = l BY <1>1, <1>2 DEF Digit
<1>5. put_str(a) = h \o s BY <1>2 DEF put_str
<1> HIDE DEF s, h
<1>6. put_str(a) \in Seq(Digit) /\ Continued(put_str(a), h, s, Len(s))
  BY <1>3, <1>4, <1>5, Joined, Zenon
<1>7. Len(put_str(a)) = 1 + l /\ put_str(a)[1] = l /\ \A j \in 1..l : put_str(a)[1 + j] = a[j]
  <2>1. Len(put_str(a)) = Len(h) + Len(s) BY <1>6 DEF Continued
  <2>2. \A i \in 1..1 : put_str(a)[i] = h[i] BY <1>4, <1>6 DEF Continued
  <2>3. \A j \in 1..l : put_str(a)[1 + j] = s[j] BY <1>3, <1>4, <1>6 DEF Continued
  <2> QED BY <1>3, <1>4, <2>1, <2>2, <2>3
<1>8. \A j \in 1..l : put_str(a)[j + 1] = a[j]
  <2> TAKE j \in 1..l
  <2>1. j + 1 = 1 + j OBVIOUS
  <2> QED BY <1>7, <2>1
<1>9. Len(put_str(a)) = l + 1 BY <1>7
<1>10. Put(put_str(a), a, l) BY <1>2, <1>6, <1>7, <1>8, <1>9 DEF Put
<1> QED BY <1>10

\* A Hook as bytes: its tag and two strings of k and l bytes.
HookBytes(e, a, c, k, l) ==
  /\ e \in Seq(Digit) /\ Len(e) = k + l + 3 /\ e[1] = TAG_HOOK
  /\ k \in Nat /\ k <= Len(a) /\ k <= BASE - 1 /\ (k = Len(a) \/ k = BASE - 1)
  /\ l \in Nat /\ l <= Len(c) /\ l <= BASE - 1 /\ (l = Len(c) \/ l = BASE - 1)
  /\ e[2] = k /\ \A j \in 1..k : e[j + 2] = a[j]
  /\ e[k + 3] = l /\ \A j \in 1..l : e[k + 3 + j] = c[j]

\* Plus keeps the type, and its result is the one and then the other.
LEMMA JoinedBytes ==
  ASSUME NEW S, NEW s \in Seq(S), NEW w \in Seq(S)
  PROVE  Plus(s, w) \in Seq(S) /\ Continued(Plus(s, w), s, w, Len(w))
<1>1. PICK t : t = Plus(s, w) OBVIOUS
<1>2. t = s \o w BY <1>1 DEF Plus
<1> QED BY <1>1, <1>2, Joined, Zenon

\* encode writes a Hook as its tag and its two strings.
LEMMA EncodedHook ==
  ASSUME NEW a \in Seq(Digit), NEW c \in Seq(Digit)
  PROVE  \E k, l : HookBytes(encode(SocketMsg("Hook", <<a, c>>)), a, c, k, l)
<1>1. BASE \in Nat /\ BASE > 5 BY WireAssumption
<1> DEFINE m == SocketMsg("Hook", <<a, c>>)
<1>2. PICK k : Put(put_str(a), a, k) BY PutStr
<1>3. PICK l : Put(put_str(c), c, l) BY PutStr
<1>4. PICK p : p = put_str(a) OBVIOUS
<1>5. PICK q : q = put_str(c) OBVIOUS
<1>6. PICK h \in Seq(Digit) : h = <<TAG_HOOK>> /\ Len(h) = 1 /\ h[1] = TAG_HOOK
  <2>1. TAG_HOOK \in Digit BY <1>1 DEF Digit, TAG_HOOK
  <2> QED BY <2>1, Single
<1>7. encode(m) = Plus(Plus(h, p), q)
  <2>1. m.type = "Hook" /\ m.strs[1] = a /\ m.strs[2] = c BY DEF SocketMsg
  <2>2. m.type # "Heartbeat" BY <2>1
  <2>3. m \notin Commands BY <2>1 DEF Commands, SocketMsg
  <2> HIDE DEF m
  <2> QED BY <1>4, <1>5, <1>6, <2>1, <2>2, <2>3 DEF encode, Plus
<1> HIDE DEF m
<1>8. p \in Seq(Digit) /\ q \in Seq(Digit) BY <1>2, <1>3, <1>4, <1>5 DEF Put
<1>9. PICK t \in Seq(Digit) : t = Plus(h, p) /\ Continued(t, h, p, Len(p))
  BY <1>6, <1>8, JoinedBytes, Zenon
<1>10. PICK e \in Seq(Digit) : e = encode(m) /\ Continued(e, t, q, Len(q))
  BY <1>7, <1>8, <1>9, JoinedBytes, Zenon
<1>11. /\ k \in Nat /\ k <= Len(a) /\ k <= BASE - 1 /\ (k = Len(a) \/ k = BASE - 1)
       /\ Len(p) = k + 1 /\ p[1] = k /\ \A j \in 1..k : p[j + 1] = a[j]
  BY <1>2, <1>4 DEF Put
<1>12. /\ l \in Nat /\ l <= Len(c) /\ l <= BASE - 1 /\ (l = Len(c) \/ l = BASE - 1)
       /\ Len(q) = l + 1 /\ q[1] = l /\ \A j \in 1..l : q[j + 1] = c[j]
  BY <1>3, <1>5 DEF Put
<1>13. Len(t) = k + 2 /\ t[1] = TAG_HOOK /\ \A j \in 1..(k + 1) : t[1 + j] = p[j]
  <2>1. Len(t) = Len(h) + Len(p) /\ \A i \in 1..1 : t[i] = h[i] BY <1>6, <1>9 DEF Continued
  <2>2. \A j \in 1..(k + 1) : t[1 + j] = p[j] BY <1>6, <1>9, <1>11 DEF Continued
  <2> QED BY <1>6, <1>11, <2>1, <2>2
<1>14. /\ Len(e) = k + l + 3 /\ \A i \in 1..(k + 2) : e[i] = t[i]
       /\ \A j \in 1..(l + 1) : e[(k + 2) + j] = q[j]
  <2>1. Len(e) = Len(t) + Len(q) BY <1>10 DEF Continued
  <2>2. \A i \in 1..(k + 2) : e[i] = t[i] BY <1>10, <1>13 DEF Continued
  <2>3. \A j \in 1..(l + 1) : e[(k + 2) + j] = q[j] BY <1>10, <1>12, <1>13 DEF Continued
  <2> QED BY <1>11, <1>12, <1>13, <2>1, <2>2, <2>3
<1>15. e[1] = TAG_HOOK /\ e[2] = k
  <2>1. 1 \in 1..(k + 2) /\ 2 \in 1..(k + 2) /\ 1 \in 1..(k + 1) /\ 2 = 1 + 1 BY <1>11
  <2> QED BY <1>11, <1>13, <1>14, <2>1
<1>16. \A j \in 1..k : e[j + 2] = a[j]
  <2> TAKE j \in 1..k
  <2>1. j + 2 \in 1..(k + 2) /\ j + 1 \in 1..(k + 1) /\ j + 2 = 1 + (j + 1) BY <1>11
  <2> QED BY <1>11, <1>13, <1>14, <2>1
<1>17. e[k + 3] = l
  <2>1. 1 \in 1..(l + 1) /\ (k + 2) + 1 = k + 3 BY <1>11, <1>12
  <2> QED BY <1>12, <1>14, <2>1
<1>18. \A j \in 1..l : e[k + 3 + j] = c[j]
  <2> TAKE j \in 1..l
  <2>1. j + 1 \in 1..(l + 1) /\ (k + 2) + (j + 1) = k + 3 + j BY <1>11, <1>12
  <2> QED BY <1>12, <1>14, <2>1
<1>19. HookBytes(e, a, c, k, l)
  BY <1>11, <1>12, <1>14, <1>15, <1>16, <1>17, <1>18 DEF HookBytes
<1> QED BY <1>10, <1>19 DEF m

\* A Heartbeat as bytes.
BeatBytes(e, a, k) ==
  /\ e \in Seq(Digit) /\ Len(e) = k + 2 /\ e[1] = TAG_HEARTBEAT
  /\ k \in Nat /\ k <= Len(a) /\ k <= BASE - 1 /\ (k = Len(a) \/ k = BASE - 1)
  /\ e[2] = k /\ \A j \in 1..k : e[j + 2] = a[j]

\* encode writes a Heartbeat as its tag and its string.
LEMMA EncodedBeat ==
  ASSUME NEW a \in Seq(Digit)
  PROVE  \E k : BeatBytes(encode(SocketMsg("Heartbeat", <<a>>)), a, k)
<1>1. BASE \in Nat /\ BASE > 5 BY WireAssumption
<1> DEFINE m == SocketMsg("Heartbeat", <<a>>)
<1>2. PICK k : Put(put_str(a), a, k) BY PutStr
<1>3. PICK p : p = put_str(a) OBVIOUS
<1>4. PICK h \in Seq(Digit) : h = <<TAG_HEARTBEAT>> /\ Len(h) = 1 /\ h[1] = TAG_HEARTBEAT
  <2>1. TAG_HEARTBEAT \in Digit BY <1>1 DEF Digit, TAG_HEARTBEAT
  <2> QED BY <2>1, Single
<1>5. encode(m) = Plus(h, p)
  <2>1. m.type = "Heartbeat" /\ m.strs[1] = a BY DEF SocketMsg
  <2>2. m.type # "Hook" BY <2>1
  <2>3. m \notin Commands BY <2>1 DEF Commands, SocketMsg
  <2> HIDE DEF m
  <2> QED BY <1>3, <1>4, <2>1, <2>2, <2>3 DEF encode, Plus
<1> HIDE DEF m
<1>6. p \in Seq(Digit) BY <1>2, <1>3 DEF Put
<1>7. PICK e \in Seq(Digit) : e = encode(m) /\ Continued(e, h, p, Len(p))
  BY <1>4, <1>5, <1>6, JoinedBytes, Zenon
<1>8. /\ k \in Nat /\ k <= Len(a) /\ k <= BASE - 1 /\ (k = Len(a) \/ k = BASE - 1)
      /\ Len(p) = k + 1 /\ p[1] = k /\ \A j \in 1..k : p[j + 1] = a[j]
  BY <1>2, <1>3 DEF Put
<1>9. Len(e) = k + 2 /\ e[1] = TAG_HEARTBEAT /\ \A j \in 1..(k + 1) : e[1 + j] = p[j]
  <2>1. Len(e) = Len(h) + Len(p) /\ \A i \in 1..1 : e[i] = h[i] BY <1>4, <1>7 DEF Continued
  <2>2. \A j \in 1..(k + 1) : e[1 + j] = p[j] BY <1>4, <1>7, <1>8 DEF Continued
  <2> QED BY <1>4, <1>8, <2>1, <2>2
<1>10. e[2] = k
  <2>1. 1 \in 1..(k + 1) /\ 2 = 1 + 1 BY <1>8
  <2> QED BY <1>8, <1>9, <2>1
<1>11. \A j \in 1..k : e[j + 2] = a[j]
  <2> TAKE j \in 1..k
  <2>1. j + 1 \in 1..(k + 1) /\ j + 2 = 1 + (j + 1) BY <1>8
  <2> QED BY <1>8, <1>9, <2>1
<1>12. BeatBytes(e, a, k) BY <1>8, <1>9, <1>10, <1>11 DEF BeatBytes
<1> QED BY <1>7, <1>12 DEF m

-----------------------------------------------------------------------------
(* take_str and decode. *)

\* A byte is a number below BASE.
LEMMA DigitsNat == BASE \in Nat /\ BASE > 5 /\ \A x \in Digit : x \in Nat /\ x <= BASE - 1
  BY WireAssumption DEF Digit

\* Neither bytes nor a string that was taken are None.
LEMMA NotNothing ==
  /\ \A s \in Seq(Digit) : s # Nothing
  /\ \A s \in Seq(Digit), n \in Nat : [s |-> s, next |-> n] # Nothing
<1>1. \A s \in Seq(Digit) : s \in Seq(Nat) BY DigitsNat
<1> QED BY <1>1, NothingAssumption

\* The n elements after the i-th.
LEMMA Middle ==
  ASSUME NEW S, NEW b \in Seq(S), NEW i \in Nat, NEW n \in Nat, i + n <= Len(b),
         NEW t, t = SubSeq(b, i + 1, i + n)
  PROVE  t \in Seq(S) /\ Len(t) = n /\ \A j \in 1..n : t[j] = b[i + j]
  OBVIOUS

\* There is no string beyond the end of a datagram,
LEMMA TakeBeyond ==
  ASSUME NEW b, NEW i, i > Len(b)
  PROVE  take_str(b, i) = Nothing
  BY DEF take_str

\* and none whose length points beyond it.
LEMMA TakeOverrun ==
  ASSUME NEW b, NEW i, i + b[i] > Len(b)
  PROVE  take_str(b, i) = Nothing
  BY DEF take_str

\* What take_str returns when it returns a string.
LEMMA Taken ==
  ASSUME NEW b \in Seq(Digit), NEW i \in Nat \ {0}, take_str(b, i) # Nothing
  PROVE  /\ i <= Len(b) /\ b[i] \in Nat /\ b[i] <= BASE - 1 /\ i + b[i] <= Len(b)
         /\ \E a \in Seq(Digit) :
              /\ take_str(b, i) = [s |-> a, next |-> i + b[i] + 1]
              /\ Len(a) = b[i] /\ \A j \in 1..b[i] : a[j] = b[i + j]
<1>1. Len(b) \in Nat OBVIOUS
<1>2. i <= Len(b) BY <1>1, TakeBeyond
<1>3. b[i] \in Digit BY <1>1, <1>2
<1>4. b[i] \in Nat /\ b[i] <= BASE - 1 BY <1>3, DigitsNat
<1>5. i + b[i] <= Len(b) BY <1>1, <1>4, TakeOverrun
<1>6. PICK a : a = SubSeq(b, i + 1, i + b[i]) OBVIOUS
<1>7. a \in Seq(Digit) /\ Len(a) = b[i] /\ \A j \in 1..b[i] : a[j] = b[i + j]
  <2>1. PICK n \in Nat : n = b[i] BY <1>4
  <2>2. i \in Nat /\ i + n <= Len(b) /\ a = SubSeq(b, i + 1, i + n) BY <1>5, <1>6, <2>1, Zenon
  <2>3. a \in Seq(Digit) /\ Len(a) = n /\ \A j \in 1..n : a[j] = b[i + j]
    BY ONLY <2>2, b \in Seq(Digit), n \in Nat, Middle
  <2> QED BY <2>1, <2>3, Zenon
<1>8. take_str(b, i) = [s |-> a, next |-> i + b[i] + 1] BY <1>6, Zenon DEF take_str
<1>9. \E c \in Seq(Digit) :
        /\ take_str(b, i) = [s |-> c, next |-> i + b[i] + 1]
        /\ Len(c) = b[i] /\ \A j \in 1..b[i] : c[j] = b[i + j]
  BY <1>7, <1>8, Zenon
<1> QED BY <1>2, <1>4, <1>5, <1>9, Zenon

\* take_str takes a string that stands there whole.
LEMMA TakeWhole ==
  ASSUME NEW b \in Seq(Digit), NEW i \in Nat \ {0}, NEW a \in Seq(Digit), IsUtf8(a),
         b[i] = Len(a), i + Len(a) <= Len(b), \A j \in 1..Len(a) : b[i + j] = a[j]
  PROVE  take_str(b, i) = [s |-> a, next |-> i + Len(a) + 1]
<1>1. Len(b) \in Nat /\ Len(a) \in Nat OBVIOUS
<1>2. PICK t : t = SubSeq(b, i + 1, i + Len(a)) OBVIOUS
<1>3. t \in Seq(Digit) /\ Len(t) = Len(a) /\ \A j \in 1..Len(a) : t[j] = b[i + j]
  BY <1>1, <1>2, Middle
<1>4. t = a
  <2>1. Len(t) = Len(a) /\ \A j \in 1..Len(t) : t[j] = a[j] BY <1>1, <1>3
  <2> QED BY <1>3, <2>1, SeqEqual
<1>5. ~(i > Len(b)) /\ ~(i + b[i] > Len(b)) /\ IsUtf8(t) BY <1>1, <1>4
<1>6. SubSeq(b, i + 1, i + b[i]) = t BY <1>2, Zenon
<1> QED BY <1>4, <1>5, <1>6, Zenon DEF take_str

\* decode, tag by tag.
LEMMA DecodeHook ==
  ASSUME NEW b \in Seq(Digit), b # <<>>, b[1] = TAG_HOOK
  PROVE  /\ take_str(b, 2) = Nothing => decode(b) = Nothing
         /\ take_str(b, 2) # Nothing =>
              IF take_str(b, take_str(b, 2).next) = Nothing THEN decode(b) = Nothing
              ELSE decode(b) =
                     Framed(SocketMsg("Hook", <<take_str(b, 2).s,
                                                take_str(b, take_str(b, 2).next).s>>),
                            take_str(b, take_str(b, 2).next).next, b)
<1>1. b[1] # TAG_HEARTBEAT /\ b[1] # TAG_CMD BY DEF TAG_HOOK, TAG_HEARTBEAT, TAG_CMD
<1> QED BY <1>1, Zenon DEF decode

\* A Heartbeat needs one string,
LEMMA DecodeBeat ==
  ASSUME NEW b \in Seq(Digit), b # <<>>, b[1] = TAG_HEARTBEAT
  PROVE  decode(b) =
           IF take_str(b, 2) = Nothing THEN Nothing
           ELSE Framed(SocketMsg("Heartbeat", <<take_str(b, 2).s>>), take_str(b, 2).next, b)
<1>1. b[1] # TAG_HOOK /\ b[1] # TAG_CMD BY DEF TAG_HOOK, TAG_HEARTBEAT, TAG_CMD
<1> QED BY <1>1, Zenon DEF decode

\* a command a byte that names it,
LEMMA DecodeCmd ==
  ASSUME NEW b \in Seq(Digit), b # <<>>, b[1] = TAG_CMD
  PROVE  decode(b) =
           IF Len(b) > 1 /\ \E c \in Commands : CmdByte[c.type] = b[2]
           THEN Framed(CHOOSE c \in Commands : CmdByte[c.type] = b[2], 3, b)
           ELSE Nothing
<1>1. b[1] # TAG_HOOK /\ b[1] # TAG_HEARTBEAT BY DEF TAG_HOOK, TAG_HEARTBEAT, TAG_CMD
<1> QED BY <1>1, Zenon DEF decode

\* and no other tag is understood.
LEMMA DecodeOther ==
  ASSUME NEW b \in Seq(Digit), b # <<>>, b[1] \notin {TAG_HOOK, TAG_HEARTBEAT, TAG_CMD}
  PROVE  decode(b) = Nothing
  BY Zenon DEF decode

-----------------------------------------------------------------------------
(* What is encoded is read back, or refused when it does not fit the buffer. *)

\* The buffer keeps a datagram that fits it, and BASE bytes of a longer one.
LEMMA CutIs ==
  ASSUME NEW b \in Seq(Digit)
  PROVE  /\ Len(b) <= BASE => Cut(b) = b
         /\ Len(b) > BASE => /\ Cut(b) \in Seq(Digit) /\ Len(Cut(b)) = BASE
                             /\ \A j \in 1..BASE : Cut(b)[j] = b[j]
<1>1. BASE \in Nat /\ Len(b) \in Nat BY WireAssumption
<1>2. Min({Len(b), BASE}) = IF Len(b) <= BASE THEN Len(b) ELSE BASE BY <1>1, MinOfTwo
<1>3. CASE Len(b) <= BASE
  <2>1. Cut(b) = SubSeq(b, 1, Len(b)) BY <1>2, <1>3 DEF Cut, BUFFER
  <2>2. SubSeq(b, 1, Len(b)) = b OBVIOUS
  <2>3. ~(Len(b) > BASE) BY <1>1, <1>3
  <2>4. Cut(b) = b BY <2>1, <2>2, Zenon
  <2> QED BY <2>3, <2>4, Zenon
<1>4. CASE Len(b) > BASE
  <2>1. ~(Len(b) <= BASE) /\ BASE \in 0..Len(b) BY <1>1, <1>4
  <2>2. Cut(b) = SubSeq(b, 1, BASE) BY <1>2, <2>1 DEF Cut, BUFFER
  <2>3. /\ Cut(b) \in Seq(Digit) /\ Len(Cut(b)) = BASE
        /\ \A j \in 1..BASE : Cut(b)[j] = b[j]
    BY <2>1, <2>2, FrontIs
  <2> QED BY <2>1, <2>3
<1> QED BY <1>1, <1>3, <1>4

\* A Hook that fits the buffer is decoded to the strings it was made of.
LEMMA HookRead ==
  ASSUME NEW a \in Seq(Digit), NEW c \in Seq(Digit), IsUtf8(a), IsUtf8(c),
         NEW e, NEW k, NEW l, HookBytes(e, a, c, k, l), Len(e) <= BASE
  PROVE  decode(e) = SocketMsg("Hook", <<a, c>>)
<1>1. /\ e \in Seq(Digit) /\ Len(e) = k + l + 3 /\ e[1] = TAG_HOOK
      /\ k \in Nat /\ k <= Len(a) /\ k <= BASE - 1 /\ (k = Len(a) \/ k = BASE - 1)
      /\ l \in Nat /\ l <= Len(c) /\ l <= BASE - 1 /\ (l = Len(c) \/ l = BASE - 1)
      /\ e[2] = k /\ \A j \in 1..k : e[j + 2] = a[j]
      /\ e[k + 3] = l /\ \A j \in 1..l : e[k + 3 + j] = c[j]
  BY DEF HookBytes
<1>2. BASE \in Nat BY WireAssumption
<1>3. k = Len(a) /\ l = Len(c) BY <1>1, <1>2
<1>4. take_str(e, 2) = [s |-> a, next |-> 2 + Len(a) + 1]
  <2>1. 2 \in Nat \ {0} /\ 2 + Len(a) <= Len(e) BY <1>1, <1>3
  <2>2. \A j \in 1..Len(a) : e[2 + j] = a[j]
    <3> TAKE j \in 1..Len(a)
    <3>1. 2 + j = j + 2 /\ j \in 1..k BY <1>3
    <3> QED BY <1>1, <3>1
  <2> QED BY <1>1, <1>3, <2>1, <2>2, TakeWhole
<1>5. PICK f \in Nat \ {0} : f = 2 + Len(a) + 1 /\ f = k + 3 BY <1>1, <1>3
<1>6. take_str(e, f) = [s |-> c, next |-> f + Len(c) + 1]
  <2>1. f + Len(c) <= Len(e) /\ e[f] = Len(c) BY <1>1, <1>3, <1>5
  <2>2. \A j \in 1..Len(c) : e[f + j] = c[j] BY <1>1, <1>3, <1>5
  <2> QED BY <1>1, <2>1, <2>2, TakeWhole
<1>7. PICK t : t = take_str(e, 2) OBVIOUS
<1>8. t.s = a /\ t.next = f BY <1>4, <1>5, <1>7
<1>9. PICK u : u = take_str(e, f) OBVIOUS
<1>10. u.s = c /\ u.next = f + Len(c) + 1 BY <1>6, <1>9
<1>11. t # Nothing /\ u # Nothing
  <2>1. 2 + Len(a) + 1 \in Nat /\ f + Len(c) + 1 \in Nat BY <1>1, <1>5
  <2> QED BY <1>4, <1>6, <1>7, <1>9, <2>1, NotNothing
<1>12. e # <<>> BY <1>1
<1>13. decode(e) = Framed(SocketMsg("Hook", <<a, c>>), f + Len(c) + 1, e)
  BY <1>1, <1>7, <1>8, <1>9, <1>10, <1>11, <1>12, DecodeHook, Zenon
<1>14. f + Len(c) + 1 = Len(e) + 1 BY <1>1, <1>3, <1>5
<1> QED BY <1>13, <1>14, Zenon DEF Framed

\* A Hook that does not fit it is refused: one of its lengths points beyond the end.
LEMMA HookCut ==
  ASSUME NEW a \in Seq(Digit), NEW c \in Seq(Digit),
         NEW e, NEW k, NEW l, HookBytes(e, a, c, k, l), Len(e) > BASE
  PROVE  decode(Cut(e)) = Nothing
<1>1. /\ e \in Seq(Digit) /\ Len(e) = k + l + 3 /\ e[1] = TAG_HOOK
      /\ k \in Nat /\ k <= BASE - 1 /\ l \in Nat /\ l <= BASE - 1
      /\ e[2] = k /\ e[k + 3] = l
  BY DEF HookBytes
<1>2. BASE \in Nat /\ BASE > 5 BY WireAssumption
<1>3. PICK b \in Seq(Digit) : b = Cut(e) /\ Len(b) = BASE /\ \A j \in 1..BASE : b[j] = e[j]
  BY <1>1, CutIs
<1>4. b # <<>> /\ b[1] = TAG_HOOK /\ b[2] = k BY <1>1, <1>2, <1>3
<1> SUFFICES ASSUME take_str(b, 2) # Nothing PROVE decode(b) = Nothing
  BY <1>3, <1>4, DecodeHook
<1>5. PICK s \in Seq(Digit) : take_str(b, 2) = [s |-> s, next |-> 2 + b[2] + 1]
  BY Taken
<1>6. PICK f \in Nat \ {0} : f = 2 + b[2] + 1 /\ f = k + 3 BY <1>1, <1>4
<1>7. take_str(b, 2).next = f BY <1>5, <1>6
<1>8. take_str(b, f) = Nothing
  <2>1. CASE f > BASE BY <1>3, <2>1, TakeBeyond
  <2>2. CASE f <= BASE
    <3>1. b[f] = l BY <1>1, <1>2, <1>3, <1>6, <2>2
    <3>2. f + b[f] > Len(b) BY <1>1, <1>2, <1>3, <1>6, <3>1
    <3> QED BY <3>2, TakeOverrun
  <2> QED BY <1>2, <1>6, <2>1, <2>2
<1> QED BY <1>4, <1>7, <1>8, DecodeHook, Zenon

\* A Heartbeat that fits the buffer is decoded to its string.
LEMMA BeatRead ==
  ASSUME NEW a \in Seq(Digit), IsUtf8(a),
         NEW e, NEW k, BeatBytes(e, a, k), Len(e) <= BASE
  PROVE  decode(e) = SocketMsg("Heartbeat", <<a>>)
<1>1. /\ e \in Seq(Digit) /\ Len(e) = k + 2 /\ e[1] = TAG_HEARTBEAT
      /\ k \in Nat /\ k <= Len(a) /\ k <= BASE - 1 /\ (k = Len(a) \/ k = BASE - 1)
      /\ e[2] = k /\ \A j \in 1..k : e[j + 2] = a[j]
  BY DEF BeatBytes
<1>2. BASE \in Nat BY WireAssumption
<1>3. k = Len(a) BY <1>1, <1>2
<1>4. take_str(e, 2) = [s |-> a, next |-> 2 + Len(a) + 1]
  <2>1. 2 \in Nat \ {0} /\ 2 + Len(a) <= Len(e) BY <1>1, <1>3
  <2>2. \A j \in 1..Len(a) : e[2 + j] = a[j]
    <3> TAKE j \in 1..Len(a)
    <3>1. 2 + j = j + 2 /\ j \in 1..k BY <1>3
    <3> QED BY <1>1, <3>1
  <2> QED BY <1>1, <1>3, <2>1, <2>2, TakeWhole
<1>5. PICK t : t = take_str(e, 2) OBVIOUS
<1>6. t.s = a /\ t.next = 2 + Len(a) + 1 BY <1>4, <1>5
<1>7. t # Nothing
  <2>1. 2 + Len(a) + 1 \in Nat BY <1>1
  <2> QED BY <1>4, <1>5, <2>1, NotNothing
<1>8. e # <<>> BY <1>1
<1>9. decode(e) = Framed(SocketMsg("Heartbeat", <<a>>), 2 + Len(a) + 1, e)
  BY <1>1, <1>5, <1>6, <1>7, <1>8, DecodeBeat, Zenon
<1>10. 2 + Len(a) + 1 = Len(e) + 1 BY <1>1, <1>3
<1> QED BY <1>9, <1>10, Zenon DEF Framed

\* A Heartbeat that does not fit it is refused.
LEMMA BeatCut ==
  ASSUME NEW a \in Seq(Digit), NEW e, NEW k, BeatBytes(e, a, k), Len(e) > BASE
  PROVE  decode(Cut(e)) = Nothing
<1>1. /\ e \in Seq(Digit) /\ Len(e) = k + 2 /\ e[1] = TAG_HEARTBEAT
      /\ k \in Nat /\ k <= BASE - 1 /\ e[2] = k
  BY DEF BeatBytes
<1>2. BASE \in Nat /\ BASE > 5 BY WireAssumption
<1>3. PICK b \in Seq(Digit) : b = Cut(e) /\ Len(b) = BASE /\ \A j \in 1..BASE : b[j] = e[j]
  BY <1>1, CutIs
<1>4. b # <<>> /\ b[1] = TAG_HEARTBEAT /\ b[2] = k BY <1>1, <1>2, <1>3
<1>5. 2 + b[2] > Len(b) BY <1>1, <1>2, <1>3, <1>4
<1>6. take_str(b, 2) = Nothing BY <1>5, TakeOverrun
<1> QED BY <1>3, <1>4, <1>6, DecodeBeat, Zenon

\* encode writes a command as two bytes.
LEMMA EncodedCmd ==
  ASSUME NEW c \in Commands
  PROVE  /\ encode(c) \in Seq(Digit) /\ Len(encode(c)) = 2
         /\ encode(c)[1] = TAG_CMD /\ encode(c)[2] = CmdByte[c.type]
         /\ CmdByte[c.type] \in 1..3
<1>1. c.type \in {"Ping", "Pause", "Resume"} BY DEF Commands, SocketMsg
<1>2. encode(c) = <<TAG_CMD, CmdByte[c.type]>> BY <1>1, Zenon DEF encode
<1>3. CmdByte[c.type] \in 1..3 BY <1>1 DEF CmdByte
<1>4. TAG_CMD \in Digit /\ CmdByte[c.type] \in Digit
  BY <1>3, WireAssumption DEF TAG_CMD, Digit
<1> QED BY <1>2, <1>3, <1>4

\* No two commands share a byte.
LEMMA CmdBytesDiffer ==
  ASSUME NEW c \in Commands, NEW d \in Commands, CmdByte[c.type] = CmdByte[d.type]
  PROVE  c = d
<1>1. c.type \in {"Ping", "Pause", "Resume"} /\ d.type \in {"Ping", "Pause", "Resume"}
  BY DEF Commands, SocketMsg
<1>2. c.type = d.type BY <1>1 DEF CmdByte
<1> QED BY <1>2 DEF Commands, SocketMsg

\* A command is decoded to itself.
LEMMA CmdRead ==
  ASSUME NEW c \in Commands
  PROVE  decode(encode(c)) = c
<1>1. PICK e \in Seq(Digit) : /\ e = encode(c) /\ Len(e) = 2
                              /\ e[1] = TAG_CMD /\ e[2] = CmdByte[c.type]
  BY EncodedCmd
<1>2. e # <<>> /\ Len(e) > 1 BY <1>1
<1>3. (CHOOSE d \in Commands : CmdByte[d.type] = e[2]) = c BY <1>1, CmdBytesDiffer
<1>4. decode(e) = Framed(c, 3, e) BY <1>1, <1>2, <1>3, DecodeCmd, Zenon
<1>5. 3 = Len(e) + 1 BY <1>1
<1> QED BY <1>1, <1>4, <1>5, Zenon DEF Framed

-----------------------------------------------------------------------------
(* What is read from a datagram encodes to just that datagram. *)

\* A message counts only when it ends where the datagram does.
LEMMA FramedIs ==
  ASSUME NEW m, NEW n, NEW b, Framed(m, n, b) # Nothing
  PROVE  Framed(m, n, b) = m /\ n = Len(b) + 1
  BY Zenon DEF Framed

\* A datagram decoded as a Hook is the encoding of that Hook,
LEMMA HookWritten ==
  ASSUME NEW b \in Seq(Digit), b[1] = TAG_HOOK, decode(b) # Nothing
  PROVE  encode(decode(b)) = b
<1>1. b # <<>> BY Zenon DEF decode
<1>2. BASE \in Nat /\ Len(b) \in Nat BY WireAssumption
<1>3. take_str(b, 2) # Nothing BY <1>1, DecodeHook, Zenon
<1>4. PICK t : t = take_str(b, 2) OBVIOUS
<1>5. PICK a \in Seq(Digit) :
        /\ 2 <= Len(b) /\ b[2] \in Nat /\ b[2] <= BASE - 1 /\ 2 + b[2] <= Len(b)
        /\ t = [s |-> a, next |-> 2 + b[2] + 1]
        /\ Len(a) = b[2] /\ \A j \in 1..b[2] : a[j] = b[2 + j]
  <2>1. 2 \in Nat \ {0} OBVIOUS
  <2> QED BY <1>3, <1>4, <2>1, Taken, Zenon
<1>6. PICK f \in Nat \ {0} : f = 2 + b[2] + 1 BY <1>5
<1>7. t.s = a /\ t.next = f BY <1>5, <1>6
<1>8. PICK u : u = take_str(b, f) OBVIOUS
<1>9. u # Nothing /\ decode(b) = Framed(SocketMsg("Hook", <<a, u.s>>), u.next, b)
  BY <1>3, <1>4, <1>7, <1>8, <1>1, DecodeHook, Zenon
<1>10. PICK c \in Seq(Digit) :
        /\ f <= Len(b) /\ b[f] \in Nat /\ b[f] <= BASE - 1 /\ f + b[f] <= Len(b)
        /\ u = [s |-> c, next |-> f + b[f] + 1]
        /\ Len(c) = b[f] /\ \A j \in 1..b[f] : c[j] = b[f + j]
  BY <1>8, <1>9, Taken
<1>11. u.s = c /\ u.next = f + b[f] + 1 BY <1>10
<1>12. decode(b) = SocketMsg("Hook", <<a, c>>) /\ f + b[f] + 1 = Len(b) + 1
  BY <1>9, <1>11, FramedIs, Zenon
<1>13. PICK e : e = encode(SocketMsg("Hook", <<a, c>>)) OBVIOUS
<1>14. PICK k, l : HookBytes(e, a, c, k, l) BY <1>13, EncodedHook
<1>15. /\ e \in Seq(Digit) /\ Len(e) = k + l + 3 /\ e[1] = TAG_HOOK
       /\ k \in Nat /\ k <= Len(a) /\ k <= BASE - 1 /\ (k = Len(a) \/ k = BASE - 1)
       /\ l \in Nat /\ l <= Len(c) /\ l <= BASE - 1 /\ (l = Len(c) \/ l = BASE - 1)
       /\ e[2] = k /\ \A j \in 1..k : e[j + 2] = a[j]
       /\ e[k + 3] = l /\ \A j \in 1..l : e[k + 3 + j] = c[j]
  BY <1>14 DEF HookBytes
<1>16. k = b[2] /\ l = b[f] /\ f = k + 3 /\ Len(e) = Len(b)
  <2>1. k = b[2] BY <1>2, <1>5, <1>15
  <2>2. PICK x \in Nat : x = b[f] /\ x <= BASE - 1 /\ Len(c) = x BY <1>10
  <2>3. l = x BY <1>2, <1>15, <2>2
  <2>4. f = k + 3 BY <1>6, <2>1, <1>15
  <2>5. f + b[f] + 1 = Len(b) + 1 BY <1>12, Zenon
  <2>6. PICK n \in Nat : n = Len(b) BY Zenon, <1>2
  <2>7. f + x + 1 = n + 1 BY <2>2, <2>5, <2>6, Zenon
  <2>8. n = f + x BY <2>7
  <2>9. Len(e) = n
    <3>1. Len(e) = k + l + 3 BY <1>15
    <3> QED BY <1>15, <2>3, <2>4, <2>8, <3>1
  <2> QED BY <1>15, <2>1, <2>2, <2>3, <2>4, <2>6, <2>9, Zenon
<1>17. ASSUME NEW i \in 1..Len(b) PROVE e[i] = b[i]
  <2>1. CASE i = 1 BY <1>15, <2>1
  <2>2. CASE i = 2 BY <1>15, <1>16, <2>2
  <2>3. CASE i \in 3..(k + 2)
    <3>1. PICK j \in 1..k : i = j + 2 /\ i = 2 + j
      <4>1. i - 2 \in 1..k /\ i = (i - 2) + 2 /\ i = 2 + (i - 2) BY <1>15, <2>3
      <4> QED BY <4>1
    <3>2. e[j + 2] = a[j] BY <1>15
    <3>3. a[j] = b[2 + j] BY <1>5, <1>16
    <3> QED BY <3>1, <3>2, <3>3
  <2>4. CASE i = k + 3 BY <1>15, <1>16, <2>4
  <2>5. CASE i > k + 3
    <3>1. PICK j \in 1..l : i = k + 3 + j
      <4>1. i \in Nat /\ i <= k + l + 3 BY <1>2, <1>15, <1>16
      <4>2. i - (k + 3) \in 1..l /\ i = k + 3 + (i - (k + 3)) BY <1>15, <2>5, <4>1
      <4> QED BY <4>2
    <3>2. e[k + 3 + j] = c[j] BY <1>15
    <3>3. c[j] = b[f + j] /\ f + j = k + 3 + j BY <1>10, <1>16
    <3> QED BY <3>1, <3>2, <3>3
  <2> QED BY <1>2, <1>15, <2>1, <2>2, <2>3, <2>4, <2>5
<1>18. e = b BY <1>15, <1>16, <1>17, SeqEqual
<1> QED BY <1>12, <1>13, <1>18, Zenon

\* one decoded as a Heartbeat that of the Heartbeat,
LEMMA BeatWritten ==
  ASSUME NEW b \in Seq(Digit), b[1] = TAG_HEARTBEAT, decode(b) # Nothing
  PROVE  encode(decode(b)) = b
<1>1. b # <<>> BY Zenon DEF decode
<1>2. BASE \in Nat /\ Len(b) \in Nat BY WireAssumption
<1>3. take_str(b, 2) # Nothing BY <1>1, DecodeBeat, Zenon
<1>4. PICK t : t = take_str(b, 2) OBVIOUS
<1>5. PICK a \in Seq(Digit) :
        /\ 2 <= Len(b) /\ b[2] \in Nat /\ b[2] <= BASE - 1 /\ 2 + b[2] <= Len(b)
        /\ t = [s |-> a, next |-> 2 + b[2] + 1]
        /\ Len(a) = b[2] /\ \A j \in 1..b[2] : a[j] = b[2 + j]
  <2>1. 2 \in Nat \ {0} OBVIOUS
  <2> QED BY <1>3, <1>4, <2>1, Taken, Zenon
<1>6. t.s = a /\ t.next = 2 + b[2] + 1 BY <1>5
<1>7. decode(b) = Framed(SocketMsg("Heartbeat", <<a>>), 2 + b[2] + 1, b)
  BY <1>3, <1>4, <1>6, <1>1, DecodeBeat, Zenon
<1>8. decode(b) = SocketMsg("Heartbeat", <<a>>) /\ 2 + b[2] + 1 = Len(b) + 1
  BY <1>7, FramedIs, Zenon
<1>9. PICK e : e = encode(SocketMsg("Heartbeat", <<a>>)) OBVIOUS
<1>10. PICK k : BeatBytes(e, a, k) BY <1>9, EncodedBeat
<1>11. /\ e \in Seq(Digit) /\ Len(e) = k + 2 /\ e[1] = TAG_HEARTBEAT
       /\ k \in Nat /\ k <= Len(a) /\ k <= BASE - 1 /\ (k = Len(a) \/ k = BASE - 1)
       /\ e[2] = k /\ \A j \in 1..k : e[j + 2] = a[j]
  BY <1>10 DEF BeatBytes
<1>12. k = b[2] /\ Len(e) = Len(b) BY <1>2, <1>5, <1>8, <1>11
<1>13. ASSUME NEW i \in 1..Len(b) PROVE e[i] = b[i]
  <2>1. CASE i = 1 BY <1>11, <2>1
  <2>2. CASE i = 2 BY <1>11, <1>12, <2>2
  <2>3. CASE i > 2
    <3>1. PICK j \in 1..k : i = j + 2 /\ i = 2 + j
      <4>1. i - 2 \in 1..k /\ i = (i - 2) + 2 /\ i = 2 + (i - 2) BY <1>2, <1>11, <1>12, <2>3
      <4> QED BY <4>1
    <3>2. e[j + 2] = a[j] BY <1>11
    <3>3. a[j] = b[2 + j] BY <1>5, <1>12
    <3> QED BY <3>1, <3>2, <3>3
  <2> QED BY <1>2, <2>1, <2>2, <2>3
<1>14. e = b BY <1>11, <1>12, <1>13, SeqEqual
<1> QED BY <1>8, <1>9, <1>14, Zenon

\* and one decoded as a command that of the command.
LEMMA CmdWritten ==
  ASSUME NEW b \in Seq(Digit), b[1] = TAG_CMD, decode(b) # Nothing
  PROVE  encode(decode(b)) = b
<1>1. b # <<>> BY Zenon DEF decode
<1>2. Len(b) \in Nat OBVIOUS
<1>3. Len(b) > 1 /\ \E c \in Commands : CmdByte[c.type] = b[2] BY <1>1, DecodeCmd, Zenon
<1>4. PICK c \in Commands : /\ c = (CHOOSE d \in Commands : CmdByte[d.type] = b[2])
                            /\ CmdByte[c.type] = b[2]
  BY <1>3
<1>5. decode(b) = Framed(c, 3, b) BY <1>3, <1>4, <1>1, DecodeCmd, Zenon
<1>6. decode(b) = c /\ 3 = Len(b) + 1 BY <1>5, FramedIs, Zenon
<1>7. PICK e \in Seq(Digit) : e = encode(c) /\ Len(e) = 2 /\ e[1] = TAG_CMD /\ e[2] = CmdByte[c.type]
  BY EncodedCmd
<1>8. Len(b) = 2
  <2>1. PICK n \in Nat : n = Len(b) BY Zenon, <1>2
  <2>2. 3 = n + 1 BY <1>6, <2>1, Zenon
  <2>3. n = 2 BY <2>2
  <2> QED BY <2>1, <2>3, Zenon
<1>9. \A i \in 1..Len(e) : e[i] = b[i] BY <1>4, <1>7, <1>8
<1>10. e = b BY <1>7, <1>8, <1>9, SeqEqual
<1> QED BY <1>6, <1>7, <1>10, Zenon

\* So no byte of a datagram that is understood rides along unread.
LEMMA ReadBack ==
  ASSUME NEW b \in Seq(Digit), decode(b) # Nothing
  PROVE  encode(decode(b)) = b
<1>1. b # <<>> BY Zenon DEF decode
<1>2. b[1] \in {TAG_HOOK, TAG_HEARTBEAT, TAG_CMD} BY <1>1, DecodeOther, Zenon
<1> QED BY <1>1, <1>2, HookWritten, BeatWritten, CmdWritten, Zenon

-----------------------------------------------------------------------------
(* Strings as bytes. *)

Texts == {a \in Seq(Digit) : IsUtf8(a)}

\* UTF-8 after UTF-8 is UTF-8.
LEMMA Utf8Plus ==
  ASSUME NEW u \in Texts, NEW v \in Texts
  PROVE  Plus(u, v) \in Texts
<1>1. u \in Seq(Digit) /\ v \in Seq(Digit) /\ IsUtf8(u) /\ IsUtf8(v) BY DEF Texts
<1>2. PICK t \in Seq(Digit) : t = Plus(u, v) /\ Continued(t, u, v, Len(v))
  BY <1>1, JoinedBytes, Zenon
<1>3. PICK m \in Nat : m = Len(u) BY <1>1
<1>4. PICK n \in Nat : n = Len(v) BY <1>1
<1>5. /\ Len(t) = m + n /\ \A i \in 1..m : t[i] = u[i]
      /\ \A j \in 1..n : t[m + j] = v[j]
  BY <1>2, <1>3, <1>4 DEF Continued
<1>6. /\ \A i \in 1..m : u[i] = LEAD => i < m /\ u[i + 1] = CONT
      /\ \A i \in 1..m : u[i] = CONT => i > 1 /\ u[i - 1] = LEAD
  <2>1. DOMAIN u = 1..m BY <1>1, <1>3
  <2> QED BY <1>1, <1>3, <2>1, Zenon DEF IsUtf8
<1>7. /\ \A i \in 1..n : v[i] = LEAD => i < n /\ v[i + 1] = CONT
      /\ \A i \in 1..n : v[i] = CONT => i > 1 /\ v[i - 1] = LEAD
  <2>1. DOMAIN v = 1..n BY <1>1, <1>4
  <2> QED BY <1>1, <1>4, <2>1, Zenon DEF IsUtf8
<1>8. ASSUME NEW i \in 1..(m + n)
      PROVE  /\ t[i] = LEAD => i < m + n /\ t[i + 1] = CONT
             /\ t[i] = CONT => i > 1 /\ t[i - 1] = LEAD
  <2>1. CASE i <= m
    <3>1. i \in 1..m /\ t[i] = u[i] BY <1>5, <2>1
    <3>2. ASSUME t[i] = LEAD PROVE i < m + n /\ t[i + 1] = CONT
      <4>1. i < m /\ u[i + 1] = CONT BY <1>6, <3>1, <3>2
      <4>2. i + 1 \in 1..m BY <3>1, <4>1
      <4> QED BY <1>5, <4>1, <4>2
    <3>3. ASSUME t[i] = CONT PROVE i > 1 /\ t[i - 1] = LEAD
      <4>1. i > 1 /\ u[i - 1] = LEAD BY <1>6, <3>1, <3>3
      <4>2. i - 1 \in 1..m BY <3>1, <4>1
      <4> QED BY <1>5, <4>1, <4>2
    <3> QED BY <3>2, <3>3
  <2>2. CASE i > m
    <3>1. PICK j \in 1..n : i = m + j
      <4>1. i - m \in 1..n /\ i = m + (i - m) BY <2>2
      <4> QED BY <4>1
    <3>2. t[i] = v[j] BY <1>5, <3>1
    <3>3. ASSUME t[i] = LEAD PROVE i < m + n /\ t[i + 1] = CONT
      <4>1. j < n /\ v[j + 1] = CONT BY <1>7, <3>2, <3>3
      <4>2. j + 1 \in 1..n /\ i + 1 = m + (j + 1) /\ i < m + n BY <3>1, <4>1
      <4> QED BY <1>5, <4>1, <4>2
    <3>4. ASSUME t[i] = CONT PROVE i > 1 /\ t[i - 1] = LEAD
      <4>1. j > 1 /\ v[j - 1] = LEAD BY <1>7, <3>2, <3>4
      <4>2. j - 1 \in 1..n /\ i - 1 = m + (j - 1) /\ i > 1 BY <3>1, <4>1
      <4> QED BY <1>5, <4>1, <4>2
    <3> QED BY <3>3, <3>4
  <2> QED BY <2>1, <2>2
<1>9. DOMAIN t = 1..(m + n) /\ Len(t) = m + n BY <1>5
<1>10. IsUtf8(t) BY <1>8, <1>9 DEF IsUtf8
<1> QED BY <1>2, <1>10 DEF Texts

\* The bytes of a character, as they are, as spnr-hook and as spnr-status
\* write them.
UnescapedChar(c) == IF c = "wide" THEN CHAR.wide \o CHAR.wide ELSE CHAR[c]
RawChar(c) == IF c = "nl" THEN <<BACKSLASH>> \o CHAR.n ELSE CHAR[c]

\* A character of one byte is UTF-8,
LEMMA OneByte ==
  ASSUME NEW x \in 0..5, x # LEAD, x # CONT
  PROVE  <<x>> \in Texts
<1>1. x \in Digit BY DigitsNat DEF Digit
<1>2. PICK h \in Seq(Digit) : h = <<x>> /\ Len(h) = 1 /\ h[1] = x BY <1>1, Single
<1>3. DOMAIN h = {1} BY <1>2
<1>4. IsUtf8(h) BY <1>2, <1>3, Zenon DEF IsUtf8
<1> QED BY <1>2, <1>4 DEF Texts

\* and so is the one of two.
LEMMA TwoBytes == CHAR.wide \in Texts
<1>1. LEAD \in Digit /\ CONT \in Digit /\ LEAD # CONT BY DigitsNat DEF Digit, LEAD, CONT
<1>2. PICK h : h = <<LEAD, CONT>> OBVIOUS
<1>3. h \in Seq(Digit) /\ Len(h) = 2 /\ h[1] = LEAD /\ h[2] = CONT BY <1>1, <1>2
<1>4. DOMAIN h = 1..2 BY <1>3
<1>5. IsUtf8(h) BY <1>1, <1>3, <1>4 DEF IsUtf8
<1>6. CHAR.wide = h BY <1>2 DEF CHAR
<1> QED BY <1>3, <1>5, <1>6, Zenon DEF Texts

\* Both programs write a character as UTF-8,
LEMMA CharTexts ==
  ASSUME NEW c \in Chars
  PROVE  UnescapedChar(c) \in Texts /\ RawChar(c) \in Texts
<1>1. CHAR.n \in Texts /\ CHAR.s \in Texts /\ CHAR.nl \in Texts /\ <<BACKSLASH>> \in Texts
  BY OneByte DEF CHAR, LEAD, CONT, BACKSLASH
<1>2. CHAR[c] \in Texts BY <1>1, TwoBytes DEF CHAR, Chars
<1>3. \A u, v \in Texts : u \o v \in Texts BY Utf8Plus DEF Plus
<1> QED BY <1>1, <1>2, <1>3, TwoBytes, Zenon DEF UnescapedChar, RawChar

\* and what is joined of UTF-8 is UTF-8:
LEMMA TextOf ==
  ASSUME NEW s \in Seq(Chars), NEW ss, ss \in [1..Len(s) -> Texts]
  PROVE  FlattenSeq(ss) \in Texts
<1>1. Len(s) \in Nat OBVIOUS
<1>2. ss \in Seq(Seq(Digit)) /\ \A i \in 1..Len(ss) : ss[i] \in Texts BY <1>1 DEF Texts
<1>3. <<>> \in Texts BY DEF Texts, IsUtf8
<1>4. \A u \in Seq(Digit) \cap Texts, i \in 1..Len(ss) : Plus(u, ss[i]) \in Texts
  BY <1>2, Utf8Plus
<1> QED BY <1>2, <1>3, <1>4, FlattenInduction

\* both programs write UTF-8.
LEMMA WrittenTexts ==
  ASSUME NEW s \in Seq(Chars)
  PROVE  Unescaped(s) \in Texts /\ Raw(s) \in Texts
<1>1. DOMAIN s = 1..Len(s) /\ \A i \in 1..Len(s) : s[i] \in Chars OBVIOUS
<1>2. PICK uu : uu = [i \in 1..Len(s) |-> UnescapedChar(s[i])] OBVIOUS
<1>3. PICK rr : rr = [i \in 1..Len(s) |-> RawChar(s[i])] OBVIOUS
<1>4. uu \in [1..Len(s) -> Texts] BY <1>1, <1>2, CharTexts
<1>5. rr \in [1..Len(s) -> Texts] BY <1>1, <1>3, CharTexts
<1>6. Unescaped(s) = FlattenSeq(uu) BY <1>1, <1>2, Zenon DEF Unescaped, UnescapedChar
<1>7. Raw(s) = FlattenSeq(rr) BY <1>1, <1>3, Zenon DEF Raw, RawChar
<1> QED BY <1>4, <1>5, <1>6, <1>7, TextOf

-----------------------------------------------------------------------------
(* What a program sends is read as it was sent, or not at all. *)

HookMsg(a, c) == SocketMsg("Hook", <<a, c>>)
SentMsgs ==
  Commands \cup {SocketMsg("Heartbeat", <<a>>) : a \in Texts}
           \cup {HookMsg(a, c) : a \in Texts, c \in Texts}

\* What a program sends is decoded as it was sent when it fits the buffer, and
\* refused when it does not.
LEMMA SentRead ==
  ASSUME NEW m \in SentMsgs
  PROVE  /\ encode(m) \in Seq(Digit)
         /\ decode(Cut(encode(m))) = IF Len(encode(m)) <= BUFFER THEN m ELSE Nothing
<1>1. BUFFER = BASE /\ BASE \in Nat /\ BASE > 5 BY WireAssumption DEF BUFFER
<1>2. CASE m \in Commands
  <2>1. PICK e \in Seq(Digit) : e = encode(m) /\ Len(e) = 2 BY <1>2, EncodedCmd
  <2>2. Cut(e) = e /\ Len(e) <= BUFFER BY <1>1, <2>1, CutIs
  <2>3. decode(e) = m BY <1>2, <2>1, CmdRead, Zenon
  <2> QED BY <2>1, <2>2, <2>3, Zenon
<1>3. ASSUME NEW a \in Texts, m = SocketMsg("Heartbeat", <<a>>)
      PROVE  /\ encode(m) \in Seq(Digit)
             /\ decode(Cut(encode(m))) = IF Len(encode(m)) <= BUFFER THEN m ELSE Nothing
  <2>1. a \in Seq(Digit) /\ IsUtf8(a) BY DEF Texts
  <2>2. PICK e : e = encode(m) OBVIOUS
  <2>3. PICK k : BeatBytes(e, a, k) BY <1>3, <2>1, <2>2, EncodedBeat
  <2>4. e \in Seq(Digit) /\ Len(e) \in Nat BY <2>3 DEF BeatBytes
  <2>5. CASE Len(e) <= BASE
    <3>1. decode(e) = m BY <1>3, <2>1, <2>3, <2>5, BeatRead, Zenon
    <3>2. Cut(e) = e BY <2>4, <2>5, CutIs, Zenon
    <3> QED BY <1>1, <2>2, <2>4, <2>5, <3>1, <3>2, Zenon
  <2>6. CASE ~(Len(e) <= BASE)
    <3>1. Len(e) > BASE BY <1>1, <2>4, <2>6
    <3>2. decode(Cut(e)) = Nothing BY <2>1, <2>3, <3>1, BeatCut, Zenon
    <3> QED BY <1>1, <2>2, <2>4, <2>6, <3>2, Zenon
  <2> QED BY <2>5, <2>6
<1>4. ASSUME NEW a \in Texts, NEW c \in Texts, m = SocketMsg("Hook", <<a, c>>)
      PROVE  /\ encode(m) \in Seq(Digit)
             /\ decode(Cut(encode(m))) = IF Len(encode(m)) <= BUFFER THEN m ELSE Nothing
  <2>1. a \in Seq(Digit) /\ IsUtf8(a) /\ c \in Seq(Digit) /\ IsUtf8(c) BY DEF Texts
  <2>2. PICK e : e = encode(m) OBVIOUS
  <2>3. PICK k, l : HookBytes(e, a, c, k, l) BY <1>4, <2>1, <2>2, EncodedHook
  <2>4. e \in Seq(Digit) /\ Len(e) \in Nat BY <2>3 DEF HookBytes
  <2>5. CASE Len(e) <= BASE
    <3>1. decode(e) = m BY <1>4, <2>1, <2>3, <2>5, HookRead, Zenon
    <3>2. Cut(e) = e BY <2>4, <2>5, CutIs, Zenon
    <3> QED BY <1>1, <2>2, <2>4, <2>5, <3>1, <3>2, Zenon
  <2>6. CASE ~(Len(e) <= BASE)
    <3>1. Len(e) > BASE BY <1>1, <2>4, <2>6
    <3>2. decode(Cut(e)) = Nothing BY <2>1, <2>3, <3>1, HookCut, Zenon
    <3> QED BY <1>1, <2>2, <2>4, <2>6, <3>2, Zenon
  <2> QED BY <2>5, <2>6
<1>5. \/ m \in Commands
      \/ \E a \in Texts : m = SocketMsg("Heartbeat", <<a>>)
      \/ \E a \in Texts, c \in Texts : m = HookMsg(a, c)
  BY DEF SentMsgs
<1> QED BY <1>2, <1>3, <1>4, <1>5, Zenon DEF HookMsg

-----------------------------------------------------------------------------
(* Documents as tokens. *)

TokenType == [kind : Kinds, text : Seq(Chars)]
\* What a value starts with.
Leaves == {Mark("number")} \cup {Quoted(s) : s \in Seq(Chars)}

\* The keys are strings.
LEMMA KeysAre ==
  /\ Keys \subseteq Seq(Chars)
  /\ KEY_EVENT \in Keys /\ KEY_SESSION \in Keys
<1>1. "n" \in Chars /\ "s" \in Chars BY DEF Chars
<1>2. KEY_EVENT \in Seq(Chars) /\ KEY_SESSION \in Seq(Chars) /\ <<"n", "s">> \in Seq(Chars)
  BY <1>1 DEF KEY_EVENT, KEY_SESSION
<1> QED BY <1>2, Zenon DEF Keys

\* Marks and quoted strings are tokens, and None is no token.
LEMMA TokenTypes ==
  /\ \A x \in Kinds : Mark(x) \in TokenType /\ Mark(x).kind = x /\ Mark(x).text = <<>>
  /\ \A s \in Seq(Chars) :
       Quoted(s) \in TokenType /\ Quoted(s).kind = "string" /\ Quoted(s).text = s
  /\ Leaves \subseteq TokenType
  /\ Nothing \notin TokenType
<1>1. <<>> \in Seq(Chars) OBVIOUS
<1>2. \A x, s : Token(x, s).kind = x /\ Token(x, s).text = s BY DEF Token
<1>3. \A x \in Kinds, s \in Seq(Chars) : Token(x, s) \in TokenType BY DEF Token, TokenType
<1>4. "string" \in Kinds /\ "number" \in Kinds BY DEF Kinds
<1>5. \A x \in Kinds : Mark(x) \in TokenType /\ Mark(x).kind = x /\ Mark(x).text = <<>>
  BY <1>1, <1>2, <1>3, Zenon DEF Mark
<1>6. \A s \in Seq(Chars) :
       Quoted(s) \in TokenType /\ Quoted(s).kind = "string" /\ Quoted(s).text = s
  BY <1>2, <1>3, <1>4, Zenon DEF Quoted
<1>7. Leaves \subseteq TokenType BY <1>4, <1>5, <1>6, Zenon DEF Leaves
<1>8. Nothing \notin TokenType BY NothingAssumption DEF TokenType
<1> QED BY <1>5, <1>6, <1>7, <1>8, Zenon

\* A sequence of two elements.
LEMMA Pair ==
  ASSUME NEW S, NEW x \in S, NEW y \in S
  PROVE  \E h \in Seq(S) : h = <<x, y>> /\ Len(h) = 2 /\ h[1] = x /\ h[2] = y
<1> DEFINE h == <<x, y>>
<1>1. h \in Seq(S) /\ Len(h) = 2 /\ h[1] = x /\ h[2] = y OBVIOUS
<1>2. h = <<x, y>> OBVIOUS
<1> HIDE DEF h
<1> QED BY <1>1, <1>2

\* The fields of a member.
LEMMA MemberFields ==
  ASSUME NEW key, NEW v, NEW inner
  PROVE  /\ Member(key, v, inner).key = key /\ Member(key, v, inner).value = v
         /\ Member(key, v, inner).inner = inner
  BY DEF Member

\* A member's key, a colon, its value.
TokensOf(t, key, v) ==
  /\ t \in Seq(TokenType) /\ Len(t) = Len(v) + 2
  /\ t[1] = Quoted(key) /\ t[2] = Mark(":") /\ \A j \in 1..Len(v) : t[j + 2] = v[j]

\* MemberTokens writes a member's key, a colon, its value.
LEMMA MemberTokensAre ==
  ASSUME NEW key \in Seq(Chars), NEW v \in Seq(TokenType), NEW inner
  PROVE  TokensOf(MemberTokens(Member(key, v, inner)), key, v)
<1>1. PICK h \in Seq(TokenType) :
        h = <<Quoted(key), Mark(":")>> /\ Len(h) = 2 /\ h[1] = Quoted(key) /\ h[2] = Mark(":")
  <2>1. ":" \in Kinds BY DEF Kinds
  <2>2. Quoted(key) \in TokenType /\ Mark(":") \in TokenType BY <2>1, TokenTypes, Zenon
  <2> QED BY <2>2, Pair
<1>2. MemberTokens(Member(key, v, inner)) = Plus(h, v)
  <2>1. Member(key, v, inner).key = key /\ Member(key, v, inner).value = v BY MemberFields
  <2> QED BY <1>1, <2>1, Zenon DEF MemberTokens, Plus
<1>3. PICK t : t = MemberTokens(Member(key, v, inner)) OBVIOUS
<1>4. t \in Seq(TokenType) /\ Continued(t, h, v, Len(v))
  BY <1>2, <1>3, JoinedBytes, Zenon
<1>5. Len(t) = 2 + Len(v) /\ (\A i \in 1..2 : t[i] = h[i]) /\ \A j \in 1..Len(v) : t[2 + j] = v[j]
  BY <1>1, <1>4, Zenon DEF Continued
<1>6. \A j \in 1..Len(v) : t[j + 2] = v[j]
  <2> TAKE j \in 1..Len(v)
  <2>1. j + 2 = 2 + j OBVIOUS
  <2> QED BY <1>5, <2>1
<1>7. t[1] = Quoted(key) /\ t[2] = Mark(":")
  <2>1. 1 \in 1..2 /\ 2 \in 1..2 OBVIOUS
  <2> QED BY <1>1, <1>5, <2>1, Zenon
<1>8. Len(t) = Len(v) + 2
  <2>1. Len(v) \in Nat OBVIOUS
  <2> QED BY <1>5, <2>1
<1> QED BY <1>3, <1>4, <1>6, <1>7, <1>8, Zenon DEF TokensOf

\* u with one more element.
LEMMA OneMore ==
  ASSUME NEW S, NEW u \in Seq(S), NEW x \in S
  PROVE  \E t \in Seq(S) : /\ t = Plus(u, <<x>>) /\ Len(t) = Len(u) + 1
                           /\ \A i \in 1..Len(u) : t[i] = u[i]
                           /\ t[Len(u) + 1] = x
<1>1. PICK h \in Seq(S) : h = <<x>> /\ Len(h) = 1 /\ h[1] = x BY Single
<1>2. PICK t \in Seq(S) : t = Plus(u, h) /\ Continued(t, u, h, Len(h)) BY JoinedBytes, Zenon
<1>3. 1 \in 1..1 OBVIOUS
<1>4. /\ Len(t) = Len(u) + 1 /\ \A i \in 1..Len(u) : t[i] = u[i]
      /\ t[Len(u) + 1] = x
  BY <1>1, <1>2, <1>3, Zenon DEF Continued
<1> QED BY <1>1, <1>2, <1>4, Zenon

\* The tokens of a member with a plain value, with a nested object, and the
\* mark after them.
FlatPiece(p, key, v, x) ==
  /\ p \in Seq(TokenType) /\ Len(p) = 4
  /\ p[1] = Quoted(key) /\ p[2] = Mark(":") /\ p[3] = v /\ p[4] = x
DeepPiece(p, key, j, v, x) ==
  /\ p \in Seq(TokenType) /\ Len(p) = 8
  /\ p[1] = Quoted(key) /\ p[2] = Mark(":") /\ p[3] = Mark("{")
  /\ p[4] = Quoted(j) /\ p[5] = Mark(":") /\ p[6] = v /\ p[7] = Mark("}") /\ p[8] = x

FlatMember(m, key, v) == key \in Keys /\ v \in Leaves /\ m = Member(key, <<v>>, <<>>)
DeepMember(m, key, j, v) ==
  /\ key \in Keys /\ j \in Keys /\ v \in Leaves
  /\ m = Member(key, <<Mark("{")>> \o MemberTokens(Member(j, <<v>>, <<>>)) \o <<Mark("}")>>,
                <<Member(j, <<v>>, <<>>)>>)

\* The tokens of a member with a plain value.
LEMMA FlatTokens ==
  ASSUME NEW m, NEW key, NEW v, FlatMember(m, key, v), NEW x \in TokenType
  PROVE  FlatPiece(Plus(MemberTokens(m), <<x>>), key, v, x)
<1>1. key \in Seq(Chars) /\ v \in TokenType BY KeysAre, TokenTypes, Zenon DEF FlatMember
<1>2. PICK w \in Seq(TokenType) : w = <<v>> /\ Len(w) = 1 /\ w[1] = v BY <1>1, Single
<1>3. m = Member(key, w, <<>>) BY <1>2, Zenon DEF FlatMember
<1>4. PICK t : t = MemberTokens(m) OBVIOUS
<1>5. TokensOf(t, key, w) BY <1>1, <1>3, <1>4, MemberTokensAre, Zenon
<1>6. /\ t \in Seq(TokenType) /\ Len(t) = Len(w) + 2
      /\ t[1] = Quoted(key) /\ t[2] = Mark(":") /\ \A j \in 1..Len(w) : t[j + 2] = w[j]
  BY <1>5, Zenon DEF TokensOf
<1>7. Len(t) = 3 BY <1>2, <1>6
<1>8. t[3] = v
  <2>1. 1 \in 1..1 /\ 1 + 2 = 3 OBVIOUS
  <2> QED BY <1>2, <1>6, <2>1, Zenon
<1>9. PICK p \in Seq(TokenType) : /\ p = Plus(t, <<x>>) /\ Len(p) = Len(t) + 1
                                  /\ \A i \in 1..Len(t) : p[i] = t[i]
                                  /\ p[Len(t) + 1] = x
  BY <1>6, OneMore
<1>10. Len(p) = 4 /\ p[4] = x
  <2>1. 3 + 1 = 4 OBVIOUS
  <2> QED BY <1>7, <1>9, <2>1, Zenon
<1>11. p[1] = t[1] /\ p[2] = t[2] /\ p[3] = t[3]
  <2>1. 1 \in 1..3 /\ 2 \in 1..3 /\ 3 \in 1..3 OBVIOUS
  <2> QED BY <1>7, <1>9, <2>1, Zenon
<1> QED BY <1>4, <1>6, <1>8, <1>9, <1>10, <1>11, Zenon DEF FlatPiece

\* The tokens of a member with a nested object.
LEMMA DeepTokens ==
  ASSUME NEW m, NEW key, NEW j, NEW v, DeepMember(m, key, j, v), NEW x \in TokenType
  PROVE  /\ DeepPiece(Plus(MemberTokens(m), <<x>>), key, j, v, x)
         /\ m.value # <<>> /\ Head(m.value) = Mark("{") /\ m.key = key
<1>1. key \in Seq(Chars) /\ j \in Seq(Chars) /\ v \in TokenType
  BY KeysAre, TokenTypes, Zenon DEF DeepMember
<1>2. Mark("{") \in TokenType /\ Mark("}") \in TokenType
  <2>1. "{" \in Kinds /\ "}" \in Kinds BY DEF Kinds
  <2> QED BY <2>1, TokenTypes, Zenon
<1>3. PICK w \in Seq(TokenType) : w = <<v>> /\ Len(w) = 1 /\ w[1] = v BY <1>1, Single
<1>4. PICK r : r = MemberTokens(Member(j, w, <<>>)) OBVIOUS
<1>5. TokensOf(r, j, w) BY <1>1, <1>4, MemberTokensAre, Zenon
<1>6. /\ r \in Seq(TokenType) /\ Len(r) = Len(w) + 2
      /\ r[1] = Quoted(j) /\ r[2] = Mark(":") /\ \A i \in 1..Len(w) : r[i + 2] = w[i]
  BY <1>5, Zenon DEF TokensOf
<1>7. Len(r) = 3 BY <1>3, <1>6
<1>8. r[3] = v
  <2>1. 1 \in 1..1 /\ 1 + 2 = 3 OBVIOUS
  <2> QED BY <1>3, <1>6, <2>1, Zenon
<1>9. PICK h \in Seq(TokenType) : h = <<Mark("{")>> /\ Len(h) = 1 /\ h[1] = Mark("{")
  BY <1>2, Single
<1>10. PICK g \in Seq(TokenType) : g = Plus(h, r) /\ Continued(g, h, r, Len(r))
  BY <1>6, JoinedBytes, Zenon
<1>11. Len(g) = 4 /\ g[1] = Mark("{") /\ g[2] = r[1] /\ g[3] = r[2] /\ g[4] = r[3]
  <2>1. /\ Len(g) = 1 + 3 /\ \A i \in 1..1 : g[i] = h[i]
        /\ \A i \in 1..3 : g[1 + i] = r[i]
    BY <1>7, <1>9, <1>10, Zenon DEF Continued
  <2>2. 1 + 3 = 4 /\ 1 \in 1..1 /\ 1 \in 1..3 /\ 2 \in 1..3 /\ 3 \in 1..3 /\ 1 + 1 = 2 /\ 1 + 2 = 3
    OBVIOUS
  <2> QED BY <1>9, <2>1, <2>2, Zenon
<1>12. PICK u \in Seq(TokenType) : /\ u = Plus(g, <<Mark("}")>>) /\ Len(u) = Len(g) + 1
                                   /\ \A i \in 1..Len(g) : u[i] = g[i]
                                   /\ u[Len(g) + 1] = Mark("}")
  BY <1>2, OneMore
<1>13. Len(u) = 5 /\ u[5] = Mark("}") /\ \A i \in 1..4 : u[i] = g[i]
  <2>1. 4 + 1 = 5 OBVIOUS
  <2> QED BY <1>11, <1>12, <2>1, Zenon
<1>14. PICK inner : inner = <<Member(j, <<v>>, <<>>)>> OBVIOUS
<1>15. m = Member(key, u, inner)
  BY <1>3, <1>4, <1>9, <1>10, <1>12, <1>14, Zenon DEF DeepMember, Plus
<1>16. PICK t : t = MemberTokens(m) OBVIOUS
<1>17. TokensOf(t, key, u) BY <1>1, <1>15, <1>16, MemberTokensAre, Zenon
<1>18. /\ t \in Seq(TokenType) /\ Len(t) = Len(u) + 2
       /\ t[1] = Quoted(key) /\ t[2] = Mark(":") /\ \A i \in 1..Len(u) : t[i + 2] = u[i]
  BY <1>17, Zenon DEF TokensOf
<1>19. Len(t) = 7
  <2>1. Len(t) = 5 + 2 BY <1>13, <1>18, Zenon
  <2>2. 5 + 2 = 7 OBVIOUS
  <2> QED BY <2>1, <2>2, Zenon
<1>20. t[3] = u[1] /\ t[4] = u[2] /\ t[5] = u[3] /\ t[6] = u[4] /\ t[7] = u[5]
  <2>1. \A i \in 1..5 : t[i + 2] = u[i] BY <1>13, <1>18, Zenon
  <2>2. /\ 1 \in 1..5 /\ 2 \in 1..5 /\ 3 \in 1..5 /\ 4 \in 1..5 /\ 5 \in 1..5
        /\ 1 + 2 = 3 /\ 2 + 2 = 4 /\ 3 + 2 = 5 /\ 4 + 2 = 6 /\ 5 + 2 = 7
    OBVIOUS
  <2> QED BY <2>1, <2>2, Zenon
<1>21. PICK p \in Seq(TokenType) : /\ p = Plus(t, <<x>>) /\ Len(p) = Len(t) + 1
                                   /\ \A i \in 1..Len(t) : p[i] = t[i]
                                   /\ p[Len(t) + 1] = x
  <2>1. t \in Seq(TokenType) BY <1>18, Zenon
  <2> QED BY <2>1, OneMore
<1>22. Len(p) = 8 /\ p[8] = x /\ \A i \in 1..7 : p[i] = t[i]
  <2>1. 7 + 1 = 8 OBVIOUS
  <2> QED BY <1>19, <1>21, <2>1, Zenon
<1>23. u[1] = g[1] /\ u[2] = g[2] /\ u[3] = g[3] /\ u[4] = g[4]
  <2>1. 1 \in 1..4 /\ 2 \in 1..4 /\ 3 \in 1..4 /\ 4 \in 1..4 OBVIOUS
  <2> QED BY <1>13, <2>1, Zenon
<1>24. /\ p[1] = Quoted(key) /\ p[2] = Mark(":") /\ p[3] = Mark("{")
       /\ p[4] = Quoted(j) /\ p[5] = Mark(":") /\ p[6] = v /\ p[7] = Mark("}")
  <2>1. /\ 1 \in 1..7 /\ 2 \in 1..7 /\ 3 \in 1..7 /\ 4 \in 1..7 /\ 5 \in 1..7 /\ 6 \in 1..7
        /\ 7 \in 1..7
    OBVIOUS
  <2>2. p[1] = t[1] /\ p[2] = t[2] BY <1>22, <2>1, Zenon
  <2>3. p[3] = g[1] /\ p[4] = g[2] /\ p[5] = g[3] /\ p[6] = g[4] /\ p[7] = u[5]
    BY <1>20, <1>22, <1>23, <2>1, Zenon
  <2> QED BY <1>6, <1>8, <1>11, <1>13, <1>18, <2>2, <2>3, Zenon
<1>25. m.value = u /\ m.key = key
  <2>1. Member(key, u, inner).value = u /\ Member(key, u, inner).key = key BY MemberFields
  <2> QED BY <1>15, <2>1, Zenon
<1>26. u # <<>> /\ Head(u) = u[1]
  <2>1. Len(u) = 5 BY <1>13, Zenon
  <2>2. u # <<>>
    <3>1. Len(<<>>) = 0 /\ 5 # 0 OBVIOUS
    <3> QED BY <2>1, <3>1, Zenon
  <2> QED BY <2>1, <2>2
<1> QED BY <1>11, <1>16, <1>18, <1>21, <1>22, <1>23, <1>24, <1>25, <1>26, Zenon DEF DeepPiece

-----------------------------------------------------------------------------
(* The scanner. *)

\* The smallest number of a set.
LEMMA MinIs ==
  ASSUME NEW T \in SUBSET Nat, NEW x \in T, \A y \in T : x <= y
  PROVE  Min(T) = x
<1>1. x \in T /\ \A y \in T : x =< y OBVIOUS
<1>2. \A z \in T : (\A y \in T : z =< y) => z = x OBVIOUS
<1> QED BY <1>1, <1>2 DEF Min

\* A key stands at i.
KeyAt(t, k, i) ==
  /\ t[i] = Quoted(k)
  /\ i = 1 \/ t[i - 1].kind \in {"{", ","}
  /\ i < Len(t) /\ t[i + 1].kind = ":"
FirstAt(t, k, i) == i \in KeyPositions(t, k) /\ \A j \in KeyPositions(t, k) : i <= j

\* KeyPositions are the places where a key stands.
LEMMA Positions ==
  ASSUME NEW t \in Seq(TokenType), NEW k
  PROVE  /\ KeyPositions(t, k) \in SUBSET Nat
         /\ \A i : i \in KeyPositions(t, k) <=> i \in 1..Len(t) /\ KeyAt(t, k, i)
<1>1. DOMAIN t = 1..Len(t) OBVIOUS
<1>2. \A i : i \in KeyPositions(t, k) <=> i \in 1..Len(t) /\ KeyAt(t, k, i)
  BY <1>1, Zenon DEF KeyPositions, KeyAt
<1> QED BY <1>2

\* value_for_key returns what stands behind the first of them.
LEMMA Skimmed ==
  ASSUME NEW t \in Seq(TokenType), NEW k
  PROVE  /\ KeyPositions(t, k) = {} => value_for_key(t, k) = Nothing
         /\ \A i : FirstAt(t, k, i) =>
              value_for_key(t, k) = IF i + 2 > Len(t) THEN Nothing ELSE t[i + 2]
<1>1. ASSUME KeyPositions(t, k) = {} PROVE value_for_key(t, k) = Nothing
  BY <1>1, Zenon DEF value_for_key
<1>2. ASSUME NEW i, FirstAt(t, k, i)
      PROVE  value_for_key(t, k) = IF i + 2 > Len(t) THEN Nothing ELSE t[i + 2]
  <2>1. Min(KeyPositions(t, k)) = i BY <1>2, Positions, MinIs DEF FirstAt
  <2>2. KeyPositions(t, k) # {} BY <1>2, Zenon DEF FirstAt
  <2> QED BY <2>1, <2>2, Zenon DEF value_for_key
<1> QED BY <1>1, <1>2, Zenon

\* When a key stands anywhere, one of its places is the first.
LEMMA FirstThere ==
  ASSUME NEW t \in Seq(TokenType), NEW k, KeyPositions(t, k) # {}
  PROVE  \E i \in 1..Len(t) : FirstAt(t, k, i)
<1>1. KeyPositions(t, k) \in SUBSET Nat BY Positions
<1>2. PICK i \in KeyPositions(t, k) : \A j \in KeyPositions(t, k) : i <= j BY <1>1, LeastOf
<1>3. i \in 1..Len(t) BY Positions
<1> QED BY <1>2, <1>3, Zenon DEF FirstAt

\* The tokens so far end where a key may follow.
Open(t) == t \in Seq(TokenType) /\ Len(t) > 0 /\ t[Len(t)].kind \in {"{", ","}

\* Tokens added where a key may follow neither hide nor make a key among those
\* before them, nor among themselves.
LEMMA KeysOfJoin ==
  ASSUME NEW t, Open(t), NEW p \in Seq(TokenType), NEW u \in Seq(TokenType),
         Continued(u, t, p, Len(p)), NEW k \in Seq(Chars)
  PROVE  /\ \A i \in 1..Len(t) : i \in KeyPositions(u, k) <=> i \in KeyPositions(t, k)
         /\ \A j \in 1..Len(p) : Len(t) + j \in KeyPositions(u, k) <=> j \in KeyPositions(p, k)
<1>1. t \in Seq(TokenType) BY Zenon DEF Open
<1>2. PICK m \in Nat : m = Len(t) BY <1>1
<1>3. m > 0 BY <1>2, Zenon DEF Open
<1>4. m = Len(t) /\ m > 0 /\ t[m].kind \in {"{", ","} BY <1>2, Zenon DEF Open
<1>5. PICK n \in Nat : n = Len(p) OBVIOUS
<1>6. Len(u) = m + n /\ (\A i \in 1..m : u[i] = t[i]) /\ \A j \in 1..n : u[m + j] = p[j]
  BY <1>4, <1>5 DEF Continued
<1>7. t \in Seq(TokenType) BY DEF Open
<1>8. Quoted(k).kind = "string" BY TokenTypes
<1>9. ASSUME NEW i \in 1..m PROVE KeyAt(u, k, i) <=> KeyAt(t, k, i)
  <2>1. u[i] = t[i] BY <1>6
  <2>2. CASE i = m
    <3>1. t[i].kind # "string" BY <1>4, <2>2
    <3>2. t[i] # Quoted(k) BY <1>8, <3>1, Zenon
    <3> QED BY <2>1, <3>2, Zenon DEF KeyAt
  <2>3. CASE i # m
    <3>1. i + 1 \in 1..m /\ i < m /\ i < m + n BY <2>3
    <3>2. u[i + 1] = t[i + 1] BY <1>6, <3>1
    <3>3. i = 1 \/ u[i - 1] = t[i - 1]
      <4>1. i = 1 \/ i - 1 \in 1..m OBVIOUS
      <4> QED BY <1>6, <4>1
    <3>4. (i < Len(u)) <=> (i < Len(t))
      <4>1. i < Len(u) BY <1>6, <3>1, Zenon
      <4>2. i < Len(t) BY <1>4, <3>1, Zenon
      <4> QED BY <4>1, <4>2
    <3> QED BY <2>1, <3>2, <3>3, <3>4, Zenon DEF KeyAt
  <2> QED BY <2>2, <2>3
<1>10. ASSUME NEW j \in 1..n PROVE KeyAt(u, k, m + j) <=> KeyAt(p, k, j)
  <2>1. u[m + j] = p[j] BY <1>6
  <2>2. m + j # 1 /\ (m + j) - 1 = m + (j - 1) /\ (m + j) + 1 = m + (j + 1) BY <1>3
  <2>3. (m + j = 1 \/ u[(m + j) - 1].kind \in {"{", ","}) <=> (j = 1 \/ p[j - 1].kind \in {"{", ","})
    <3>1. CASE j = 1
      <4>1. u[(m + j) - 1] = t[m]
        <5>1. (m + j) - 1 = m /\ m \in 1..m BY <1>3, <3>1
        <5> QED BY <1>6, <5>1, Zenon
      <4> QED BY <1>4, <3>1, <4>1, Zenon
    <3>2. CASE j # 1
      <4>1. j - 1 \in 1..n BY <3>2
      <4>2. u[(m + j) - 1] = p[j - 1] BY <1>6, <2>2, <4>1, Zenon
      <4> QED BY <2>2, <3>2, <4>2, Zenon
    <3> QED BY <3>1, <3>2
  <2>4. (m + j < Len(u)) <=> (j < Len(p))
    <3>1. (m + j < m + n) <=> (j < n) OBVIOUS
    <3> QED BY <1>5, <1>6, <3>1, Zenon
  <2>5. j < Len(p) => u[(m + j) + 1] = p[j + 1]
    <3>1. j < n => j + 1 \in 1..n OBVIOUS
    <3> QED BY <1>5, <1>6, <2>2, <3>1, Zenon
  <2> QED BY <2>1, <2>3, <2>4, <2>5, Zenon DEF KeyAt
<1>11. ASSUME NEW i \in 1..m PROVE i \in KeyPositions(u, k) <=> i \in KeyPositions(t, k)
  <2>1. i \in 1..Len(u) /\ i \in 1..Len(t)
    <3>1. i \in 1..(m + n) OBVIOUS
    <3> QED BY <1>4, <1>6, <3>1, Zenon
  <2>2. (i \in KeyPositions(u, k) <=> KeyAt(u, k, i)) /\ (i \in KeyPositions(t, k) <=> KeyAt(t, k, i))
    BY <1>7, <2>1, Positions, Zenon
  <2> QED BY <1>9, <2>2, Zenon
<1>12. ASSUME NEW j \in 1..n PROVE m + j \in KeyPositions(u, k) <=> j \in KeyPositions(p, k)
  <2>1. m + j \in 1..Len(u) /\ j \in 1..Len(p)
    <3>1. m + j \in 1..(m + n) OBVIOUS
    <3> QED BY <1>5, <1>6, <3>1, Zenon
  <2>2. /\ m + j \in KeyPositions(u, k) <=> KeyAt(u, k, m + j)
        /\ j \in KeyPositions(p, k) <=> KeyAt(p, k, j)
    BY <2>1, Positions, Zenon
  <2> QED BY <1>10, <2>2, Zenon
<1> QED BY <1>4, <1>5, <1>11, <1>12, Zenon

\* A key found before is found again, and of the tokens that follow those
\* decide that hold the key first.
LEMMA SkimJoin ==
  ASSUME NEW t, Open(t), NEW p \in Seq(TokenType), NEW u \in Seq(TokenType),
         Continued(u, t, p, Len(p)), NEW k \in Seq(Chars)
  PROVE  value_for_key(u, k) =
           IF value_for_key(t, k) # Nothing THEN value_for_key(t, k) ELSE value_for_key(p, k)
<1>1. t \in Seq(TokenType) BY Zenon DEF Open
<1>2. PICK m \in Nat : m = Len(t) BY <1>1
<1>3. m > 0 BY <1>2, Zenon DEF Open
<1>4. m = Len(t) /\ m > 0 /\ t[m].kind \in {"{", ","} BY <1>2, Zenon DEF Open
<1>5. PICK n \in Nat : n = Len(p) OBVIOUS
<1>6. Len(u) = m + n /\ (\A i \in 1..m : u[i] = t[i]) /\ \A j \in 1..n : u[m + j] = p[j]
  BY <1>4, <1>5 DEF Continued
<1>7. t \in Seq(TokenType) BY DEF Open
<1>8. /\ \A i \in 1..m : i \in KeyPositions(u, k) <=> i \in KeyPositions(t, k)
      /\ \A j \in 1..n : m + j \in KeyPositions(u, k) <=> j \in KeyPositions(p, k)
  BY <1>4, <1>5, KeysOfJoin, Zenon
<1>9. ASSUME NEW i \in KeyPositions(u, k)
      PROVE  \/ i \in 1..m /\ i \in KeyPositions(t, k)
             \/ \E j \in KeyPositions(p, k) : j \in 1..n /\ i = m + j
  <2>1. i \in 1..(m + n) BY <1>6, Positions, Zenon
  <2>2. CASE i <= m
    <3>1. i \in 1..m BY <2>1, <2>2
    <3> QED BY <1>8, <3>1, Zenon
  <2>3. CASE ~(i <= m)
    <3>1. PICK j \in 1..n : i = m + j
      <4>1. i - m \in 1..n /\ i = m + (i - m) BY <2>1, <2>3
      <4> QED BY <4>1
    <3> QED BY <1>8, <3>1, Zenon
  <2> QED BY <2>2, <2>3
<1>10. CASE KeyPositions(t, k) # {}
  <2>1. PICK i \in 1..m : FirstAt(t, k, i) BY <1>4, <1>7, <1>10, FirstThere, Zenon
  <2>2. KeyAt(t, k, i) BY <1>7, <2>1, Positions, Zenon DEF FirstAt
  <2>3. i < m /\ t[i + 1].kind = ":" BY <1>4, <2>2, Zenon DEF KeyAt
  <2>4. i + 1 # m
    <3>1. t[m].kind # ":" BY <1>4
    <3> QED BY <2>3, <3>1, Zenon
  <2>5. i + 2 \in 1..m /\ ~(i + 2 > m) /\ ~(i + 2 > m + n) BY <2>3, <2>4
  <2>6. value_for_key(t, k) = t[i + 2] BY <1>4, <1>7, <2>1, <2>5, Skimmed, Zenon
  <2>7. FirstAt(u, k, i)
    <3>1. i \in KeyPositions(u, k) BY <1>8, <2>1, Zenon DEF FirstAt
    <3>2. ASSUME NEW x \in KeyPositions(u, k) PROVE i <= x
      <4>1. CASE x \in 1..m /\ x \in KeyPositions(t, k) BY <2>1, <4>1, Zenon DEF FirstAt
      <4>2. CASE \E j \in KeyPositions(p, k) : j \in 1..n /\ x = m + j
        <5>1. PICK j \in 1..n : x = m + j BY <4>2, Zenon
        <5> QED BY <5>1
      <4> QED BY <1>9, <4>1, <4>2, Zenon
    <3> QED BY <3>1, <3>2, Zenon DEF FirstAt
  <2>8. value_for_key(u, k) = u[i + 2] BY <1>6, <2>5, <2>7, Skimmed, Zenon
  <2>9. u[i + 2] = t[i + 2] BY <1>6, <2>5, Zenon
  <2>10. t[i + 2] \in TokenType
    <3>1. i + 2 \in 1..Len(t) BY <1>4, <2>5, Zenon
    <3> QED BY <1>7, <3>1
  <2>11. t[i + 2] # Nothing BY <2>10, TokenTypes, Zenon
  <2> QED BY <2>6, <2>8, <2>9, <2>11, Zenon
<1>11. CASE KeyPositions(t, k) = {}
  <2>1. value_for_key(t, k) = Nothing BY <1>7, <1>11, Skimmed, Zenon
  <2>2. CASE KeyPositions(p, k) = {}
    <3>1. KeyPositions(u, k) = {} BY <1>9, <1>11, <2>2, Zenon
    <3>2. value_for_key(u, k) = Nothing BY <3>1, Skimmed, Zenon
    <3>3. value_for_key(p, k) = Nothing BY <2>2, Skimmed, Zenon
    <3> QED BY <2>1, <3>2, <3>3, Zenon
  <2>3. CASE KeyPositions(p, k) # {}
    <3>1. PICK j \in 1..n : FirstAt(p, k, j) BY <1>5, <2>3, FirstThere, Zenon
    <3>2. FirstAt(u, k, m + j)
      <4>1. m + j \in KeyPositions(u, k) BY <1>8, <3>1, Zenon DEF FirstAt
      <4>2. ASSUME NEW x \in KeyPositions(u, k) PROVE m + j <= x
        <5>1. PICK l \in KeyPositions(p, k) : l \in 1..n /\ x = m + l BY <1>9, <1>11, Zenon
        <5>2. j <= l BY <3>1, <5>1, Zenon DEF FirstAt
        <5>3. l \in 1..n /\ x = m + l BY <5>1, Zenon
        <5>4. l \in Nat BY <5>3
        <5>5. m + j <= m + l BY <5>2, <5>4
        <5> QED BY <5>3, <5>5, Zenon
      <4> QED BY <4>1, <4>2, Zenon DEF FirstAt
    <3>3. value_for_key(p, k) = IF j + 2 > n THEN Nothing ELSE p[j + 2]
      BY <1>5, <3>1, Skimmed, Zenon
    <3>4. value_for_key(u, k) = IF (m + j) + 2 > m + n THEN Nothing ELSE u[(m + j) + 2]
      BY <1>6, <3>2, Skimmed, Zenon
    <3>5. ((m + j) + 2 > m + n <=> j + 2 > n) /\ (m + j) + 2 = m + (j + 2) OBVIOUS
    <3>6. ASSUME ~(j + 2 > n) PROVE u[(m + j) + 2] = p[j + 2]
      <4>1. PICK z \in 1..n : z = j + 2 BY <3>6
      <4>2. (m + j) + 2 = m + z BY <4>1
      <4>3. u[m + z] = p[z] BY <1>6, Zenon
      <4> QED BY <4>1, <4>2, <4>3, Zenon
    <3> QED BY <2>1, <3>3, <3>4, <3>5, <3>6, Zenon
  <2> QED BY <2>2, <2>3
<1> QED BY <1>10, <1>11

-----------------------------------------------------------------------------
(* What the scanner finds in one member. *)

\* Quoted strings differ as the strings do.
LEMMA QuotedIs ==
  ASSUME NEW s \in Seq(Chars), NEW r \in Seq(Chars)
  PROVE  Quoted(s) = Quoted(r) <=> s = r
<1>1. Quoted(s).text = s /\ Quoted(r).text = r BY TokenTypes
<1> QED BY <1>1, Zenon

\* The kinds of marks and of strings.
LEMMA MarkKinds ==
  /\ Mark("{").kind = "{" /\ Mark("}").kind = "}" /\ Mark(":").kind = ":" /\ Mark(",").kind = ","
  /\ \A s \in Seq(Chars) : Quoted(s).kind = "string"
  BY TokenTypes DEF Kinds

\* Nothing but a string in the right place is a key.
LEMMA NoKey ==
  ASSUME NEW t, NEW k \in Seq(Chars), NEW i,
         t[i].kind # "string" \/ (i # 1 /\ t[i - 1].kind \notin {"{", ","})
  PROVE  ~KeyAt(t, k, i)
<1>1. Quoted(k).kind = "string" BY MarkKinds
<1> QED BY <1>1, Zenon DEF KeyAt

\* In a member with a plain value the scanner finds the value, under its key only:
\* a string value equal to a key stands behind a colon.
LEMMA FlatScan ==
  ASSUME NEW p, NEW key \in Seq(Chars), NEW v \in TokenType, NEW x \in TokenType, x.kind # "string",
         FlatPiece(p, key, v, x), NEW k \in Seq(Chars)
  PROVE  value_for_key(p, k) = IF key = k THEN v ELSE Nothing
<1>1. /\ p \in Seq(TokenType) /\ Len(p) = 4
      /\ p[1] = Quoted(key) /\ p[2] = Mark(":") /\ p[3] = v /\ p[4] = x
  BY Zenon DEF FlatPiece
<1>2. /\ p[1].kind = "string" /\ p[2].kind = ":" /\ p[4].kind # "string"
  BY <1>1, MarkKinds
<1>3. ~KeyAt(p, k, 2)
  BY <1>2, NoKey
<1>4. ~KeyAt(p, k, 3)
  <2>1. 3 # 1 /\ 3 - 1 = 2 OBVIOUS
  <2>2. p[3 - 1].kind \notin {"{", ","} BY <1>2, <2>1
  <2> QED BY <2>1, <2>2, NoKey
<1>5. ~KeyAt(p, k, 4) BY <1>2, NoKey
<1>6. KeyAt(p, k, 1) <=> key = k
  <2>1. 1 < Len(p) /\ 1 + 1 = 2 BY <1>1
  <2> QED BY <1>1, <1>2, <2>1, QuotedIs, Zenon DEF KeyAt
<1>7. \A i : i \in KeyPositions(p, k) <=> i = 1 /\ key = k
  <2>1. \A i : i \in 1..4 <=> i = 1 \/ i = 2 \/ i = 3 \/ i = 4 OBVIOUS
  <2>2. 1 \in 1..4 OBVIOUS
  <2> QED BY <1>1, <1>3, <1>4, <1>5, <1>6, <2>1, <2>2, Positions, Zenon
<1>8. CASE key = k
  <2>1. FirstAt(p, k, 1)
    <3>1. 1 <= 1 OBVIOUS
    <3>2. 1 \in KeyPositions(p, k) BY <1>7, <1>8, Zenon
    <3>3. \A i \in KeyPositions(p, k) : i = 1 BY <1>7, Zenon
    <3>4. \A i \in KeyPositions(p, k) : 1 <= i BY <3>1, <3>3, Zenon
    <3> QED BY <3>2, <3>4, Zenon DEF FirstAt
  <2>2. 1 + 2 = 3 /\ ~(3 > 4) OBVIOUS
  <2> QED BY <1>1, <1>8, <2>1, <2>2, Skimmed, Zenon
<1>9. CASE key # k
  <2>1. KeyPositions(p, k) = {} BY <1>7, <1>9, Zenon
  <2> QED BY <1>1, <1>9, <2>1, Skimmed, Zenon
<1> QED BY <1>8, <1>9

\* In a member with a nested object it finds the object under the member's key,
\* and the inner value under another.
LEMMA DeepScan ==
  ASSUME NEW p, NEW key \in Seq(Chars), NEW j \in Seq(Chars), NEW v \in TokenType,
         NEW x \in TokenType, x.kind # "string",
         DeepPiece(p, key, j, v, x), NEW k \in Seq(Chars)
  PROVE  value_for_key(p, k) = IF key = k THEN Mark("{") ELSE IF j = k THEN v ELSE Nothing
<1>1. /\ p \in Seq(TokenType) /\ Len(p) = 8
      /\ p[1] = Quoted(key) /\ p[2] = Mark(":") /\ p[3] = Mark("{")
      /\ p[4] = Quoted(j) /\ p[5] = Mark(":") /\ p[6] = v /\ p[7] = Mark("}") /\ p[8] = x
  BY Zenon DEF DeepPiece
<1>2. /\ p[2].kind = ":" /\ p[3].kind = "{" /\ p[5].kind = ":" /\ p[7].kind = "}"
      /\ p[8].kind # "string"
  BY <1>1, MarkKinds
<1>3. ~KeyAt(p, k, 2) /\ ~KeyAt(p, k, 3) /\ ~KeyAt(p, k, 5) /\ ~KeyAt(p, k, 7) /\ ~KeyAt(p, k, 8)
  BY <1>2, NoKey
<1>4. ~KeyAt(p, k, 6)
  <2>1. 6 # 1 /\ 6 - 1 = 5 OBVIOUS
  <2>2. p[6 - 1].kind \notin {"{", ","} BY <1>2, <2>1
  <2> QED BY <2>1, <2>2, NoKey
<1>5. KeyAt(p, k, 1) <=> key = k
  <2>1. 1 < 8 /\ 1 + 1 = 2 OBVIOUS
  <2>2. 1 < Len(p) /\ 1 + 1 = 2 BY <1>1, <2>1, Zenon
  <2> QED BY <1>1, <1>2, <2>2, QuotedIs, Zenon DEF KeyAt
<1>6. KeyAt(p, k, 4) <=> j = k
  <2>1. 4 < 8 OBVIOUS
  <2>2. 4 < Len(p) BY <1>1, <2>1, Zenon
  <2>3. p[4 + 1].kind = ":" /\ p[4 - 1].kind \in {"{", ","}
    <3>1. 4 + 1 = 5 /\ 4 - 1 = 3 OBVIOUS
    <3> QED BY <1>2, <3>1
  <2> QED BY <1>1, <2>2, <2>3, QuotedIs, Zenon DEF KeyAt
<1>7. \A i : i \in KeyPositions(p, k) <=> (i = 1 /\ key = k) \/ (i = 4 /\ j = k)
  <2>1. \A i : i \in 1..8 <=> i = 1 \/ i = 2 \/ i = 3 \/ i = 4 \/ i = 5 \/ i = 6 \/ i = 7 \/ i = 8
    OBVIOUS
  <2>2. 1 \in 1..8 /\ 4 \in 1..8 OBVIOUS
  <2> QED BY <1>1, <1>3, <1>4, <1>5, <1>6, <2>1, <2>2, Positions, Zenon
<1>8. CASE key = k
  <2>1. FirstAt(p, k, 1)
    <3>1. 1 <= 1 /\ 1 <= 4 OBVIOUS
    <3>2. 1 \in KeyPositions(p, k) BY <1>7, <1>8, Zenon
    <3>3. \A i \in KeyPositions(p, k) : i = 1 \/ i = 4 BY <1>7, Zenon
    <3>4. \A i \in KeyPositions(p, k) : 1 <= i BY <3>1, <3>3, Zenon
    <3> QED BY <3>2, <3>4, Zenon DEF FirstAt
  <2>2. 1 + 2 = 3 /\ ~(3 > 8) OBVIOUS
  <2> QED BY <1>1, <1>8, <2>1, <2>2, Skimmed, Zenon
<1>9. CASE key # k /\ j = k
  <2>1. FirstAt(p, k, 4)
    <3>1. 4 <= 4 OBVIOUS
    <3>2. 4 \in KeyPositions(p, k) BY <1>7, <1>9, Zenon
    <3>3. \A i \in KeyPositions(p, k) : i = 4 BY <1>7, <1>9, Zenon
    <3>4. \A i \in KeyPositions(p, k) : 4 <= i BY <3>1, <3>3, Zenon
    <3> QED BY <3>2, <3>4, Zenon DEF FirstAt
  <2>2. 4 + 2 = 6 /\ ~(6 > 8) OBVIOUS
  <2> QED BY <1>1, <1>9, <2>1, <2>2, Skimmed, Zenon
<1>10. CASE key # k /\ j # k
  <2>1. KeyPositions(p, k) = {} BY <1>7, <1>10, Zenon
  <2> QED BY <1>1, <1>10, <2>1, Skimmed, Zenon
<1> QED BY <1>8, <1>9, <1>10

-----------------------------------------------------------------------------
(* The first member of a name. *)

Leads == Leaves \cup {Mark("{")}
Plain(key, v) == Member(key, <<v>>, <<>>)
FlatMembers == {Plain(key, v) : key \in Keys, v \in Leaves}
Holder(key, i) == Member(key, <<Mark("{")>> \o MemberTokens(i) \o <<Mark("}")>>, <<i>>)
DeepMembers == {Holder(key, i) : key \in Keys, i \in FlatMembers}
EntryType == FlatMembers \cup DeepMembers

\* The fields of a member with a plain value.
LEMMA FlatOnes ==
  ASSUME NEW m \in FlatMembers
  PROVE  \E key \in Keys, v \in Leaves :
           /\ FlatMember(m, key, v) /\ m.key = key /\ Head(m.value) = v /\ m.inner = <<>>
<1>1. PICK key \in Keys, v \in Leaves : m = Plain(key, v) BY DEF FlatMembers
<1>2. m = Member(key, <<v>>, <<>>) BY <1>1, Zenon DEF Plain
<1>3. FlatMember(m, key, v) BY <1>2, Zenon DEF FlatMember
<1>4. PICK w \in Seq(TokenType) : w = <<v>> /\ Len(w) = 1 /\ w[1] = v
  <2>1. v \in TokenType BY TokenTypes
  <2> QED BY <2>1, Single
<1>5. Member(key, w, <<>>).key = key /\ Member(key, w, <<>>).value = w
  BY MemberFields
<1>6. Member(key, w, <<>>).inner = <<>> BY MemberFields
<1>7. m.key = key /\ m.value = w /\ m.inner = <<>> BY <1>2, <1>4, <1>5, <1>6, Zenon
<1>8. Head(w) = v
  <2>1. w # <<>>
    <3>1. Len(<<>>) = 0 /\ 1 # 0 OBVIOUS
    <3> QED BY <1>4, <3>1, Zenon
  <2> QED BY <1>4, <2>1
<1> QED BY <1>3, <1>7, <1>8, Zenon

\* The fields of a member with a nested object.
LEMMA DeepOnes ==
  ASSUME NEW m \in DeepMembers
  PROVE  \E key \in Keys, j \in Keys, v \in Leaves :
           /\ DeepMember(m, key, j, v) /\ m.inner = <<Member(j, <<v>>, <<>>)>>
           /\ m.key = key /\ Head(m.value) = Mark("{")
<1>1. PICK key \in Keys, i \in FlatMembers : m = Holder(key, i) BY DEF DeepMembers
<1>2. m = Member(key, <<Mark("{")>> \o MemberTokens(i) \o <<Mark("}")>>, <<i>>)
  BY <1>1, Zenon DEF Holder
<1>3. PICK j \in Keys, v \in Leaves : i = Plain(j, v) BY DEF FlatMembers
<1>4. i = Member(j, <<v>>, <<>>) BY <1>3, Zenon DEF Plain
<1>5. DeepMember(m, key, j, v) BY <1>2, <1>4, Zenon DEF DeepMember
<1>6. Mark("}") \in TokenType BY TokenTypes DEF Kinds
<1>7. m.key = key /\ Head(m.value) = Mark("{") BY <1>5, <1>6, DeepTokens
<1>8. m.inner = <<i>>
  <2>1. PICK w : w = <<Mark("{")>> \o MemberTokens(i) \o <<Mark("}")>> OBVIOUS
  <2>2. PICK z : z = <<i>> OBVIOUS
  <2>3. Member(key, w, z).inner = z BY MemberFields
  <2> QED BY <1>2, <2>1, <2>2, <2>3, Zenon
<1> QED BY <1>4, <1>5, <1>7, <1>8, Zenon

\* Every member has a key and a first token of its value.
LEMMA EntriesAre ==
  ASSUME NEW m \in EntryType
  PROVE  m.key \in Keys /\ Head(m.value) \in Leads /\ Head(m.value) # Nothing
<1>1. m.key \in Keys /\ Head(m.value) \in Leads
  <2>1. CASE m \in FlatMembers BY <2>1, FlatOnes DEF Leads
  <2>2. CASE m \in DeepMembers BY <2>2, DeepOnes DEF Leads
  <2> QED BY <2>1, <2>2 DEF EntryType
<1>2. Leads \subseteq TokenType BY TokenTypes DEF Leads, Kinds
<1> QED BY <1>1, <1>2, TokenTypes, Zenon

\* The first of the entries `e` under a key.
At(e, k) == {i \in DOMAIN e : e[i].key = k}
Looked(e, k) == IF At(e, k) = {} THEN Nothing ELSE Head(e[Min(At(e, k))].value)

\* Looked finds the first entry under a key, and nothing when there is none.
LEMMA LookedIs ==
  ASSUME NEW e \in Seq(EntryType), NEW k
  PROVE  /\ (\A i \in 1..Len(e) : e[i].key # k) => Looked(e, k) = Nothing
         /\ \A i \in 1..Len(e) : e[i].key = k /\ (\A j \in 1..Len(e) : e[j].key = k => i <= j)
              => Looked(e, k) = Head(e[i].value)
<1>1. DOMAIN e = 1..Len(e) OBVIOUS
<1>2. \A i : i \in At(e, k) <=> i \in 1..Len(e) /\ e[i].key = k BY <1>1, Zenon DEF At
<1>3. At(e, k) \in SUBSET Nat BY <1>2
<1>4. ASSUME \A i \in 1..Len(e) : e[i].key # k PROVE Looked(e, k) = Nothing
  <2>1. At(e, k) = {} BY <1>2, <1>4, Zenon
  <2> QED BY <2>1, Zenon DEF Looked
<1>5. ASSUME NEW i \in 1..Len(e), e[i].key = k, \A j \in 1..Len(e) : e[j].key = k => i <= j
      PROVE  Looked(e, k) = Head(e[i].value)
  <2>1. i \in At(e, k) /\ \A j \in At(e, k) : i <= j BY <1>2, <1>5, Zenon
  <2>2. Min(At(e, k)) = i BY <1>3, <2>1, MinIs, Zenon
  <2>3. At(e, k) # {} BY <2>1, Zenon
  <2> QED BY <2>2, <2>3, Zenon DEF Looked
<1> QED BY <1>4, <1>5, Zenon

\* When there is an entry under a key, one is the first.
LEMMA FirstOf ==
  ASSUME NEW e \in Seq(EntryType), NEW k, \E i \in 1..Len(e) : e[i].key = k
  PROVE  \E i \in 1..Len(e) : e[i].key = k /\ \A j \in 1..Len(e) : e[j].key = k => i <= j
<1> DEFINE T == {i \in 1..Len(e) : e[i].key = k}
<1>1. T \in SUBSET Nat /\ T # {} OBVIOUS
<1> HIDE DEF T
<1>2. PICK i \in T : \A j \in T : i <= j BY <1>1, LeastOf
<1> QED BY <1>2, Zenon DEF T

\* An entry found before is found again, and of the entries that follow those
\* decide that come first.
LEMMA LookJoin ==
  ASSUME NEW e \in Seq(EntryType), NEW q \in Seq(EntryType), NEW u \in Seq(EntryType),
         Continued(u, e, q, Len(q)), NEW k
  PROVE  Looked(u, k) = IF Looked(e, k) # Nothing THEN Looked(e, k) ELSE Looked(q, k)
<1>1. PICK m \in Nat : m = Len(e) OBVIOUS
<1>2. PICK n \in Nat : n = Len(q) OBVIOUS
<1>3. Len(u) = m + n /\ (\A i \in 1..m : u[i] = e[i]) /\ \A j \in 1..n : u[m + j] = q[j]
  BY <1>1, <1>2, Zenon DEF Continued
<1>4. PICK z \in Nat : z = m + n OBVIOUS
<1>5. Len(u) = z BY <1>3, <1>4, Zenon
<1>6. ASSUME NEW i \in 1..z
      PROVE  i \in 1..m \/ \E j \in 1..n : i = m + j
  <2>1. ASSUME ~(i <= m) PROVE \E j \in 1..n : i = m + j
    <3>1. i - m \in 1..n /\ i = m + (i - m) BY <1>4, <2>1
    <3> QED BY <3>1
  <2> QED BY <2>1
<1>7. CASE \E i \in 1..m : e[i].key = k
  <2>1. PICK i \in 1..m : e[i].key = k /\ \A j \in 1..m : e[j].key = k => i <= j
    BY <1>1, <1>7, FirstOf, Zenon
  <2>2. Looked(e, k) = Head(e[i].value) BY <1>1, <2>1, LookedIs, Zenon
  <2>3. Looked(e, k) # Nothing
    <3>1. e[i] \in EntryType BY <1>1
    <3> QED BY <2>2, <3>1, EntriesAre, Zenon
  <2>4. i \in 1..z /\ u[i] = e[i]
    <3>1. i \in 1..z BY <1>4
    <3> QED BY <1>3, <3>1, Zenon
  <2>5. u[i].key = k BY <2>1, <2>4, Zenon
  <2>6. \A j \in 1..z : u[j].key = k => i <= j
    <3>1. ASSUME NEW j \in 1..z, u[j].key = k PROVE i <= j
      <4>1. CASE j \in 1..m
        <5>1. e[j].key = k BY <1>3, <3>1, <4>1, Zenon
        <5> QED BY <2>1, <4>1, <5>1, Zenon
      <4>2. CASE \E l \in 1..n : j = m + l BY <4>2
      <4> QED BY <1>6, <4>1, <4>2, Zenon
    <3> QED BY <3>1
  <2>7. Looked(u, k) = Head(u[i].value) BY <1>5, <2>5, <2>4, <2>6, LookedIs, Zenon
  <2> QED BY <2>2, <2>3, <2>4, <2>7, Zenon
<1>8. CASE ~(\E i \in 1..m : e[i].key = k)
  <2>1. Looked(e, k) = Nothing BY <1>1, <1>8, LookedIs, Zenon
  <2>2. CASE \E j \in 1..n : q[j].key = k
    <3>1. PICK j \in 1..n : q[j].key = k /\ \A l \in 1..n : q[l].key = k => j <= l
      BY <1>2, <2>2, FirstOf, Zenon
    <3>2. Looked(q, k) = Head(q[j].value) BY <1>2, <3>1, LookedIs, Zenon
    <3>3. PICK i \in 1..z : i = m + j
      <4>1. m + j \in 1..z BY <1>4
      <4> QED BY <4>1
    <3>4. u[i] = q[j] BY <1>3, <3>3, Zenon
    <3>5. u[i].key = k BY <3>1, <3>4, Zenon
    <3>6. \A y \in 1..z : u[y].key = k => i <= y
      <4>1. ASSUME NEW y \in 1..z, u[y].key = k PROVE i <= y
        <5>1. y \notin 1..m BY <1>3, <1>8, <4>1, Zenon
        <5>2. PICK l \in 1..n : y = m + l BY <1>6, <5>1, Zenon
        <5>3. q[l].key = k BY <1>3, <4>1, <5>2, Zenon
        <5>4. j <= l BY <3>1, <5>3, Zenon
        <5> QED BY <3>3, <5>2, <5>4
      <4> QED BY <4>1
    <3>7. Looked(u, k) = Head(u[i].value) BY <1>5, <3>5, <3>6, LookedIs, Zenon
    <3> QED BY <2>1, <3>2, <3>4, <3>7, Zenon
  <2>3. CASE ~(\E j \in 1..n : q[j].key = k)
    <3>1. Looked(q, k) = Nothing BY <1>2, <2>3, LookedIs, Zenon
    <3>2. \A y \in 1..z : u[y].key # k BY <1>3, <1>6, <1>8, <2>3, Zenon
    <3>3. Looked(u, k) = Nothing BY <1>5, <3>2, LookedIs, Zenon
    <3> QED BY <2>1, <3>1, <3>3, Zenon
  <2> QED BY <2>2, <2>3
<1> QED BY <1>7, <1>8

EntryPiece(m) == <<m>> \o m.inner
Piece(m, x) == Plus(MemberTokens(m), <<x>>)

\* The entries of a member with a plain value: itself.
LEMMA FlatLook ==
  ASSUME NEW m \in FlatMembers, NEW k
  PROVE  /\ EntryPiece(m) \in Seq(EntryType)
         /\ Looked(EntryPiece(m), k) = IF m.key = k THEN Head(m.value) ELSE Nothing
<1>1. m \in EntryType /\ m.inner = <<>> BY FlatOnes DEF EntryType
<1>2. PICK h \in Seq(EntryType) : h = <<m>> /\ Len(h) = 1 /\ h[1] = m BY <1>1, Single
<1>3. PICK z \in Seq(EntryType) : z = <<>> /\ Len(z) = 0
  <2>1. <<>> \in Seq(EntryType) /\ Len(<<>>) = 0 OBVIOUS
  <2> QED BY <2>1, Zenon
<1>4. PICK q \in Seq(EntryType) : q = Plus(h, z) /\ Continued(q, h, z, Len(z)) BY JoinedBytes, Zenon
<1>5. EntryPiece(m) = q BY <1>1, <1>2, <1>3, <1>4, Zenon DEF EntryPiece, Plus
<1>6. Len(q) = 1 /\ q[1] = m
  <2>1. Len(q) = 1 + 0 /\ \A i \in 1..1 : q[i] = h[i] BY <1>2, <1>3, <1>4, Zenon DEF Continued
  <2>2. 1 + 0 = 1 /\ 1 \in 1..1 OBVIOUS
  <2> QED BY <1>2, <2>1, <2>2, Zenon
<1>7. Looked(q, k) = IF m.key = k THEN Head(m.value) ELSE Nothing
  <2>1. 1 \in 1..1 /\ 1 <= 1 /\ \A i \in 1..1 : i = 1 OBVIOUS
  <2>2. CASE m.key = k
    <3>1. \A j \in 1..1 : q[j].key = k => 1 <= j BY <2>1, Zenon
    <3>2. q[1].key = k BY <1>6, <2>2, Zenon
    <3>3. Looked(q, k) = Head(q[1].value) BY <1>6, <2>1, <3>1, <3>2, LookedIs, Zenon
    <3> QED BY <1>6, <2>2, <3>3, Zenon
  <2>3. CASE m.key # k
    <3>1. \A j \in 1..1 : q[j].key # k BY <1>6, <2>1, <2>3, Zenon
    <3>2. Looked(q, k) = Nothing BY <1>6, <3>1, LookedIs, Zenon
    <3> QED BY <2>3, <3>2, Zenon
  <2> QED BY <2>2, <2>3
<1> QED BY <1>5, <1>7, Zenon

DeepEntry(m, key, j, v) ==
  m.inner = <<Member(j, <<v>>, <<>>)>> /\ m.key = key /\ Head(m.value) = Mark("{")

\* The entries of a member with a nested object: itself, then the inner one.
LEMMA DeepLook ==
  ASSUME NEW m \in DeepMembers, NEW key \in Keys, NEW j \in Keys, NEW v \in Leaves,
         DeepEntry(m, key, j, v), NEW k
  PROVE  /\ EntryPiece(m) \in Seq(EntryType)
         /\ Looked(EntryPiece(m), k) =
              IF key = k THEN Mark("{") ELSE IF j = k THEN v ELSE Nothing
<1>1. PICK i : i = Member(j, <<v>>, <<>>) OBVIOUS
<1>2. i \in FlatMembers
  <2>1. i = Plain(j, v) BY <1>1, Zenon DEF Plain
  <2> QED BY <2>1 DEF FlatMembers
<1>3. m \in EntryType /\ i \in EntryType BY <1>2 DEF EntryType
<1>4. i.key = j /\ Head(i.value) = v
  <2>1. v \in TokenType BY TokenTypes
  <2>2. PICK w \in Seq(TokenType) : w = <<v>> /\ Len(w) = 1 /\ w[1] = v BY <2>1, Single
  <2>3. Member(j, w, <<>>).key = j /\ Member(j, w, <<>>).value = w BY MemberFields
  <2>4. Head(w) = v
    <3>1. w # <<>>
      <4>1. Len(<<>>) = 0 /\ 1 # 0 OBVIOUS
      <4> QED BY <2>2, <4>1, Zenon
    <3> QED BY <2>2, <3>1
  <2> QED BY <1>1, <2>2, <2>3, <2>4, Zenon
<1>5. PICK h \in Seq(EntryType) : h = <<m>> /\ Len(h) = 1 /\ h[1] = m BY <1>3, Single
<1>6. PICK q \in Seq(EntryType) : /\ q = Plus(h, <<i>>) /\ Len(q) = Len(h) + 1
                                  /\ \A l \in 1..Len(h) : q[l] = h[l]
                                  /\ q[Len(h) + 1] = i
  BY <1>3, OneMore
<1>7. EntryPiece(m) = q BY <1>1, <1>5, <1>6, Zenon DEF DeepEntry, EntryPiece, Plus
<1>8. Len(q) = 2 /\ q[1] = m /\ q[2] = i
  <2>1. 1 + 1 = 2 /\ 1 \in 1..1 OBVIOUS
  <2> QED BY <1>5, <1>6, <2>1, Zenon
<1>9. q[1].key = key /\ Head(q[1].value) = Mark("{") /\ q[2].key = j /\ Head(q[2].value) = v
  BY <1>4, <1>8, Zenon DEF DeepEntry
<1>10. 1 \in 1..2 /\ 2 \in 1..2 /\ 1 <= 1 /\ 1 <= 2 /\ 2 <= 2 /\ \A l \in 1..2 : l = 1 \/ l = 2
  OBVIOUS
<1>11. Looked(q, k) = IF key = k THEN Mark("{") ELSE IF j = k THEN v ELSE Nothing
  <2>1. CASE key = k
    <3>1. \A l \in 1..2 : q[l].key = k => 1 <= l BY <1>10, Zenon
    <3>2. q[1].key = k BY <1>9, <2>1, Zenon
    <3>3. Looked(q, k) = Head(q[1].value) BY <1>8, <1>10, <3>1, <3>2, LookedIs, Zenon
    <3> QED BY <1>9, <2>1, <3>3, Zenon
  <2>2. CASE key # k /\ j = k
    <3>1. \A l \in 1..2 : q[l].key = k => 2 <= l BY <1>9, <1>10, <2>2, Zenon
    <3>2. q[2].key = k BY <1>9, <2>2, Zenon
    <3>3. Looked(q, k) = Head(q[2].value) BY <1>8, <1>10, <3>1, <3>2, LookedIs, Zenon
    <3> QED BY <1>9, <2>2, <3>3, Zenon
  <2>3. CASE key # k /\ j # k
    <3>1. \A l \in 1..2 : q[l].key # k BY <1>9, <1>10, <2>3, Zenon
    <3>2. Looked(q, k) = Nothing BY <1>8, <3>1, LookedIs, Zenon
    <3> QED BY <2>3, <3>2, Zenon
  <2> QED BY <2>1, <2>2, <2>3
<1> QED BY <1>7, <1>11, Zenon

\* In the tokens of one member the scanner finds what the member holds first
\* under the key.
LEMMA PieceScan ==
  ASSUME NEW m \in EntryType, NEW x \in TokenType, x.kind # "string", NEW k \in Seq(Chars)
  PROVE  /\ Piece(m, x) \in Seq(TokenType) /\ Len(Piece(m, x)) > 0
         /\ Piece(m, x)[Len(Piece(m, x))] = x
         /\ EntryPiece(m) \in Seq(EntryType)
         /\ value_for_key(Piece(m, x), k) = Looked(EntryPiece(m), k)
<1>1. CASE m \in FlatMembers
  <2>1. PICK key \in Keys, v \in Leaves :
          FlatMember(m, key, v) /\ m.key = key /\ Head(m.value) = v
    BY <1>1, FlatOnes, Zenon
  <2>2. PICK p : p = Piece(m, x) OBVIOUS
  <2>3. FlatPiece(p, key, v, x) BY <2>1, <2>2, FlatTokens, Zenon DEF Piece
  <2>4. key \in Seq(Chars) /\ v \in TokenType BY KeysAre, TokenTypes, Zenon
  <2>5. value_for_key(p, k) = IF key = k THEN v ELSE Nothing BY <2>3, <2>4, FlatScan, Zenon
  <2>6. p \in Seq(TokenType) /\ Len(p) = 4 /\ p[4] = x BY <2>3, Zenon DEF FlatPiece
  <2>7. 4 > 0 OBVIOUS
  <2> QED BY <1>1, <2>1, <2>2, <2>5, <2>6, <2>7, FlatLook, Zenon
<1>2. CASE m \in DeepMembers
  <2>1. PICK key \in Keys, j \in Keys, v \in Leaves :
          DeepMember(m, key, j, v) /\ DeepEntry(m, key, j, v)
    BY <1>2, DeepOnes, Zenon DEF DeepEntry
  <2>2. PICK p : p = Piece(m, x) OBVIOUS
  <2>3. DeepPiece(p, key, j, v, x) BY <2>1, <2>2, DeepTokens, Zenon DEF Piece
  <2>4. key \in Seq(Chars) /\ j \in Seq(Chars) /\ v \in TokenType BY KeysAre, TokenTypes, Zenon
  <2>5. value_for_key(p, k) = IF key = k THEN Mark("{") ELSE IF j = k THEN v ELSE Nothing
    BY <2>3, <2>4, DeepScan, Zenon
  <2>6. p \in Seq(TokenType) /\ Len(p) = 8 /\ p[8] = x BY <2>3, Zenon DEF DeepPiece
  <2>7. 8 > 0 OBVIOUS
  <2>8. /\ EntryPiece(m) \in Seq(EntryType)
        /\ Looked(EntryPiece(m), k) = IF key = k THEN Mark("{") ELSE IF j = k THEN v ELSE Nothing
    BY <1>2, <2>1, DeepLook, Zenon
  <2> QED BY <2>2, <2>5, <2>6, <2>7, <2>8, Zenon
<1> QED BY <1>1, <1>2, Zenon DEF EntryType

-----------------------------------------------------------------------------
(* The scanner finds the first member of a name in the whole document. *)

Closing(d, i) == Mark(IF i < Len(d) THEN "," ELSE "}")

\* After a member comes a comma, after the last one a brace.
LEMMA Closings ==
  ASSUME NEW d, NEW i
  PROVE  /\ Closing(d, i) \in TokenType /\ Closing(d, i).kind # "string"
         /\ i < Len(d) => Closing(d, i).kind = ","
<1>1. /\ Mark(",") \in TokenType /\ Mark(",").kind = ","
      /\ Mark("}") \in TokenType /\ Mark("}").kind = "}"
  BY TokenTypes DEF Kinds
<1>2. "," # "string" /\ "}" # "string" OBVIOUS
<1> QED BY <1>1, <1>2, Zenon DEF Closing

\* Joining keeps the type and is associative.
LEMMA PlusIn ==
  ASSUME NEW S, NEW u \in Seq(S), NEW v \in Seq(S), NEW w \in Seq(S)
  PROVE  Plus(u, v) \in Seq(S) /\ Plus(Plus(u, v), w) = Plus(u, Plus(v, w))
  BY ConcatAssociative DEF Plus

\* Member by member, scanner and lookup agree on what has been seen so far, and so
\* on the document.
LEMMA DocumentScan ==
  ASSUME NEW d \in Seq(EntryType)
  PROVE  /\ Tokens(d) \in Seq(TokenType)
         /\ Entries(d) \in Seq(EntryType)
         /\ \A k \in Seq(Chars) : value_for_key(Tokens(d), k) = Looked(Entries(d), k)
<1>1. PICK n \in Nat : n = Len(d) OBVIOUS
<1>2. DOMAIN d = 1..n /\ \A i \in 1..n : d[i] \in EntryType BY <1>1
<1>3. PICK ps : ps = [i \in 1..n |-> Piece(d[i], Closing(d, i))] OBVIOUS
<1>4. PICK es : es = [i \in 1..n |-> EntryPiece(d[i])] OBVIOUS
<1>5. ps \in Seq(Seq(TokenType)) /\ Len(ps) = n
  <2>1. \A i \in 1..n : Piece(d[i], Closing(d, i)) \in Seq(TokenType)
    BY <1>2, Closings, KeysAre, PieceScan, Zenon
  <2> QED BY <1>3, <2>1
<1>6. es \in Seq(Seq(EntryType)) /\ Len(es) = n
  <2>1. \A i \in 1..n : EntryPiece(d[i]) \in Seq(EntryType)
    BY <1>2, Closings, KeysAre, PieceScan, Zenon
  <2> QED BY <1>4, <2>1
<1>7. PICK F \in [0..n -> Seq(TokenType)] : Chained(F, n, ps) /\ FlattenSeq(ps) = F[n]
  BY <1>5, FlattenSteps
<1>8. PICK G \in [0..n -> Seq(EntryType)] : Chained(G, n, es) /\ FlattenSeq(es) = G[n]
  BY <1>6, FlattenSteps
<1>9. PICK h \in Seq(TokenType) : h = <<Mark("{")>> /\ Len(h) = 1 /\ h[1] = Mark("{")
  <2>1. Mark("{") \in TokenType BY TokenTypes DEF Kinds
  <2> QED BY <2>1, Single
<1>10. Tokens(d) = Plus(h, F[n])
  BY <1>2, <1>3, <1>7, <1>9, Zenon DEF Tokens, Piece, Closing, Plus
<1>11. Entries(d) = G[n] BY <1>2, <1>4, <1>8, Zenon DEF Entries, EntryPiece
<1>12. 0 \in 0..n /\ n \in 0..n OBVIOUS
<1>13. \A i \in 0..n : F[i] \in Seq(TokenType) /\ G[i] \in Seq(EntryType) OBVIOUS
<1> DEFINE T == {i \in 0..n :
                   /\ i < n => Open(Plus(h, F[i]))
                   /\ \A k \in Seq(Chars) : value_for_key(Plus(h, F[i]), k) = Looked(G[i], k)}
<1>14. 0 \in T
  <2>1. F[0] = <<>> /\ G[0] = <<>> BY <1>7, <1>8, Zenon DEF Chained
  <2>2. Plus(h, <<>>) = h BY DEF Plus
  <2>3. Open(h)
    <3>1. Mark("{").kind \in {"{", ","} BY MarkKinds
    <3>2. 1 > 0 OBVIOUS
    <3> QED BY <1>9, <3>1, <3>2, Zenon DEF Open
  <2>4. \A k \in Seq(Chars) : value_for_key(h, k) = Nothing
    <3>1. ASSUME NEW k \in Seq(Chars) PROVE value_for_key(h, k) = Nothing
      <4>1. \A i \in 1..1 : ~KeyAt(h, k, i)
        <5>1. \A i \in 1..1 : ~(i < 1) OBVIOUS
        <5> QED BY <1>9, <5>1, Zenon DEF KeyAt
      <4>2. KeyPositions(h, k) = {} BY <1>9, <4>1, Positions, Zenon
      <4> QED BY <4>2, Skimmed, Zenon
    <3> QED BY <3>1
  <2>5. \A k \in Seq(Chars) : Looked(<<>>, k) = Nothing
    <3>1. <<>> \in Seq(EntryType) /\ \A i \in 1..Len(<<>>) : FALSE OBVIOUS
    <3> QED BY <3>1, LookedIs, Zenon
  <2> QED BY <1>12, <2>1, <2>2, <2>3, <2>4, <2>5, Zenon
<1>15. ASSUME NEW i \in 0..(n - 1), i \in T PROVE i + 1 \in T
  <2>1. i \in 0..n /\ i + 1 \in 0..n /\ i + 1 \in 1..n /\ (i + 1) - 1 = i /\ i < n BY <1>1
  <2>2. PICK m \in EntryType : m = d[i + 1] BY <1>2, <2>1
  <2>3. PICK x \in TokenType : x = Closing(d, i + 1) /\ x.kind # "string"
                               /\ (i + 1 < n => x.kind = ",")
    BY <1>1, Closings, Zenon
  <2>4. PICK p \in Seq(TokenType) : /\ p = Piece(m, x) /\ Len(p) > 0 /\ p[Len(p)] = x
    BY <2>3, KeysAre, PieceScan, Zenon
  <2>5. PICK q \in Seq(EntryType) : q = EntryPiece(m) BY <2>3, KeysAre, PieceScan, Zenon
  <2>6. \A k \in Seq(Chars) : value_for_key(p, k) = Looked(q, k)
    BY <2>3, <2>4, <2>5, PieceScan, Zenon
  <2>7. ps[i + 1] = p /\ es[i + 1] = q BY <1>3, <1>4, <2>1, <2>2, <2>3, <2>4, <2>5, Zenon
  <2>8. PICK t \in Seq(TokenType) : t = Plus(h, F[i]) BY <1>13, <2>1, PlusIn, Zenon
  <2>9. PICK e \in Seq(EntryType) : e = G[i] BY <1>13, <2>1
  <2>10. PICK u \in Seq(TokenType) : u = Plus(t, p) /\ Continued(u, t, p, Len(p))
    BY JoinedBytes, Zenon
  <2>11. PICK w \in Seq(EntryType) : w = Plus(e, q) /\ Continued(w, e, q, Len(q))
    BY JoinedBytes, Zenon
  <2>12. F[i + 1] = Plus(F[i], p)
    <3>1. F[i + 1] = Plus(F[(i + 1) - 1], ps[i + 1]) BY <1>7, <2>1, Zenon DEF Chained
    <3> QED BY <2>1, <2>7, <3>1, Zenon
  <2>13. G[i + 1] = w
    <3>1. G[i + 1] = Plus(G[(i + 1) - 1], es[i + 1]) BY <1>8, <2>1, Zenon DEF Chained
    <3> QED BY <2>1, <2>7, <2>9, <2>11, <3>1, Zenon
  <2>14. Plus(h, F[i + 1]) = u
    <3>1. F[i] \in Seq(TokenType) BY <1>13, <2>1, Zenon
    <3>2. Plus(Plus(h, F[i]), p) = Plus(h, Plus(F[i], p)) BY <3>1, PlusIn
    <3> QED BY <2>8, <2>10, <2>12, <3>2, Zenon
  <2>15. Open(t) /\ \A k \in Seq(Chars) : value_for_key(t, k) = Looked(e, k)
    BY <1>15, <2>1, <2>8, <2>9, Zenon
  <2>16. \A k \in Seq(Chars) : value_for_key(u, k) = Looked(w, k)
    <3>1. ASSUME NEW k \in Seq(Chars) PROVE value_for_key(u, k) = Looked(w, k)
      <4>1. Open(t) /\ Continued(u, t, p, Len(p)) BY <2>10, <2>15, Zenon
      <4>2. Continued(w, e, q, Len(q)) BY <2>11, Zenon
      <4>3. value_for_key(u, k) =
              IF value_for_key(t, k) # Nothing THEN value_for_key(t, k) ELSE value_for_key(p, k)
        BY <4>1, SkimJoin
      <4>4. Looked(w, k) = IF Looked(e, k) # Nothing THEN Looked(e, k) ELSE Looked(q, k)
        BY <4>2, LookJoin
      <4> QED BY <2>6, <2>15, <4>3, <4>4, Zenon
    <3> QED BY <3>1
  <2>17. ASSUME i + 1 < n PROVE Open(u)
    <3>1. x.kind \in {"{", ","} BY <2>3, <2>17
    <3>2. PICK a \in Nat : a = Len(t) BY <2>8
    <3>3. PICK b \in Nat : b = Len(p) BY <2>4
    <3>4. b > 0 /\ p[b] = x BY <2>4, <3>3, Zenon
    <3>5. Len(u) = a + b /\ \A j \in 1..b : u[a + j] = p[j]
      BY <2>10, <3>2, <3>3, Zenon DEF Continued
    <3>6. b \in 1..b /\ a + b > 0
      <4>1. b > 0 BY <3>4, Zenon
      <4> QED BY <4>1
    <3>7. u[Len(u)] = x BY <3>4, <3>5, <3>6, Zenon
    <3> QED BY <3>1, <3>5, <3>6, <3>7, Zenon DEF Open
  <2> QED BY <2>1, <2>13, <2>14, <2>16, <2>17, Zenon
<1>16. n \in T
  <2>1. \A i \in 0..(n - 1) : i \in T => i + 1 \in T BY <1>15
  <2> HIDE DEF T
  <2>2. \A i \in 0..n : i \in T BY <1>14, <2>1, UpTo
  <2> QED BY <2>2
<1>17. \A k \in Seq(Chars) : value_for_key(Plus(h, F[n]), k) = Looked(G[n], k)
  BY <1>16, Zenon
<1>18. Plus(h, F[n]) \in Seq(TokenType) /\ G[n] \in Seq(EntryType) BY <1>12, <1>13, PlusIn, Zenon
<1> QED BY <1>10, <1>11, <1>17, <1>18, Zenon

-----------------------------------------------------------------------------
(* When the two programs write a string alike. *)

HasEscape(u) == \E i \in 1..Len(u) : u[i] = BACKSLASH

\* A backslash is in what is joined when it is in one of the parts.
LEMMA PlusEscape ==
  ASSUME NEW u \in Seq(Digit), NEW v \in Seq(Digit)
  PROVE  /\ HasEscape(Plus(u, v)) <=> HasEscape(u) \/ HasEscape(v)
         /\ Len(Plus(u, v)) = Len(u) + Len(v)
<1>1. PICK t \in Seq(Digit) : t = Plus(u, v) /\ Continued(t, u, v, Len(v)) BY JoinedBytes, Zenon
<1>2. PICK m \in Nat : m = Len(u) OBVIOUS
<1>3. PICK n \in Nat : n = Len(v) OBVIOUS
<1>4. Len(t) = m + n /\ (\A i \in 1..m : t[i] = u[i]) /\ \A j \in 1..n : t[m + j] = v[j]
  BY <1>1, <1>2, <1>3, Zenon DEF Continued
<1>5. ASSUME NEW i \in 1..m, u[i] = BACKSLASH PROVE HasEscape(t)
  <2>1. i \in 1..(m + n) OBVIOUS
  <2> QED BY <1>4, <1>5, <2>1, Zenon DEF HasEscape
<1>6. ASSUME NEW j \in 1..n, v[j] = BACKSLASH PROVE HasEscape(t)
  <2>1. m + j \in 1..(m + n) OBVIOUS
  <2> QED BY <1>4, <1>6, <2>1, Zenon DEF HasEscape
<1>7. ASSUME NEW i \in 1..(m + n), t[i] = BACKSLASH PROVE HasEscape(u) \/ HasEscape(v)
  <2>1. CASE i \in 1..m BY <1>2, <1>4, <1>7, <2>1, Zenon DEF HasEscape
  <2>2. CASE i \notin 1..m
    <3>1. PICK j \in 1..n : i = m + j
      <4>1. i - m \in 1..n /\ i = m + (i - m) BY <2>2
      <4> QED BY <4>1
    <3> QED BY <1>3, <1>4, <1>7, <3>1, Zenon DEF HasEscape
  <2> QED BY <2>1, <2>2
<1>8. HasEscape(t) => HasEscape(u) \/ HasEscape(v) BY <1>4, <1>7, Zenon DEF HasEscape
<1>9. HasEscape(u) \/ HasEscape(v) => HasEscape(t) BY <1>2, <1>3, <1>5, <1>6, Zenon DEF HasEscape
<1>10. Len(t) = Len(u) + Len(v) BY <1>2, <1>3, <1>4, Zenon
<1> QED BY <1>1, <1>8, <1>9, <1>10, Zenon

\* One byte is a backslash or has none.
LEMMA OneEscape ==
  ASSUME NEW x \in 0..5
  PROVE  <<x>> \in Seq(Digit) /\ Len(<<x>>) = 1 /\ (HasEscape(<<x>>) <=> x = BACKSLASH)
<1>1. x \in Digit BY DigitsNat DEF Digit
<1>2. PICK h \in Seq(Digit) : h = <<x>> /\ Len(h) = 1 /\ h[1] = x BY <1>1, Single
<1>3. \A i : i \in 1..1 <=> i = 1 OBVIOUS
<1>4. HasEscape(h) <=> x = BACKSLASH BY <1>2, <1>3, Zenon DEF HasEscape
<1> QED BY <1>2, <1>4, Zenon

\* The characters, each as both programs write it.
LEMMA CharBytes ==
  /\ \A c \in Chars :
       /\ UnescapedChar(c) \in Seq(Digit) /\ RawChar(c) \in Seq(Digit)
       /\ ~HasEscape(UnescapedChar(c)) /\ (HasEscape(RawChar(c)) <=> c = "nl")
       /\ Len(UnescapedChar(c)) \in Nat /\ Len(RawChar(c)) \in Nat
  /\ \A c \in {"n", "s"} : UnescapedChar(c) = RawChar(c)
  /\ Len(RawChar("wide")) < Len(UnescapedChar("wide"))
<1>1. CHAR.n = <<0>> /\ CHAR.s = <<1>> /\ CHAR.nl = <<4>> BY DEF CHAR
<1>2. /\ CHAR.n \in Seq(Digit) /\ ~HasEscape(CHAR.n)
      /\ CHAR.s \in Seq(Digit) /\ ~HasEscape(CHAR.s)
      /\ CHAR.nl \in Seq(Digit) /\ ~HasEscape(CHAR.nl)
      /\ <<BACKSLASH>> \in Seq(Digit) /\ HasEscape(<<BACKSLASH>>)
  <2>1. 0 \in 0..5 /\ 1 \in 0..5 /\ 4 \in 0..5 /\ BACKSLASH \in 0..5
        /\ 0 # BACKSLASH /\ 1 # BACKSLASH /\ 4 # BACKSLASH
    BY DEF BACKSLASH
  <2> QED BY <1>1, <2>1, OneEscape, Zenon
<1>3. /\ CHAR.wide \in Seq(Digit) /\ ~HasEscape(CHAR.wide) /\ Len(CHAR.wide) = 2
  <2>1. /\ LEAD \in 0..5 /\ CONT \in 0..5 /\ LEAD # BACKSLASH /\ CONT # BACKSLASH
    BY DEF LEAD, CONT, BACKSLASH
  <2>2. LEAD \in Digit /\ CONT \in Digit BY <2>1, DigitsNat DEF Digit
  <2>3. PICK h \in Seq(Digit) : h = <<LEAD, CONT>> /\ Len(h) = 2 /\ h[1] = LEAD /\ h[2] = CONT
    BY <2>2, Pair
  <2>4. \A i : i \in 1..2 <=> i = 1 \/ i = 2 OBVIOUS
  <2>5. ~HasEscape(h) BY <2>1, <2>3, <2>4, Zenon DEF HasEscape
  <2>6. CHAR.wide = <<LEAD, CONT>> BY DEF CHAR
  <2> QED BY <2>3, <2>5, <2>6, Zenon
<1>4. UnescapedChar("wide") = Plus(CHAR.wide, CHAR.wide) BY Zenon DEF UnescapedChar, Plus
<1>5. RawChar("nl") = Plus(<<BACKSLASH>>, CHAR.n) BY Zenon DEF RawChar, Plus
<1>6. /\ UnescapedChar("n") = CHAR.n /\ RawChar("n") = CHAR.n
      /\ UnescapedChar("s") = CHAR.s /\ RawChar("s") = CHAR.s
      /\ UnescapedChar("nl") = CHAR.nl /\ RawChar("wide") = CHAR.wide
  <2>1. "n" # "nl" /\ "n" # "wide" /\ "s" # "nl" /\ "s" # "wide" /\ "nl" # "wide" OBVIOUS
  <2>2. CHAR["n"] = CHAR.n /\ CHAR["s"] = CHAR.s /\ CHAR["nl"] = CHAR.nl /\ CHAR["wide"] = CHAR.wide
    OBVIOUS
  <2> QED BY <2>1, <2>2, Zenon DEF UnescapedChar, RawChar
<1>7. /\ UnescapedChar("wide") \in Seq(Digit) /\ ~HasEscape(UnescapedChar("wide"))
      /\ Len(UnescapedChar("wide")) = 2 + 2
  <2>1. PICK u \in Seq(Digit) : u = CHAR.wide BY <1>3
  <2>2. Plus(u, u) \in Seq(Digit) BY PlusIn
  <2>3. (HasEscape(Plus(u, u)) <=> HasEscape(u) \/ HasEscape(u)) /\ Len(Plus(u, u)) = Len(u) + Len(u)
    BY PlusEscape
  <2> QED BY <1>3, <1>4, <2>1, <2>2, <2>3, Zenon
<1>8. RawChar("nl") \in Seq(Digit) /\ HasEscape(RawChar("nl"))
  <2>1. PICK u \in Seq(Digit) : u = <<BACKSLASH>> BY <1>2, Zenon
  <2>2. PICK v \in Seq(Digit) : v = CHAR.n BY <1>2
  <2>3. Plus(u, v) \in Seq(Digit) BY PlusIn
  <2>4. HasEscape(Plus(u, v)) <=> HasEscape(u) \/ HasEscape(v) BY PlusEscape
  <2> QED BY <1>2, <1>5, <2>1, <2>2, <2>3, <2>4, Zenon
<1>9. \A c \in Chars : c = "n" \/ c = "s" \/ c = "nl" \/ c = "wide" BY DEF Chars
<1>10. "n" # "nl" /\ "s" # "nl" /\ "wide" # "nl" OBVIOUS
<1>11. \A c \in Chars :
       /\ UnescapedChar(c) \in Seq(Digit) /\ RawChar(c) \in Seq(Digit)
       /\ ~HasEscape(UnescapedChar(c)) /\ (HasEscape(RawChar(c)) <=> c = "nl")
  BY <1>2, <1>3, <1>6, <1>7, <1>8, <1>9, <1>10, Zenon
<1>12. \A u \in Seq(Digit) : Len(u) \in Nat OBVIOUS
<1>13. \A c \in {"n", "s"} : UnescapedChar(c) = RawChar(c) BY <1>6, Zenon
<1>14. 2 < 2 + 2 OBVIOUS
<1>15. Len(RawChar("wide")) < Len(UnescapedChar("wide")) BY <1>3, <1>6, <1>7, <1>14, Zenon
<1> QED BY <1>11, <1>12, <1>13, <1>15, Zenon

\* Raw keeps the backslash that Unescaped drops, and Unescaped writes a wide
\* character longer than Raw: strings are written alike only without either.
LEMMA WrittenAlike ==
  ASSUME NEW s \in Seq(Chars)
  PROVE  Raw(s) = Unescaped(s) <=> \A i \in DOMAIN s : s[i] \in {"n", "s"}
<1>1. PICK n \in Nat : n = Len(s) OBVIOUS
<1>2. DOMAIN s = 1..n /\ \A i \in 1..n : s[i] \in Chars BY <1>1
<1>3. PICK uu : uu = [i \in 1..n |-> UnescapedChar(s[i])] OBVIOUS
<1>4. PICK rr : rr = [i \in 1..n |-> RawChar(s[i])] OBVIOUS
<1>5. Unescaped(s) = FlattenSeq(uu) BY <1>2, <1>3, Zenon DEF Unescaped, UnescapedChar
<1>6. Raw(s) = FlattenSeq(rr) BY <1>2, <1>4, Zenon DEF Raw, RawChar
<1>7. uu \in Seq(Seq(Digit)) /\ Len(uu) = n
  <2>1. \A i \in 1..n : UnescapedChar(s[i]) \in Seq(Digit) BY <1>2, CharBytes, Zenon
  <2> QED BY <1>3, <2>1
<1>8. rr \in Seq(Seq(Digit)) /\ Len(rr) = n
  <2>1. \A i \in 1..n : RawChar(s[i]) \in Seq(Digit) BY <1>2, CharBytes, Zenon
  <2> QED BY <1>4, <2>1
<1>9. PICK F \in [0..n -> Seq(Digit)] : Chained(F, n, rr) /\ FlattenSeq(rr) = F[n]
  BY <1>8, FlattenSteps
<1>10. PICK G \in [0..n -> Seq(Digit)] : Chained(G, n, uu) /\ FlattenSeq(uu) = G[n]
  BY <1>7, FlattenSteps
<1>11. F[0] = <<>> /\ G[0] = <<>> BY <1>9, <1>10, Zenon DEF Chained
<1>12. ASSUME NEW i \in 0..(n - 1)
       PROVE  /\ i \in 0..n /\ i + 1 \in 0..n /\ i + 1 \in 1..n /\ s[i + 1] \in Chars
              /\ F[i] \in Seq(Digit) /\ G[i] \in Seq(Digit)
              /\ F[i + 1] = Plus(F[i], RawChar(s[i + 1]))
              /\ G[i + 1] = Plus(G[i], UnescapedChar(s[i + 1]))
  <2>1. i \in 0..n /\ i + 1 \in 0..n /\ i + 1 \in 1..n /\ (i + 1) - 1 = i OBVIOUS
  <2>2. s[i + 1] \in Chars BY <1>2, <2>1, Zenon
  <2>3. F[i] \in Seq(Digit) /\ G[i] \in Seq(Digit) BY <2>1
  <2>4. rr[i + 1] = RawChar(s[i + 1]) /\ uu[i + 1] = UnescapedChar(s[i + 1])
    BY <1>3, <1>4, <2>1, Zenon
  <2>5. F[i + 1] = Plus(F[(i + 1) - 1], rr[i + 1]) /\ G[i + 1] = Plus(G[(i + 1) - 1], uu[i + 1])
    BY <1>9, <1>10, <2>1, Zenon DEF Chained
  <2> QED BY <2>1, <2>2, <2>3, <2>4, <2>5, Zenon
<1>13. ~HasEscape(<<>>) /\ Len(<<>>) = 0
  <2>1. Len(<<>>) = 0 /\ \A i \in 1..0 : FALSE OBVIOUS
  <2> QED BY <2>1, Zenon DEF HasEscape
<1>14. 0 \in 0..n /\ n \in 0..n OBVIOUS
<1>15. ~HasEscape(G[n])
  <2> DEFINE T == {i \in 0..n : ~HasEscape(G[i])}
  <2>1. 0 \in T BY <1>11, <1>13, <1>14, Zenon
  <2>2. ASSUME NEW i \in 0..(n - 1), i \in T PROVE i + 1 \in T
    <3>1. ~HasEscape(UnescapedChar(s[i + 1])) /\ UnescapedChar(s[i + 1]) \in Seq(Digit)
      BY <1>12, CharBytes, Zenon
    <3>2. PICK g \in Seq(Digit) : g = G[i] BY <1>12
    <3>3. PICK v \in Seq(Digit) : v = UnescapedChar(s[i + 1]) BY <3>1
    <3>4. HasEscape(Plus(g, v)) <=> HasEscape(g) \/ HasEscape(v) BY PlusEscape
    <3>5. ~HasEscape(G[i + 1]) BY <1>12, <2>2, <3>1, <3>2, <3>3, <3>4, Zenon
    <3> QED BY <1>12, <3>5, Zenon
  <2>3. n \in T
    <3>1. \A i \in 0..(n - 1) : i \in T => i + 1 \in T BY <2>2
    <3> HIDE DEF T
    <3>2. \A i \in 0..n : i \in T BY <2>1, <3>1, UpTo
    <3> QED BY <3>2
  <2> QED BY <2>3, Zenon
<1>16. ASSUME NEW x \in 1..n, s[x] = "nl" PROVE HasEscape(F[n])
  <2> DEFINE T == {i \in 0..n : x <= i => HasEscape(F[i])}
  <2>1. 0 \in T
    <3>1. ~(x <= 0) OBVIOUS
    <3> QED BY <1>14, <3>1, Zenon
  <2>2. ASSUME NEW i \in 0..(n - 1), i \in T PROVE i + 1 \in T
    <3>1. RawChar(s[i + 1]) \in Seq(Digit) BY <1>12, CharBytes, Zenon
    <3>2. PICK g \in Seq(Digit) : g = F[i] BY <1>12
    <3>3. PICK v \in Seq(Digit) : v = RawChar(s[i + 1]) BY <3>1
    <3>4. HasEscape(Plus(g, v)) <=> HasEscape(g) \/ HasEscape(v) BY PlusEscape
    <3>5. CASE x <= i BY <1>12, <2>2, <3>5, <3>2, <3>3, <3>4, Zenon
    <3>6. CASE x = i + 1
      <4>1. HasEscape(RawChar(s[i + 1])) BY <1>12, <1>16, <3>6, CharBytes, Zenon
      <4> QED BY <1>12, <3>2, <3>3, <3>4, <4>1, Zenon
    <3>7. CASE ~(x <= i + 1) BY <1>12, <3>7, Zenon
    <3>8. x <= i \/ x = i + 1 \/ ~(x <= i + 1) OBVIOUS
    <3> QED BY <3>5, <3>6, <3>7, <3>8, Zenon
  <2>3. n \in T
    <3>1. \A i \in 0..(n - 1) : i \in T => i + 1 \in T BY <2>2
    <3> HIDE DEF T
    <3>2. \A i \in 0..n : i \in T BY <2>1, <3>1, UpTo
    <3> QED BY <3>2
  <2>4. x <= n OBVIOUS
  <2> QED BY <2>3, <2>4, Zenon
<1>17. ASSUME NEW x \in 1..n, s[x] = "wide", \A i \in 1..n : s[i] # "nl"
       PROVE  Len(F[n]) < Len(G[n])
  <2>1. \A i \in 0..n : Len(F[i]) \in Nat /\ Len(G[i]) \in Nat
    <3>1. \A i \in 0..n : F[i] \in Seq(Digit) /\ G[i] \in Seq(Digit) OBVIOUS
    <3>2. \A u \in Seq(Digit) : Len(u) \in Nat OBVIOUS
    <3> QED BY <3>1, <3>2, Zenon
  <2> DEFINE T == {i \in 0..n : /\ Len(F[i]) <= Len(G[i])
                                /\ x <= i => Len(F[i]) < Len(G[i])}
  <2>2. 0 \in T
    <3>1. ~(x <= 0) /\ 0 <= 0 OBVIOUS
    <3> QED BY <1>11, <1>13, <1>14, <3>1, Zenon
  <2>3. ASSUME NEW i \in 0..(n - 1), i \in T PROVE i + 1 \in T
    <3>1. PICK a \in Nat : a = Len(F[i]) BY <1>12, <2>1
    <3>2. PICK b \in Nat : b = Len(G[i]) BY <1>12, <2>1
    <3>3. PICK c \in Chars : c = s[i + 1] BY <1>12
    <3>4. PICK l \in Nat : l = Len(RawChar(c)) BY CharBytes
    <3>5. PICK m \in Nat : m = Len(UnescapedChar(c)) BY CharBytes
    <3>6. l <= m /\ (c = "wide" => l < m)
      <4>1. c = "n" \/ c = "s" \/ c = "wide"
        <5>1. c # "nl" BY <1>12, <1>17, <3>3, Zenon
        <5> QED BY <5>1 DEF Chars
      <4>2. CASE c = "wide"
        <5>1. l < m BY <3>4, <3>5, <4>2, CharBytes, Zenon
        <5> QED BY <5>1
      <4>3. CASE c \in {"n", "s"}
        <5>1. l = m BY <3>4, <3>5, <4>3, CharBytes, Zenon
        <5> QED BY <4>3, <5>1
      <4> QED BY <4>1, <4>2, <4>3
    <3>7. Len(F[i + 1]) = a + l
      <4>1. RawChar(c) \in Seq(Digit) BY CharBytes, Zenon
      <4> QED BY <1>12, <3>1, <3>3, <3>4, <4>1, PlusEscape, Zenon
    <3>8. Len(G[i + 1]) = b + m
      <4>1. UnescapedChar(c) \in Seq(Digit) BY CharBytes, Zenon
      <4> QED BY <1>12, <3>2, <3>3, <3>5, <4>1, PlusEscape, Zenon
    <3>9. a <= b /\ (x <= i => a < b) BY <2>3, <3>1, <3>2, Zenon
    <3>10. x = i + 1 => l < m BY <1>17, <3>3, <3>6, Zenon
    <3>11. x <= i + 1 => x <= i \/ x = i + 1 OBVIOUS
    <3>12. l <= m BY <3>6, Zenon
    <3>13. a + l <= b + m /\ (x <= i + 1 => a + l < b + m) BY <3>9, <3>10, <3>11, <3>12
    <3> QED BY <1>12, <3>7, <3>8, <3>13, Zenon
  <2>4. n \in T
    <3>1. \A i \in 0..(n - 1) : i \in T => i + 1 \in T BY <2>3
    <3> HIDE DEF T
    <3>2. \A i \in 0..n : i \in T BY <2>2, <3>1, UpTo
    <3> QED BY <3>2
  <2>5. x <= n OBVIOUS
  <2> QED BY <2>4, <2>5, Zenon
<1>18. ASSUME \A i \in 1..n : s[i] \in {"n", "s"} PROVE rr = uu
  <2>1. \A i \in 1..n : RawChar(s[i]) = UnescapedChar(s[i]) BY <1>18, CharBytes, Zenon
  <2> QED BY <1>3, <1>4, <2>1
<1>19. ASSUME F[n] = G[n] PROVE \A i \in 1..n : s[i] \in {"n", "s"}
  <2>1. \A i \in 1..n : s[i] # "nl" BY <1>15, <1>16, <1>19, Zenon
  <2>2. ~(Len(F[n]) < Len(G[n]))
    <3>1. Len(F[n]) = Len(G[n]) BY <1>19, Zenon
    <3>2. PICK a \in Nat : a = Len(F[n])
      <4>1. F[n] \in Seq(Digit) BY <1>14
      <4> QED BY <4>1
    <3>3. ~(a < a) OBVIOUS
    <3> QED BY <3>1, <3>2, <3>3, Zenon
  <2>3. \A i \in 1..n : s[i] # "wide" BY <1>17, <2>1, <2>2, Zenon
  <2> QED BY <1>2, <2>1, <2>3, Zenon DEF Chars
<1> QED BY <1>2, <1>5, <1>6, <1>9, <1>10, <1>18, <1>19, Zenon

-----------------------------------------------------------------------------
(* The documents and the messages made of them. *)

\* The documents are sequences of members.
LEMMA DocumentsTyped == Documents \subseteq Seq(EntryType)
<1>1. Strings \subseteq Seq(Chars) BY WireAssumption
<1>2. ASSUME NEW k \in Keys PROVE Flat(k) \subseteq FlatMembers
  <2>1. StringsOf(k) \subseteq Seq(Chars)
    <3>1. {KEY_SESSION} \subseteq Seq(Chars) BY KeysAre, Zenon
    <3> QED BY <1>1, <3>1, Zenon DEF StringsOf
  <2>2. \A s \in StringsOf(k) : Quoted(s) \in Leaves BY <2>1, Zenon DEF Leaves
  <2>3. Mark("number") \in Leaves BY Zenon DEF Leaves
  <2>4. \A v \in Leaves : Plain(k, v) \in FlatMembers BY DEF FlatMembers
  <2>5. \A s \in StringsOf(k) : Member(k, <<Quoted(s)>>, <<>>) \in FlatMembers
    BY <2>2, <2>4, Zenon DEF Plain
  <2>6. Member(k, Scalar, <<>>) \in FlatMembers BY <2>3, <2>4, Zenon DEF Plain, Scalar
  <2> QED BY <2>5, <2>6, Zenon DEF Flat
<1>3. ASSUME NEW k \in Keys PROVE Deep(k) \subseteq DeepMembers
  <2> DEFINE In == UNION {{Member(j, <<Quoted(KEY_EVENT)>>, <<>>), Member(j, Scalar, <<>>)} : j \in Keys}
  <2>1. Quoted(KEY_EVENT) \in Leaves /\ Mark("number") \in Leaves BY KeysAre, Zenon DEF Leaves
  <2>2. \A j \in Keys, v \in Leaves : Plain(j, v) \in FlatMembers BY DEF FlatMembers
  <2>3. \A j \in Keys : /\ Member(j, <<Quoted(KEY_EVENT)>>, <<>>) \in FlatMembers
                        /\ Member(j, Scalar, <<>>) \in FlatMembers
    BY <2>1, <2>2, Zenon DEF Plain, Scalar
  <2>4. In \subseteq FlatMembers BY <2>3, Zenon
  <2>5. \A m \in FlatMembers : Holder(k, m) \in DeepMembers BY DEF DeepMembers
  <2>6. Deep(k) = {Holder(k, m) : m \in In} BY Zenon DEF Deep, Holder
  <2> HIDE DEF In
  <2> QED BY <2>4, <2>5, <2>6, Zenon
<1>4. UNION {Flat(k) \cup Deep(k) : k \in Keys} \subseteq EntryType
  BY <1>2, <1>3, Zenon DEF EntryType
<1>5. PICK U : U = UNION {Flat(k) \cup Deep(k) : k \in Keys} OBVIOUS
<1>6. ASSUME NEW d \in Documents PROVE d \in Seq(EntryType)
  <2>1. PICK n \in 1..3 : d \in [1..n -> U] BY <1>5, Zenon DEF Documents
  <2>2. d \in [1..n -> EntryType] BY <1>4, <1>5, <2>1
  <2>3. n \in Nat OBVIOUS
  <2> QED BY <2>2, <2>3
<1> QED BY <1>6

\* A value starts with a number, a string or a brace.
LEMMA LeadsAre ==
  /\ Leads \subseteq TokenType
  /\ \A v \in Leads : v = Mark("number") \/ v = Mark("{") \/ \E s \in Seq(Chars) : v = Quoted(s)
<1>1. Mark("{") \in TokenType BY TokenTypes DEF Kinds
<1>2. Leads \subseteq TokenType BY <1>1, TokenTypes, Zenon DEF Leads
<1>3. \A v \in Leads : v = Mark("number") \/ v = Mark("{") \/ \E s \in Seq(Chars) : v = Quoted(s)
  BY Zenon DEF Leads, Leaves
<1> QED BY <1>2, <1>3

\* What is looked up is the start of a value, or nothing.
LEMMA LookedTyped ==
  ASSUME NEW e \in Seq(EntryType), NEW k
  PROVE  Looked(e, k) \in Leads \cup {Nothing}
<1>1. CASE \E i \in 1..Len(e) : e[i].key = k
  <2>1. PICK i \in 1..Len(e) : e[i].key = k /\ \A j \in 1..Len(e) : e[j].key = k => i <= j
    BY <1>1, FirstOf, Zenon
  <2>2. Looked(e, k) = Head(e[i].value) BY <2>1, LookedIs, Zenon
  <2>3. e[i] \in EntryType OBVIOUS
  <2> QED BY <2>2, <2>3, EntriesAre, Zenon
<1>2. CASE ~(\E i \in 1..Len(e) : e[i].key = k)
  <2>1. Looked(e, k) = Nothing BY <1>2, LookedIs, Zenon
  <2> QED BY <2>1
<1> QED BY <1>1, <1>2

\* FirstEntry looks in the entries of the document.
LEMMA FirstLooked ==
  ASSUME NEW d, NEW k
  PROVE  FirstEntry(d, k) = Looked(Entries(d), k)
  BY Zenon DEF FirstEntry, Looked, At

\* What a program reads under a key.
LEMMA ScanIs ==
  ASSUME NEW d \in Seq(EntryType), NEW k \in Keys
  PROVE  /\ value_for_key(Tokens(d), k) = FirstEntry(d, k)
         /\ FirstEntry(d, k) \in Leads \cup {Nothing}
<1>1. k \in Seq(Chars) BY KeysAre, Zenon
<1>2. Entries(d) \in Seq(EntryType) /\ value_for_key(Tokens(d), k) = Looked(Entries(d), k)
  BY <1>1, DocumentScan, Zenon
<1>3. Looked(Entries(d), k) \in Leads \cup {Nothing} BY <1>2, LookedTyped, Zenon
<1> QED BY <1>2, <1>3, FirstLooked, Zenon

\* A string the scanner returns is the text of the first entry.
LEMMA StringScan ==
  ASSUME NEW d \in Seq(EntryType), NEW k \in Keys, skim_string(Tokens(d), k) # Nothing
  PROVE  /\ skim_string(Tokens(d), k) \in Seq(Chars)
         /\ skim_string(Tokens(d), k) = FirstEntry(d, k).text
<1>1. PICK v : v = value_for_key(Tokens(d), k) OBVIOUS
<1>2. v # Nothing /\ v.kind = "string" /\ skim_string(Tokens(d), k) = v.text
  BY <1>1, Zenon DEF skim_string
<1>3. v = FirstEntry(d, k) /\ v \in Leads BY <1>1, <1>2, ScanIs, Zenon
<1>4. Mark("number").kind # "string" /\ Mark("{").kind # "string"
  BY TokenTypes DEF Kinds
<1>5. PICK s \in Seq(Chars) : v = Quoted(s) BY <1>2, <1>3, <1>4, LeadsAre, Zenon
<1>6. v.text = s BY <1>5, TokenTypes, Zenon
<1> QED BY <1>2, <1>3, <1>6, Zenon

\* Texts are numbers.
LEMMA TextsNat == Texts \subseteq Seq(Nat)
<1>1. \A a \in Seq(Digit) : a \in Seq(Nat) BY DigitsNat
<1> QED BY <1>1, Zenon DEF Texts

\* A message is not None.
LEMMA SomeMsg ==
  ASSUME NEW m \in SentMsgs
  PROVE  m # Nothing
<1>1. \A c \in MsgTypes, ss \in Seq(Seq(Nat)) : SocketMsg(c, ss) # Nothing
  BY NothingAssumption DEF SocketMsg
<1>2. \A a \in Texts : <<a>> \in Seq(Seq(Nat)) BY TextsNat
<1>3. \A a, c \in Texts : <<a, c>> \in Seq(Seq(Nat)) BY TextsNat
<1>4. <<>> \in Seq(Seq(Nat)) OBVIOUS
<1>5. /\ "Hook" \in MsgTypes /\ "Heartbeat" \in MsgTypes
      /\ {"Ping", "Pause", "Resume"} \subseteq MsgTypes
  BY DEF MsgTypes
<1>6. \A c \in Commands : c # Nothing BY <1>1, <1>4, <1>5, Zenon DEF Commands
<1>7. \A a \in Texts : SocketMsg("Heartbeat", <<a>>) # Nothing BY <1>1, <1>2, <1>5, Zenon
<1>8. \A a, c \in Texts : SocketMsg("Hook", <<a, c>>) # Nothing BY <1>1, <1>3, <1>5, Zenon
<1>9. \/ m \in Commands
      \/ \E a \in Texts : m = SocketMsg("Heartbeat", <<a>>)
      \/ \E a \in Texts, c \in Texts : m = HookMsg(a, c)
  BY DEF SentMsgs
<1> QED BY <1>6, <1>7, <1>8, <1>9, Zenon DEF HookMsg

\* The two strings of a hook, and the one of a heartbeat.
LEMMA HookSent ==
  ASSUME NEW d \in Seq(EntryType), extract(Tokens(d)) # Nothing
  PROVE  \E event, sid \in Seq(Chars) :
           /\ sid = skim_string(Tokens(d), KEY_SESSION)
           /\ extract(Tokens(d)) = SocketMsg("Hook", <<Unescaped(event), Unescaped(sid)>>)
<1>1. PICK event : event = skim_string(Tokens(d), KEY_EVENT) OBVIOUS
<1>2. PICK sid : sid = skim_string(Tokens(d), KEY_SESSION) OBVIOUS
<1>3. extract(Tokens(d)) =
        IF Nothing \in {event, sid} \/ <<>> \in {event, sid} THEN Nothing
        ELSE SocketMsg("Hook", <<Unescaped(event), Unescaped(sid)>>)
  BY <1>1, <1>2, Zenon DEF extract
<1>4. /\ event # Nothing /\ sid # Nothing
      /\ extract(Tokens(d)) = SocketMsg("Hook", <<Unescaped(event), Unescaped(sid)>>)
  <2>1. ~(Nothing \in {event, sid} \/ <<>> \in {event, sid}) BY <1>3, Zenon
  <2>2. event # Nothing /\ sid # Nothing BY <2>1, Zenon
  <2> QED BY <1>3, <2>1, <2>2, Zenon
<1>5. event \in Seq(Chars) /\ sid \in Seq(Chars)
  BY <1>1, <1>2, <1>4, KeysAre, StringScan, Zenon
<1> QED BY <1>2, <1>4, <1>5, Zenon

\* Both programs send a message of texts, or nothing.
LEMMA SentTyped ==
  ASSUME NEW d \in Seq(EntryType)
  PROVE  /\ extract(Tokens(d)) \in SentMsgs \cup {Nothing}
         /\ skim_session(Tokens(d)) \in SentMsgs \cup {Nothing}
<1>1. ASSUME extract(Tokens(d)) # Nothing PROVE extract(Tokens(d)) \in SentMsgs
  <2>1. PICK event, sid \in Seq(Chars) :
          extract(Tokens(d)) = SocketMsg("Hook", <<Unescaped(event), Unescaped(sid)>>)
    BY <1>1, HookSent, Zenon
  <2>2. PICK a \in Texts : a = Unescaped(event) BY WrittenTexts
  <2>3. PICK c \in Texts : c = Unescaped(sid) BY WrittenTexts
  <2>4. HookMsg(a, c) \in SentMsgs BY DEF SentMsgs
  <2>5. SocketMsg("Hook", <<a, c>>) \in SentMsgs BY <2>4, Zenon DEF HookMsg
  <2> QED BY <2>1, <2>2, <2>3, <2>5, Zenon
<1>2. ASSUME skim_session(Tokens(d)) # Nothing PROVE skim_session(Tokens(d)) \in SentMsgs
  <2>1. PICK sid : sid = skim_string(Tokens(d), KEY_SESSION) OBVIOUS
  <2>2. sid # Nothing /\ skim_session(Tokens(d)) = SocketMsg("Heartbeat", <<Raw(sid)>>)
    BY <1>2, <2>1, Zenon DEF skim_session
  <2>3. sid \in Seq(Chars) BY <2>1, <2>2, KeysAre, StringScan, Zenon
  <2>4. PICK a \in Texts : a = Raw(sid) BY <2>3, WrittenTexts
  <2>5. SocketMsg("Heartbeat", <<a>>) \in SentMsgs BY DEF SentMsgs
  <2> QED BY <2>2, <2>4, <2>5, Zenon
<1> QED BY <1>1, <1>2

-----------------------------------------------------------------------------
(* The invariant: a program that found nothing to do has sent nothing, a     *)
(* datagram of our programs is the encoding of what was sent, and the        *)
(* daemon has read what its buffer kept of it.                              *)

Read(d) ==
  received = Cut(d) /\ got = decode(Cut(d)) /\ (sent # Nothing => d = encode(sent))
WireInv ==
  /\ doc \in Seq(EntryType) \cup {Nothing}
  /\ sent \in SentMsgs \cup {Nothing}
  /\ datagram \in Seq(Digit) \cup {Nothing}
  /\ Idle => sent = Nothing
  /\ sent # Nothing /\ datagram # Nothing => datagram = encode(sent)
  /\ received # Nothing => \E d \in Seq(Digit) : Read(d)

\* The buffer holds bytes.
LEMMA CutTyped ==
  ASSUME NEW b \in Seq(Digit)
  PROVE  Cut(b) \in Seq(Digit)
<1>1. BASE \in Nat /\ Len(b) \in Nat BY WireAssumption
<1>2. Len(b) <= BASE \/ Len(b) > BASE BY <1>1
<1> QED BY <1>2, CutIs, Zenon

\* A function from the first n numbers is a sequence.
LEMMA BytesOf ==
  ASSUME NEW S, NEW n \in Nat, NEW b \in [1..n -> S]
  PROVE  b \in Seq(S)
  OBVIOUS

\* Init establishes the invariant.
LEMMA WireStart == WireInit => WireInv
<1> SUFFICES ASSUME WireInit PROVE WireInv OBVIOUS
<1>1. doc = Nothing /\ sent = Nothing /\ datagram = Nothing /\ received = Nothing
  BY Zenon DEF WireInit
<1> QED BY <1>1, Zenon DEF WireInv

\* A program that reads d and sends m, or nothing.
LEMMA SendsKeeps ==
  ASSUME WireInv, NEW d \in Seq(EntryType), NEW m \in SentMsgs \cup {Nothing},
         Reads(d), Sends(m)
  PROVE  WireInv'
<1>1. /\ doc' = d /\ sent' = m /\ received' = received
      /\ datagram' = IF m = Nothing THEN Nothing ELSE encode(m)
      /\ received = Nothing
  BY Zenon DEF Reads, Sends, Idle
<1>2. CASE m = Nothing
  <2>1. datagram' = Nothing /\ received' = Nothing /\ sent' = Nothing BY <1>1, <1>2, Zenon
  <2> QED BY <1>1, <2>1, Zenon DEF WireInv, Idle
<1>3. CASE m # Nothing
  <2>1. datagram' = encode(m) /\ received' = Nothing /\ m \in SentMsgs BY <1>1, <1>3, Zenon
  <2>2. encode(m) \in Seq(Digit) BY <2>1, SentRead, Zenon
  <2>3. encode(m) # Nothing BY <2>2, NotNothing, Zenon
  <2> QED BY <1>1, <2>1, <2>2, <2>3, Zenon DEF WireInv, Idle
<1> QED BY <1>2, <1>3

\* A datagram of another program comes only when ours have nothing on the way.
LEMMA StrayKeeps == WireInv /\ Stray => WireInv'
<1> SUFFICES ASSUME WireInv, Stray PROVE WireInv' OBVIOUS
<1>1. /\ doc' = <<>> /\ sent' = sent /\ received' = received
      /\ Idle
  BY Zenon DEF Stray, Reads
<1>2. sent = Nothing /\ received = Nothing BY <1>1, Zenon DEF WireInv, Idle
<1>3. datagram' \in Seq(Digit)
  <2>1. (\A n \in 0..MaxStray : n \in Nat) /\ 0 \in Nat /\ BUFFER \in Nat
    BY WireAssumption DEF BUFFER
  <2>2. PICK n \in 0..MaxStray, pad \in {0, BUFFER} :
          \E b \in [1..n -> 0..(BASE - 1)] : datagram' = b \o [i \in 1..pad |-> 0]
    BY Zenon DEF Stray
  <2>3. PICK b \in [1..n -> 0..(BASE - 1)] : datagram' = b \o [i \in 1..pad |-> 0] BY <2>2, Zenon
  <2>4. BASE \in Nat /\ BASE > 5 /\ MaxStray \in Nat BY WireAssumption
  <2>5. n \in Nat /\ pad \in Nat
    <3>1. n \in Nat BY <2>1, Zenon
    <3>2. pad = 0 \/ pad = BUFFER BY Zenon
    <3>3. pad \in Nat BY <2>1, <3>2, Zenon
    <3> QED BY <3>1, <3>3, Zenon
  <2>6. b \in Seq(Digit) BY <2>5, BytesOf, Zenon DEF Digit
  <2>7. PICK z : z = [i \in 1..pad |-> 0] OBVIOUS
  <2>8. z \in Seq(Digit)
    <3>1. 0 \in Digit BY <2>4 DEF Digit
    <3> QED BY <2>5, <2>7, <3>1
  <2>9. Plus(b, z) \in Seq(Digit) BY <2>6, <2>8, PlusIn
  <2> QED BY <2>3, <2>7, <2>9, Zenon DEF Plus
<1>4. datagram' # Nothing BY <1>3, NotNothing, Zenon
<1>5. <<>> \in Seq(EntryType) OBVIOUS
<1> QED BY <1>1, <1>2, <1>3, <1>4, <1>5, Zenon DEF WireInv, Idle

\* The daemon's buffer holds what it kept of the datagram.
LEMMA RecvKeeps == WireInv /\ RecvFrom => WireInv'
<1> SUFFICES ASSUME WireInv, RecvFrom PROVE WireInv' OBVIOUS
<1>1. /\ datagram # Nothing /\ received' = Cut(datagram) /\ got' = decode(Cut(datagram))
      /\ datagram' = Nothing /\ doc' = Nothing /\ sent' = sent
  BY Zenon DEF RecvFrom
<1>2. /\ datagram \in Seq(Digit) /\ (sent # Nothing => datagram = encode(sent))
      /\ sent \in SentMsgs \cup {Nothing}
  BY <1>1, Zenon DEF WireInv
<1>3. Cut(datagram) # Nothing BY <1>2, CutTyped, NotNothing, Zenon
<1>4. Read(datagram)' <=> /\ received' = Cut(datagram') /\ got' = decode(Cut(datagram'))
                          /\ (sent' # Nothing => datagram' = encode(sent'))
  BY Zenon DEF Read
<1>5. \E d \in Seq(Digit) :
        received' = Cut(d) /\ got' = decode(Cut(d)) /\ (sent' # Nothing => d = encode(sent'))
  BY <1>1, <1>2, Zenon
<1> QED BY <1>1, <1>2, <1>3, <1>5, Zenon DEF WireInv, Idle, Read

\* Every step preserves the invariant.
LEMMA WireStep == WireInv /\ [WireNext]_WireVars => WireInv'
<1> SUFFICES ASSUME WireInv, [WireNext]_WireVars PROVE WireInv' OBVIOUS
<1>1. CASE HookRun
  <2>1. PICK d \in Documents : Reads(d) /\ Sends(extract(Tokens(d))) BY <1>1, Zenon DEF HookRun
  <2>2. d \in Seq(EntryType) BY DocumentsTyped, Zenon
  <2>3. extract(Tokens(d)) \in SentMsgs \cup {Nothing} BY <2>2, SentTyped, Zenon
  <2> QED BY <2>1, <2>2, <2>3, SendsKeeps
<1>2. CASE StatusRun
  <2>1. PICK d \in Documents : Reads(d) /\ Sends(skim_session(Tokens(d)))
    BY <1>2, Zenon DEF StatusRun
  <2>2. d \in Seq(EntryType) BY DocumentsTyped, Zenon
  <2>3. skim_session(Tokens(d)) \in SentMsgs \cup {Nothing} BY <2>2, SentTyped, Zenon
  <2> QED BY <2>1, <2>2, <2>3, SendsKeeps
<1>3. CASE SendCmd
  <2>1. PICK c \in Commands : Reads(<<>>) /\ Sends(c) BY <1>3, Zenon DEF SendCmd
  <2>2. <<>> \in Seq(EntryType) OBVIOUS
  <2>3. c \in SentMsgs \cup {Nothing} BY DEF SentMsgs
  <2> QED BY <2>1, <2>2, <2>3, SendsKeeps, Zenon
<1>4. CASE Stray BY <1>4, StrayKeeps
<1>5. CASE RecvFrom BY <1>5, RecvKeeps
<1>6. CASE Done
  <2>1. doc' = Nothing /\ sent' = Nothing /\ datagram' = Nothing /\ received' = Nothing
    BY <1>6, Zenon DEF Done
  <2> QED BY <2>1, Zenon DEF WireInv
<1>7. CASE UNCHANGED WireVars BY <1>7, Zenon DEF WireVars, WireInv, Idle, Read
<1> QED BY <1>1, <1>2, <1>3, <1>4, <1>5, <1>6, <1>7, Zenon DEF WireNext

\* The invariant holds in every reachable state.
LEMMA WireInvariant == WireSpec => []WireInv
  BY WireStart, WireStep, PTL DEF WireSpec

-----------------------------------------------------------------------------

\* The invariant implies that messages are read as sent,
LEMMA ReadOnce == WireInv => ReadAsSent
<1> SUFFICES ASSUME WireInv, received # Nothing
             PROVE  /\ sent # Nothing => got = IF Len(encode(sent)) <= BUFFER THEN sent ELSE Nothing
                    /\ got # Nothing => encode(got) = received
  BY Zenon DEF ReadAsSent
<1>1. PICK d \in Seq(Digit) :
        received = Cut(d) /\ got = decode(Cut(d)) /\ (sent # Nothing => d = encode(sent))
  BY Zenon DEF WireInv, Read
<1>2. ASSUME sent # Nothing
      PROVE  got = IF Len(encode(sent)) <= BUFFER THEN sent ELSE Nothing
  <2>1. sent \in SentMsgs BY <1>2, Zenon DEF WireInv
  <2> QED BY <1>1, <1>2, <2>1, SentRead, Zenon
<1>3. ASSUME got # Nothing PROVE encode(got) = received
  <2>1. PICK b \in Seq(Digit) : b = Cut(d) BY CutTyped
  <2> QED BY <1>1, <1>3, <2>1, ReadBack, Zenon
<1> QED BY <1>2, <1>3

\* that the scanners find what a parser would,
LEMMA SkimmedRight == WireInv => SkimIsLookup
<1> SUFFICES ASSUME WireInv, doc # Nothing
             PROVE  /\ \A k \in Keys : value_for_key(Tokens(doc), k) = FirstEntry(doc, k)
                    /\ (parse_timings(Tokens(doc)) = Nothing)
                         <=> \/ FirstEntry(doc, KEY_EVENT) = Nothing
                             \/ /\ FirstEntry(doc, KEY_EVENT).kind # "number"
                                /\ FirstEntry(doc, KEY_EVENT).text # <<"n">>
  BY Zenon DEF SkimIsLookup
<1>1. doc \in Seq(EntryType) BY Zenon DEF WireInv
<1>2. \A k \in Keys : value_for_key(Tokens(doc), k) = FirstEntry(doc, k) BY <1>1, ScanIs, Zenon
<1>3. PICK ts : ts = FirstEntry(doc, KEY_EVENT) OBVIOUS
<1>4. ts \in Leads \cup {Nothing} /\ value_for_key(Tokens(doc), KEY_EVENT) = ts
  BY <1>1, <1>3, KeysAre, ScanIs, Zenon
<1>5. (parse_timings(Tokens(doc)) = Nothing) <=> ts \notin {Mark("number"), Quoted(<<"n">>)}
  <2>1. "label" # Nothing /\ "unknown" # Nothing BY NothingAssumption
  <2> QED BY <1>4, <2>1, Zenon DEF parse_timings
<1>6. PICK n \in Seq(Chars) : n = <<"n">> BY KeysAre, Zenon DEF KEY_EVENT
<1>7. (ts \notin {Mark("number"), Quoted(n)})
        <=> ts = Nothing \/ (ts.kind # "number" /\ ts.text # n)
  <2>1. /\ Mark("number") \in TokenType /\ Mark("number").kind = "number"
        /\ Mark("{").kind = "{" /\ Mark("{").text = <<>>
    BY TokenTypes DEF Kinds
  <2>2. /\ Quoted(n) \in TokenType /\ Quoted(n).kind = "string" BY TokenTypes
  <2>3. "number" # "string" /\ "number" # "{" /\ "{" # "string" OBVIOUS
  <2>4. CASE ts = Nothing BY <2>1, <2>2, <2>4, TokenTypes, Zenon
  <2>5. CASE ts = Mark("number")
    <3>1. ts # Nothing /\ ts.kind = "number" BY <2>1, <2>5, TokenTypes, Zenon
    <3> QED BY <2>5, <3>1, Zenon
  <2>6. CASE ts = Mark("{")
    <3>1. ts.kind = "{" /\ ts.text = <<>> BY <2>1, <2>6, Zenon
    <3>2. ts # Mark("number") /\ ts # Quoted(n) BY <2>1, <2>2, <2>3, <3>1, Zenon
    <3>3. n # <<>>
      <4>1. Len(<<"n">>) = 1 /\ Len(<<>>) = 0 /\ 1 # 0 OBVIOUS
      <4> QED BY <1>6, <4>1, Zenon
    <3> QED BY <2>3, <3>1, <3>2, <3>3, Zenon
  <2>7. ASSUME NEW s \in Seq(Chars), ts = Quoted(s)
        PROVE  (ts \notin {Mark("number"), Quoted(n)})
                 <=> ts = Nothing \/ (ts.kind # "number" /\ ts.text # n)
    <3>1. ts \in TokenType /\ ts.kind = "string" /\ ts.text = s BY <2>7, TokenTypes, Zenon
    <3>2. ts # Nothing /\ ts # Mark("number") BY <2>1, <2>3, <3>1, TokenTypes, Zenon
    <3>3. (ts = Quoted(n)) <=> s = n BY <2>7, QuotedIs, Zenon
    <3> QED BY <2>3, <3>1, <3>2, <3>3, Zenon
  <2> QED BY <1>4, <2>4, <2>5, <2>6, <2>7, LeadsAre, Zenon
<1> QED BY <1>2, <1>3, <1>5, <1>6, <1>7, Zenon

\* and that hooks and heartbeats name a session alike.
LEMMA SameIds == WireInv => SameSession
<1> SUFFICES ASSUME WireInv, doc # Nothing, extract(Tokens(doc)) # Nothing
             PROVE  /\ skim_session(Tokens(doc)) # Nothing
                    /\ (skim_session(Tokens(doc)).strs[1] = extract(Tokens(doc)).strs[2])
                         <=> \A i \in DOMAIN FirstEntry(doc, KEY_SESSION).text :
                               FirstEntry(doc, KEY_SESSION).text[i] \in {"n", "s"}
  BY Zenon DEF SameSession
<1>1. doc \in Seq(EntryType) BY Zenon DEF WireInv
<1>2. PICK event, s \in Seq(Chars) :
        /\ s = skim_string(Tokens(doc), KEY_SESSION)
        /\ extract(Tokens(doc)) = SocketMsg("Hook", <<Unescaped(event), Unescaped(s)>>)
  BY <1>1, HookSent, Zenon
<1>3. s # Nothing BY NothingAssumption
<1>4. FirstEntry(doc, KEY_SESSION).text = s BY <1>1, <1>2, <1>3, KeysAre, StringScan, Zenon
<1>5. skim_session(Tokens(doc)) = SocketMsg("Heartbeat", <<Raw(s)>>)
  BY <1>2, <1>3, Zenon DEF skim_session
<1>6. skim_session(Tokens(doc)) # Nothing
  <2>1. PICK a \in Texts : a = Raw(s) BY WrittenTexts
  <2>2. SocketMsg("Heartbeat", <<a>>) \in SentMsgs BY DEF SentMsgs
  <2> QED BY <1>5, <2>1, <2>2, SomeMsg, Zenon
<1>7. skim_session(Tokens(doc)).strs[1] = Raw(s)
  <2>1. PICK r : r = Raw(s) OBVIOUS
  <2>2. SocketMsg("Heartbeat", <<r>>).strs[1] = r BY DEF SocketMsg
  <2> QED BY <1>5, <2>1, <2>2, Zenon
<1>8. extract(Tokens(doc)).strs[2] = Unescaped(s)
  <2>1. PICK r : r = Unescaped(s) OBVIOUS
  <2>2. PICK q : q = Unescaped(event) OBVIOUS
  <2>3. SocketMsg("Hook", <<q, r>>).strs[2] = r BY DEF SocketMsg
  <2> QED BY <1>2, <2>1, <2>2, <2>3, Zenon
<1> QED BY <1>4, <1>6, <1>7, <1>8, WrittenAlike, Zenon

\* Whatever the document, the scanners of spnr-hook, spnr-status and spnr-meta
\* return the value of the first member of the name they look for, nested members
\* included, and a log line yields a time exactly when that value is one.
THEOREM ScannersFindMembers == WireSpec => []SkimIsLookup
  BY WireInvariant, SkimmedRight, PTL

\* The daemon reads a message as it was sent when it fits its buffer and refuses it
\* when it does not, and a datagram of any program is understood only as the
\* message it is the encoding of.
THEOREM DatagramsReadAsSent == WireSpec => []ReadAsSent
  BY WireInvariant, ReadOnce, PTL

\* When a hook is sent for a document a heartbeat is too, and they name the session
\* alike exactly when its id has neither escapes nor wide characters.
THEOREM HeartbeatNamesSession == WireSpec => []SameSession
  BY WireInvariant, SameIds, PTL
=============================================================================
