----------------------------- MODULE DaemonProofs -----------------------------
(***************************************************************************)
(* Proofs about Daemon, for every value of its constants: its type         *)
(* invariant, that the pause switch reaches every session, that each key   *)
(* signs one chain, and that a session earns by its own heartbeats only.   *)
(* And proofs about the queue file the daemon appends its events to, for   *)
(* every length prefix and every set of records: its types, that synced    *)
(* records survive, and that a reader never finds half a record.           *)
(***************************************************************************)
EXTENDS Daemon, QueueLog, ImpressionEngineProofs, SequenceTheorems, WellFoundedInduction

LEMMA EntryTyped ==
  ASSUME TypeOK, NEW id
  PROVE  Entry(id) \in SessionType /\ Entry(id).paused = paused
<1> DEFINE s == IF id \in DOMAIN sessions THEN sessions[id] ELSE NewSession
<1>1. NewSession \in SessionType
  BY DEF NewSession, SessionType, Phase, NotOpen
<1>2. s \in SessionType /\ paused \in BOOLEAN BY <1>1 DEF TypeOK
<1>3. Entry(id) = SetPaused(s, paused) BY DEF Entry
<1> HIDE DEF s
<1> QED BY <1>2, <1>3 DEF SetPaused, SessionType

LEMMA EventTyped ==
  ASSUME TypeOK, NEW n \in Nat
  PROVE  NewEvent(key, ctr, prev, n) \in EventType
<1>1. <<key, ctr>> \in Seq(Nat) /\ prev \in Seq(Nat) /\ key \in Nat /\ ctr \in Nat
  BY DEF TypeOK
<1> QED BY <1>1 DEF NewEvent, EventType

\* A session that is entered under an id keeps the map a map of sessions.
LEMMA WithTyped ==
  ASSUME TypeOK, NEW id \in Sessions, NEW s \in SessionType, sessions' = With(id, s)
  PROVE  /\ DOMAIN sessions' = DOMAIN sessions \cup {id}
         /\ \A x \in DOMAIN sessions' : sessions'[x] = IF x = id THEN s ELSE sessions[x]
         /\ DOMAIN sessions' \subseteq Sessions
         /\ \A x \in DOMAIN sessions' : sessions'[x] \in SessionType
  BY DEF TypeOK, With

LEMMA EmitTyped ==
  ASSUME TypeOK, NEW n \in Nat, Emit(n)
  PROVE  /\ ctr' \in Nat /\ prev' \in Seq(Nat) /\ total' \in Nat
         /\ queue' \in Seq(EventType) /\ emitted' \in Seq(EventType)
<1> DEFINE e == NewEvent(key, ctr, prev, n)
<1>1. e \in EventType BY EventTyped
<1>2. e.digest = <<key, ctr>> BY DEF NewEvent
<1>3. /\ prev' = e.digest /\ ctr' = ctr + 1 /\ total' = total + n
      /\ emitted' = Append(emitted, e) /\ queue' \in {Append(queue, e), queue}
  BY DEF Emit
<1> HIDE DEF e
<1>4. /\ key \in Nat /\ ctr \in Nat /\ total \in Nat
      /\ queue \in Seq(EventType) /\ emitted \in Seq(EventType)
  BY DEF TypeOK
<1>5. prev' \in Seq(Nat)
  <2>1. <<key, ctr>> \in Seq(Nat) BY <1>4
  <2> QED BY <1>2, <1>3, <2>1
<1>6. Append(queue, e) \in Seq(EventType) /\ Append(emitted, e) \in Seq(EventType)
  BY <1>1, <1>4, AppendProperties
<1>7. queue' \in Seq(EventType) /\ emitted' \in Seq(EventType) BY <1>3, <1>4, <1>6
<1>8. ctr' \in Nat /\ total' \in Nat BY <1>3, <1>4
<1> QED BY <1>5, <1>7, <1>8

\* What the daemon does with one hook of a session, emission aside.
LEMMA HookTyped ==
  ASSUME TypeOK, NEW id \in Sessions, NEW s \in SessionType, sessions' = With(id, s),
         s.paused = paused, UNCHANGED <<now, up, paused, key>>
  PROVE  /\ DOMAIN sessions' \subseteq Sessions
         /\ \A x \in DOMAIN sessions' : sessions'[x] \in SessionType
         /\ PauseReachesEverySession => PauseReachesEverySession'
<1>1. /\ DOMAIN sessions' = DOMAIN sessions \cup {id}
      /\ \A x \in DOMAIN sessions' : sessions'[x] = IF x = id THEN s ELSE sessions[x]
      /\ DOMAIN sessions' \subseteq Sessions
      /\ \A x \in DOMAIN sessions' : sessions'[x] \in SessionType
  BY WithTyped
<1>2. ASSUME PauseReachesEverySession PROVE PauseReachesEverySession'
  BY <1>1, <1>2 DEF PauseReachesEverySession
<1> QED BY <1>1, <1>2

\* A daemon that is down knows no session, so a restart, which clears the
\* switch, finds no copy of it.
DownKnowsNobody == ~up => DOMAIN sessions = {}

SwitchInv == TypeOK /\ PauseReachesEverySession /\ DownKnowsNobody

LEMMA InitSwitch == Init => SwitchInv
<1> SUFFICES ASSUME Init PROVE SwitchInv OBVIOUS
<1>1. DOMAIN sessions = {} BY DEF Init, NoSessions
<1>2. <<>> \in Seq(Nat) /\ <<>> \in Seq(EventType) OBVIOUS
<1>3. earned \in [Sessions -> Nat] /\ beats \in [Sessions -> Nat] BY DEF Init
<1>4. TypeOK BY <1>1, <1>2, <1>3 DEF Init, TypeOK, GENESIS_PREV
<1> QED BY <1>1, <1>4 DEF SwitchInv, DownKnowsNobody, PauseReachesEverySession

LEMMA HookSwitch ==
  ASSUME SwitchInv, NEW id \in Sessions, NEW s \in SessionType, s.paused = paused, Hook(id, s)
  PROVE  SwitchInv'
<1>1. TypeOK /\ PauseReachesEverySession BY DEF SwitchInv, DownKnowsNobody
<1>2. /\ up /\ sessions' = With(id, s)
      /\ UNCHANGED <<now, up, paused, key, chain, earned, beats, backs>>
  BY DEF Hook
<1>3. /\ DOMAIN sessions' \subseteq Sessions
      /\ \A x \in DOMAIN sessions' : sessions'[x] \in SessionType
      /\ PauseReachesEverySession'
  BY <1>1, <1>2, HookTyped
<1> QED BY <1>1, <1>2, <1>3 DEF SwitchInv, DownKnowsNobody, TypeOK, chain

LEMMA StopSwitch ==
  ASSUME SwitchInv, NEW id \in Sessions, Stop(id)
  PROVE  SwitchInv'
<1> DEFINE n == StopImpressions(Entry(id), now)
           s == OnStop(Entry(id), now)
<1>1. TypeOK /\ PauseReachesEverySession /\ now \in Nat BY DEF SwitchInv, DownKnowsNobody, TypeOK
<1>2. Entry(id) \in SessionType /\ Entry(id).paused = paused BY <1>1, EntryTyped
<1>3. n \in Nat /\ s \in SessionType /\ s.paused = paused
  BY <1>1, <1>2, EngineTypes, EngineKeepsPause
<1>4. /\ up /\ sessions' = With(id, s)
      /\ IF n > 0 THEN Emit(n) ELSE UNCHANGED chain
      /\ earned' = [earned EXCEPT ![id] = @ + n]
      /\ UNCHANGED <<now, up, paused, key, beats, backs>>
  BY DEF Stop
<1> HIDE DEF n, s
<1>5. /\ DOMAIN sessions' \subseteq Sessions
      /\ \A x \in DOMAIN sessions' : sessions'[x] \in SessionType
      /\ PauseReachesEverySession'
  BY <1>1, <1>3, <1>4, HookTyped
<1>6. /\ ctr' \in Nat /\ prev' \in Seq(Nat) /\ total' \in Nat
      /\ queue' \in Seq(EventType) /\ emitted' \in Seq(EventType)
  <2>1. CASE n > 0 BY <1>1, <1>3, <1>4, <2>1, EmitTyped
  <2>2. CASE ~(n > 0) BY <1>1, <1>4, <2>2 DEF chain, TypeOK
  <2> QED BY <2>1, <2>2
<1>7. earned' \in [Sessions -> Nat] BY <1>1, <1>3, <1>4 DEF TypeOK
<1> QED BY <1>1, <1>4, <1>5, <1>6, <1>7 DEF SwitchInv, DownKnowsNobody, TypeOK

LEMMA SessionEndSwitch ==
  ASSUME SwitchInv, NEW id \in Sessions, SessionEnd(id)
  PROVE  SwitchInv'
<1>1. /\ up /\ sessions' = Without(id)
      /\ UNCHANGED <<now, up, paused, key, chain, earned, beats, backs>>
  BY DEF SessionEnd
<1>2. /\ DOMAIN sessions' \subseteq DOMAIN sessions
      /\ \A x \in DOMAIN sessions' : sessions'[x] = sessions[x]
  BY <1>1 DEF Without
<1> QED BY <1>1, <1>2 DEF SwitchInv, DownKnowsNobody, TypeOK, PauseReachesEverySession, chain

LEMMA HeartbeatSwitch ==
  ASSUME SwitchInv, NEW id \in Sessions, Heartbeat(id)
  PROVE  SwitchInv'
<1>1. TypeOK /\ PauseReachesEverySession /\ now \in Nat BY DEF SwitchInv, DownKnowsNobody, TypeOK
<1>2. /\ up /\ sessions' = HeartbeatEffect(id) /\ beats' = [beats EXCEPT ![id] = @ + 1]
      /\ UNCHANGED <<now, up, paused, key, chain, earned, backs>>
  BY DEF Heartbeat
<1>3. beats' \in [Sessions -> Nat] BY <1>1, <1>2 DEF TypeOK
<1>4. /\ DOMAIN sessions' \subseteq Sessions
      /\ \A x \in DOMAIN sessions' : sessions'[x] \in SessionType
      /\ PauseReachesEverySession'
  <2>1. CASE id \in DOMAIN sessions
    <3> DEFINE s == OnHeartbeat(sessions[id], now)
    <3>1. sessions[id] \in SessionType /\ sessions[id].paused = paused
      BY <1>1, <2>1 DEF TypeOK, PauseReachesEverySession
    <3>2. s \in SessionType /\ s.paused = paused
      BY <1>1, <3>1, EngineTypes, EngineKeepsPause
    <3>3. sessions' = With(id, s) BY <1>2, <2>1 DEF HeartbeatEffect
    <3> HIDE DEF s
    <3> QED BY <1>1, <1>2, <3>2, <3>3, HookTyped
  <2>2. CASE id \notin DOMAIN sessions
    BY <1>1, <1>2, <2>2 DEF HeartbeatEffect, TypeOK, PauseReachesEverySession
  <2> QED BY <2>1, <2>2
<1> QED BY <1>1, <1>2, <1>3, <1>4 DEF SwitchInv, DownKnowsNobody, TypeOK, chain

LEMMA PauseResumeSwitch ==
  ASSUME SwitchInv, NEW v \in BOOLEAN, PauseResume(v)
  PROVE  SwitchInv'
<1>1. /\ up /\ paused' = v /\ sessions' = SetPausedAll(sessions, v)
      /\ UNCHANGED <<now, up, key, chain, earned, beats, backs>>
  BY DEF PauseResume
<1>2. /\ DOMAIN sessions' = DOMAIN sessions
      /\ \A x \in DOMAIN sessions : sessions'[x] = SetPaused(sessions[x], v)
  BY <1>1 DEF SetPausedAll
<1>3. \A x \in DOMAIN sessions :
        SetPaused(sessions[x], v) \in SessionType /\ SetPaused(sessions[x], v).paused = v
  BY DEF SwitchInv, DownKnowsNobody, TypeOK, SetPaused, SessionType
<1> QED BY <1>1, <1>2, <1>3 DEF SwitchInv, DownKnowsNobody, TypeOK, PauseReachesEverySession, chain

LEMMA NextSwitch == SwitchInv /\ [Next]_vars => SwitchInv'
<1> SUFFICES ASSUME SwitchInv, [Next]_vars PROVE SwitchInv' OBVIOUS
<1>1. CASE Tick
  BY <1>1 DEF Tick, SwitchInv, DownKnowsNobody, TypeOK, PauseReachesEverySession, chain
<1>8. CASE ClockBack
  BY <1>8 DEF ClockBack, SwitchInv, DownKnowsNobody, TypeOK, PauseReachesEverySession, chain
<1>2. CASE Crash
  <2>1. DOMAIN sessions' = {} BY <1>2 DEF Crash, NoSessions
  <2>2. up' = FALSE /\ UNCHANGED <<now, paused, key, chain, earned, beats, backs>>
    BY <1>2 DEF Crash
  <2> QED BY <2>1, <2>2 DEF SwitchInv, DownKnowsNobody, TypeOK, PauseReachesEverySession, chain
<1>3. CASE Restart
  <2>1. /\ paused' = FALSE /\ up' = TRUE /\ key' = key + 1 /\ ctr' = 0
        /\ prev' = GENESIS_PREV /\ total' = 0
        /\ UNCHANGED <<now, sessions, queue, emitted, earned, beats, backs>>
    BY <1>3 DEF Restart, FreshKey
  <2>2. sessions = sessions' /\ DOMAIN sessions = {}
    BY <1>3 DEF Restart, SwitchInv, DownKnowsNobody
  <2>3. GENESIS_PREV \in Seq(Nat) BY DEF GENESIS_PREV
  <2>4. TypeOK'
    <3>1. TypeOK BY DEF SwitchInv
    <3>2. key' \in Nat /\ ctr' \in Nat /\ total' \in Nat BY <2>1, <3>1 DEF TypeOK
    <3>3. prev' \in Seq(Nat) BY <2>1, <2>3
    <3> QED BY <2>1, <3>1, <3>2, <3>3 DEF TypeOK
  <2> QED BY <2>1, <2>2, <2>4 DEF SwitchInv, DownKnowsNobody, PauseReachesEverySession
<1>4. CASE \E v \in BOOLEAN : PauseResume(v) BY <1>4, PauseResumeSwitch
<1>5. ASSUME NEW id \in Sessions,
             UserPromptSubmit(id) \/ PreToolUse(id) \/ PostToolUse(id) \/ OtherHook(id)
      PROVE  SwitchInv'
  <2>1. TypeOK /\ now \in Nat BY DEF SwitchInv, DownKnowsNobody, TypeOK
  <2>2. Entry(id) \in SessionType /\ Entry(id).paused = paused BY <2>1, EntryTyped
  <2> DEFINE s == Entry(id)
  <2> HIDE DEF s
  <2>3. s \in SessionType /\ s.paused = paused BY <2>2 DEF s
  <2>4. /\ OnPromptSubmit(s, now) \in SessionType /\ OnPreTool(s, now) \in SessionType
        /\ OnPostTool(s, now) \in SessionType
    BY <2>1, <2>3, EngineTypes
  <2>5. /\ OnPromptSubmit(s, now).paused = paused /\ OnPreTool(s, now).paused = paused
        /\ OnPostTool(s, now).paused = paused
    BY <2>1, <2>3, EngineKeepsPause
  <2>6. CASE UserPromptSubmit(id) BY <2>4, <2>5, <2>6, HookSwitch DEF UserPromptSubmit, s
  <2>7. CASE PreToolUse(id) BY <2>4, <2>5, <2>7, HookSwitch DEF PreToolUse, s
  <2>8. CASE PostToolUse(id) BY <2>4, <2>5, <2>8, HookSwitch DEF PostToolUse, s
  <2>9. CASE OtherHook(id) BY <2>3, <2>9, HookSwitch DEF OtherHook, s
  <2> QED BY <1>5, <2>6, <2>7, <2>8, <2>9
<1>6. CASE \E id \in Sessions : Stop(id) \/ SessionEnd(id) \/ Heartbeat(id)
  BY <1>6, StopSwitch, SessionEndSwitch, HeartbeatSwitch
<1>7. CASE UNCHANGED vars
  BY <1>7 DEF vars, chain, SwitchInv, DownKnowsNobody, TypeOK, PauseReachesEverySession
<1> QED BY <1>1, <1>2, <1>3, <1>4, <1>5, <1>6, <1>7, <1>8 DEF Next

\* The daemon keeps its types over any messages, crashes and restarts (main.rs
\* handle, emit_impressions, new).
THEOREM Types == Spec => []TypeOK
<1>1. SwitchInv => TypeOK BY DEF SwitchInv, DownKnowsNobody
<1> QED BY <1>1, InitSwitch, NextSwitch, PTL DEF Spec

\* However sessions come, go and come back, across pauses and restarts, the
\* switch and its copies agree (main.rs:140-142, 168-178).
THEOREM SwitchReaches == Spec => []PauseReachesEverySession
<1>1. SwitchInv => PauseReachesEverySession BY DEF SwitchInv, DownKnowsNobody
<1> QED BY <1>1, InitSwitch, NextSwitch, PTL DEF Spec

-----------------------------------------------------------------------------
(* One chain per key.  The events of a key are neighbours in the history,  *)
(* so it is enough to compare each event with the one just before it, and  *)
(* the daemon's head with the last event.                                  *)

Follows(i) ==
  \/ /\ i > 1 /\ emitted[i - 1].key = emitted[i].key
     /\ emitted[i].ctr = emitted[i - 1].ctr + 1 /\ emitted[i].prev = emitted[i - 1].digest
  \/ /\ \A j \in 1..(i - 1) : emitted[j].key < emitted[i].key
     /\ emitted[i].ctr = 0 /\ emitted[i].prev = GENESIS_PREV

Linked == \A i \in 1..Len(emitted) : emitted[i].key <= key /\ Follows(i)

HeadFollows ==
  LET L == Len(emitted)
  IN  \/ L > 0 /\ emitted[L].key = key /\ ctr = emitted[L].ctr + 1 /\ prev = emitted[L].digest
      \/ ctr = 0 /\ prev = GENESIS_PREV /\ \A j \in 1..L : emitted[j].key < key

ChainInv == TypeOK /\ Linked /\ HeadFollows

\* Nothing but an emission or a restart touches the chain.
LEMMA ChainKept ==
  ASSUME ChainInv, TypeOK', UNCHANGED <<key, ctr, prev, emitted>>
  PROVE  ChainInv'
  BY DEF ChainInv, Linked, Follows, HeadFollows

LEMMA EmitChain ==
  ASSUME ChainInv, TypeOK', NEW n \in Nat, Emit(n), key' = key
  PROVE  ChainInv'
<1> DEFINE e == NewEvent(key, ctr, prev, n)
           L == Len(emitted)
<1>1. /\ prev' = e.digest /\ ctr' = ctr + 1 /\ emitted' = Append(emitted, e)
  BY DEF Emit
<1>2. e.key = key /\ e.ctr = ctr /\ e.prev = prev BY DEF NewEvent
<1>3. e \in EventType BY EventTyped DEF ChainInv
<1> HIDE DEF e
<1>4. L \in Nat /\ emitted \in Seq(EventType) /\ key \in Nat /\ ctr \in Nat
  BY DEF ChainInv, TypeOK
<1>5. /\ Len(emitted') = L + 1 /\ emitted'[L + 1] = e
      /\ \A i \in 1..L : emitted'[i] = emitted[i]
  BY <1>1, <1>3, <1>4, AppendProperties
<1>6. \A i \in 1..L : emitted'[i].key <= key' /\ Follows(i)'
  <2> TAKE i \in 1..L
  <2>1. emitted[i].key <= key /\ Follows(i) BY DEF ChainInv, Linked
  <2>2. emitted'[i] = emitted[i] /\ \A j \in 1..(i - 1) : emitted'[j] = emitted[j]
    BY <1>4, <1>5
  <2>3. i > 1 => emitted'[i - 1] = emitted[i - 1] BY <1>4, <1>5
  <2> QED BY <2>1, <2>2, <2>3 DEF Follows
<1>7. \A i \in {L + 1} : emitted'[i].key <= key' /\ Follows(i)'
  <2> TAKE i \in {L + 1}
  <2>1. i = L + 1 /\ i - 1 = L /\ emitted'[i] = e BY <1>4, <1>5
  <2>2. emitted'[i].key <= key' BY <1>2, <1>4, <2>1
  <2>3. CASE L > 0 /\ emitted[L].key = key /\ ctr = emitted[L].ctr + 1 /\ prev = emitted[L].digest
    <3>1. emitted'[i - 1] = emitted[L] /\ i > 1 BY <1>4, <1>5, <2>1, <2>3
    <3> QED BY <1>2, <2>1, <2>2, <2>3, <3>1 DEF Follows
  <2>4. CASE ctr = 0 /\ prev = GENESIS_PREV /\ \A j \in 1..L : emitted[j].key < key
    <3>1. \A j \in 1..(i - 1) : emitted'[j] = emitted[j] /\ emitted[j].key < key
      BY <1>5, <2>1, <2>4
    <3> QED BY <1>2, <2>1, <2>2, <2>4, <3>1 DEF Follows
  <2> QED BY <2>3, <2>4 DEF ChainInv, HeadFollows
<1>8. Linked'
  <2>1. \A i \in 1..(L + 1) : i \in 1..L \/ i \in {L + 1} BY <1>4
  <2> QED BY <1>5, <1>6, <1>7, <2>1 DEF Linked
<1>9. HeadFollows' BY <1>1, <1>2, <1>4, <1>5 DEF HeadFollows
<1> QED BY <1>8, <1>9 DEF ChainInv

LEMMA InitChain == Init => ChainInv
<1> SUFFICES ASSUME Init PROVE ChainInv OBVIOUS
<1>1. TypeOK BY InitSwitch DEF SwitchInv
<1>2. Len(emitted) = 0 /\ ctr = 0 /\ prev = GENESIS_PREV BY DEF Init
<1> QED BY <1>1, <1>2 DEF ChainInv, Linked, HeadFollows

\* A fresh key is above every key that has signed.
LEMMA RestartChain ==
  ASSUME ChainInv, TypeOK', Restart
  PROVE  ChainInv'
<1>1. /\ key' = key + 1 /\ ctr' = 0 /\ prev' = GENESIS_PREV /\ emitted' = emitted
      /\ key \in Nat /\ emitted \in Seq(EventType)
  BY DEF Restart, FreshKey, ChainInv, TypeOK
<1>2. \A i \in 1..Len(emitted) : emitted[i].key \in Nat /\ emitted[i].key <= key
  <2> TAKE i \in 1..Len(emitted)
  <2>1. emitted[i] \in EventType BY <1>1
  <2> QED BY <2>1 DEF ChainInv, Linked, EventType
<1>3. \A i \in 1..Len(emitted) : emitted[i].key < key + 1
  BY <1>1, <1>2
<1>4. Linked'
  BY <1>1, <1>2, <1>3 DEF ChainInv, Linked, Follows
<1>5. HeadFollows' BY <1>1, <1>3 DEF HeadFollows
<1> QED BY <1>4, <1>5 DEF ChainInv

LEMMA StopChain ==
  ASSUME ChainInv, TypeOK', NEW id \in Sessions, Stop(id)
  PROVE  ChainInv'
<1> DEFINE n == StopImpressions(Entry(id), now)
<1>1. TypeOK /\ now \in Nat BY DEF ChainInv, TypeOK
<1>2. Entry(id) \in SessionType BY <1>1, EntryTyped
<1>3. n \in Nat BY <1>1, <1>2, EngineTypes
<1>4. key' = key /\ IF n > 0 THEN Emit(n) ELSE UNCHANGED chain BY DEF Stop
<1> HIDE DEF n
<1>5. CASE n > 0 BY <1>3, <1>4, <1>5, EmitChain
<1>6. CASE ~(n > 0) BY <1>4, <1>6, ChainKept DEF chain
<1> QED BY <1>5, <1>6

LEMMA NextChain == ChainInv /\ TypeOK' /\ [Next]_vars => ChainInv'
<1> SUFFICES ASSUME ChainInv, TypeOK', [Next]_vars PROVE ChainInv' OBVIOUS
<1>1. CASE Restart BY <1>1, RestartChain
<1>2. CASE \E id \in Sessions : Stop(id) BY <1>2, StopChain
<1>3. CASE UNCHANGED <<key, ctr, prev, emitted>> BY <1>3, ChainKept
<1>4. CASE Tick \/ ClockBack \/ Crash \/ \E v \in BOOLEAN : PauseResume(v)
  BY <1>4, <1>3 DEF Tick, ClockBack, Crash, PauseResume, chain
<1>5. ASSUME NEW id \in Sessions,
             \/ UserPromptSubmit(id) \/ PreToolUse(id) \/ PostToolUse(id) \/ OtherHook(id)
             \/ SessionEnd(id) \/ Heartbeat(id)
      PROVE  ChainInv'
  BY <1>5, <1>3 DEF UserPromptSubmit, PreToolUse, PostToolUse, OtherHook, Hook,
                    SessionEnd, Heartbeat, chain
<1>6. CASE UNCHANGED vars BY <1>3, <1>6 DEF vars, chain
<1> QED BY <1>1, <1>2, <1>4, <1>5, <1>6 DEF Next

\* The last event of the same key is the event just before.
LEMMA LinkedIsOneChain == ChainInv => OneChainPerKey
<1> SUFFICES ASSUME ChainInv, NEW i \in 1..Len(emitted)
             PROVE  LET e == emitted[i]
                        earlier == {j \in 1..(i - 1) : emitted[j].key = e.key}
                    IN  IF earlier = {}
                          THEN e.ctr = 0 /\ e.prev = GENESIS_PREV
                          ELSE LET p == emitted[CHOOSE j \in earlier : \A k \in earlier : k <= j]
                               IN  e.ctr = p.ctr + 1 /\ e.prev = p.digest
  BY DEF OneChainPerKey
<1> DEFINE earlier == {j \in 1..(i - 1) : emitted[j].key = emitted[i].key}
           m == CHOOSE j \in earlier : \A k \in earlier : k <= j
<1>1. Follows(i) /\ emitted \in Seq(EventType) BY DEF ChainInv, Linked, TypeOK
<1>2. i \in Nat /\ \A j \in 1..i : emitted[j].key \in Nat
  <2>1. i \in Nat /\ \A j \in 1..i : emitted[j] \in EventType BY <1>1
  <2> QED BY <2>1 DEF EventType
<1>3. CASE /\ i > 1 /\ emitted[i - 1].key = emitted[i].key
           /\ emitted[i].ctr = emitted[i - 1].ctr + 1 /\ emitted[i].prev = emitted[i - 1].digest
  <2>1. i - 1 \in earlier /\ \A k \in earlier : k <= i - 1 BY <1>2, <1>3
  <2>2. m \in earlier /\ \A k \in earlier : k <= m BY <2>1
  <2> HIDE DEF m
  <2>3. m = i - 1
    <3>1. m \in Int BY <2>2
    <3>2. m <= i - 1 /\ i - 1 <= m BY <2>1, <2>2
    <3> QED BY <1>2, <3>1, <3>2
  <2>4. emitted[i].ctr = emitted[m].ctr + 1 /\ emitted[i].prev = emitted[m].digest
    BY <1>3, <2>3
  <2>5. earlier # {} BY <2>1
  <2> QED BY <2>4, <2>5 DEF m
<1>4. CASE /\ \A j \in 1..(i - 1) : emitted[j].key < emitted[i].key
           /\ emitted[i].ctr = 0 /\ emitted[i].prev = GENESIS_PREV
  <2>1. earlier = {} BY <1>2, <1>4
  <2> QED BY <1>4, <2>1
<1> QED BY <1>1, <1>3, <1>4 DEF Follows

\* Over any number of restarts each key signs one chain from genesis, in the
\* order of its counters (main.rs:101-121, 185-201).
THEOREM ChainPerKey == Spec => []OneChainPerKey
<1>1. SwitchInv => TypeOK BY DEF SwitchInv
<1>2. Spec => []SwitchInv BY InitSwitch, NextSwitch, PTL DEF Spec
<1> QED BY <1>1, <1>2, InitChain, NextChain, LinkedIsOneChain, PTL DEF Spec

-----------------------------------------------------------------------------
(* A session earns by its own heartbeats: those it holds are unspent. *)

\* A session no hook has named holds none.
Held(id) == IF id \in DOMAIN sessions THEN Cardinality(sessions[id].heartbeats) ELSE 0

Balanced(id) ==
  /\ id \in DOMAIN sessions => GateInv(sessions[id], now, backs)
  /\ earned[id] * IMPRESSION_SECONDS + Held(id) * Permits(backs) <= beats[id] * Permits(backs)

BeatsInv == \A id \in Sessions : Balanced(id)

LEMMA InitBeats == Init => BeatsInv
<1> SUFFICES ASSUME Init, NEW id \in Sessions PROVE Balanced(id) BY DEF BeatsInv
<1>1. id \notin DOMAIN sessions /\ earned[id] = 0 /\ beats[id] = 0 /\ backs \in Nat
  BY DEF Init, NoSessions
<1>2. Held(id) = 0 BY <1>1 DEF Held
<1> QED BY <1>1, <1>2, PermitsNat, EngineAssumption DEF Balanced

LEMMA HeldNat ==
  ASSUME NEW id, Balanced(id)
  PROVE  Held(id) \in Nat
  BY FS_CardinalityType DEF Balanced, Held, GateInv

LEMMA EntryBalanced ==
  ASSUME TypeOK, NEW id \in Sessions, Balanced(id)
  PROVE  /\ Entry(id) \in SessionType /\ GateInv(Entry(id), now, backs)
         /\ Cardinality(Entry(id).heartbeats) = Held(id)
<1> DEFINE s == IF id \in DOMAIN sessions THEN sessions[id] ELSE NewSession
<1>1. now \in Nat /\ paused \in BOOLEAN /\ backs \in Nat BY DEF TypeOK
<1>2. s \in SessionType /\ GateInv(s, now, backs) /\ Cardinality(s.heartbeats) = Held(id)
  <2>1. CASE id \in DOMAIN sessions BY <2>1 DEF TypeOK, Balanced, Held
  <2>2. CASE id \notin DOMAIN sessions BY <1>1, <2>2, NewSessionGate
    DEF Held, NewSession, SessionType, Phase, NotOpen
  <2> QED BY <2>1, <2>2
<1>3. Entry(id) = SetPaused(s, paused) BY DEF Entry
<1> HIDE DEF s
<1>4. Entry(id) \in SessionType BY EntryTyped
<1>5. GateInv(SetPaused(s, paused), now, backs) /\ SetPaused(s, paused).heartbeats = s.heartbeats
  BY <1>1, <1>2, GateKept
<1> QED BY <1>2, <1>3, <1>4, <1>5

\* A session that a step does not name stays balanced.
LEMMA OthersBalanced ==
  ASSUME TypeOK, NEW id \in Sessions, Balanced(id), now' \in Nat, now <= now', UNCHANGED backs,
         id \in DOMAIN sessions' => id \in DOMAIN sessions /\ sessions'[id] = sessions[id],
         earned'[id] = earned[id], beats'[id] = beats[id]
  PROVE  Balanced(id)'
<1>1. /\ now \in Nat /\ (id \in DOMAIN sessions => sessions[id] \in SessionType)
      /\ backs \in Nat /\ Permits(backs) \in Nat
  BY PermitsNat DEF TypeOK
<1>2. id \in DOMAIN sessions' => GateInv(sessions'[id], now', backs')
  BY <1>1, GateLater DEF Balanced
<1>3. Held(id) \in Nat /\ Held(id)' \in Nat /\ Held(id)' <= Held(id) + 0
  <2>1. Held(id) \in Nat BY HeldNat
  <2>2. Held(id)' = Held(id) \/ Held(id)' = 0 BY DEF Held
  <2> QED BY <2>1, <2>2
<1>4. earned[id] \in Nat /\ beats[id] \in Nat BY DEF TypeOK
<1>5. earned[id] * IMPRESSION_SECONDS + Held(id) * Permits(backs) <= beats[id] * Permits(backs)
  BY DEF Balanced
<1>6. earned[id] * IMPRESSION_SECONDS + Held(id)' * Permits(backs)
        <= (beats[id] + 0) * Permits(backs)
  <2>1. earned[id] * IMPRESSION_SECONDS \in Nat BY <1>4, Distributes, EngineAssumption
  <2> QED BY <1>1, <1>3, <1>4, <1>5, <2>1, SpendLater
<1>7. beats[id] + 0 = beats[id] BY <1>4
<1> QED BY <1>2, <1>6, <1>7 DEF Balanced

\* The session a step names stays balanced when it holds no more heartbeats
\* than it received and those it pays with are spent.
LEMMA NamedBalanced ==
  ASSUME TypeOK, NEW id \in Sessions, Balanced(id), UNCHANGED <<now, backs>>,
         NEW s, sessions'[id] = s, id \in DOMAIN sessions', GateInv(s, now, backs),
         NEW n \in Nat, NEW spent \in Nat, NEW db \in Nat,
         n * IMPRESSION_SECONDS <= spent * Permits(backs),
         Cardinality(s.heartbeats) + spent <= Held(id) + db,
         earned'[id] = earned[id] + n, beats'[id] = beats[id] + db
  PROVE  Balanced(id)'
<1> DEFINE x == earned[id] * IMPRESSION_SECONDS
           y == n * IMPRESSION_SECONDS
           z == beats[id] * Permits(backs)
           w == db * Permits(backs)
           a == Held(id)
           b == Cardinality(s.heartbeats)
<1>1. Held(id)' = b BY DEF Held
<1>2. earned[id] \in Nat /\ beats[id] \in Nat /\ Permits(backs) \in Nat
  BY PermitsNat DEF TypeOK
<1>3. a \in Nat /\ b \in Nat BY HeldNat, FS_CardinalityType DEF GateInv
<1>4. x \in Nat /\ y \in Nat /\ z \in Nat /\ w \in Nat
  BY <1>2, EngineAssumption, Distributes
<1>5. (earned[id] + n) * IMPRESSION_SECONDS = x + y
      /\ (beats[id] + db) * Permits(backs) = z + w
  BY <1>2, EngineAssumption, Distributes
<1>6. x + a * Permits(backs) <= z BY DEF Balanced
<1>7. b + spent <= a + db /\ y <= spent * Permits(backs) OBVIOUS
<1>8. (a + db) * Permits(backs) = a * Permits(backs) + w /\ a * Permits(backs) \in Nat
  BY <1>2, <1>3, Distributes
<1> HIDE DEF x, y, z, w, a, b
<1>9. x + (a + db) * Permits(backs) <= z + w /\ a + db \in Nat /\ z + w \in Nat
  <2> DEFINE v == a * Permits(backs)
  <2>1. v \in Nat /\ x + v <= z /\ (a + db) * Permits(backs) = v + w BY <1>6, <1>8
  <2> HIDE DEF v
  <2>2. x + (v + w) <= z + w BY <1>4, <2>1
  <2> QED BY <1>3, <1>4, <2>1, <2>2
<1>10. (x + y) + b * Permits(backs) <= z + w
  BY <1>3, <1>4, <1>7, <1>9, <1>2, SpendNow
<1>11. GateInv(sessions'[id], now', backs') OBVIOUS
<1>12. earned'[id] * IMPRESSION_SECONDS + Held(id)' * Permits(backs) <= beats'[id] * Permits(backs)
  BY <1>1, <1>5, <1>10
<1> QED BY <1>11, <1>12 DEF Balanced

\* A hook handled for one session, what it pays and what it adds included.
LEMMA WithBalanced ==
  ASSUME TypeOK, BeatsInv, NEW id \in Sessions, NEW s, sessions' = With(id, s),
         GateInv(s, now, backs), UNCHANGED <<now, backs>>,
         NEW n \in Nat, NEW spent \in Nat, NEW db \in Nat,
         n * IMPRESSION_SECONDS <= spent * Permits(backs),
         Cardinality(s.heartbeats) + spent <= Held(id) + db,
         earned'[id] = earned[id] + n, beats'[id] = beats[id] + db,
         \A x \in Sessions \ {id} : earned'[x] = earned[x] /\ beats'[x] = beats[x]
  PROVE  BeatsInv'
<1> SUFFICES ASSUME NEW x \in Sessions PROVE Balanced(x)' BY DEF BeatsInv
<1>1. now \in Nat /\ now' = now /\ now <= now' /\ backs' = backs BY DEF TypeOK
<1>2. Balanced(x) /\ Balanced(id) BY DEF BeatsInv
<1>3. CASE x = id
  <2>1. id \in DOMAIN sessions' /\ sessions'[id] = s BY DEF With
  <2>2. Balanced(id)' BY <1>2, <2>1, NamedBalanced
  <2> QED BY <1>3, <2>2
<1>4. CASE x # id
  <2>1. x \in DOMAIN sessions' => x \in DOMAIN sessions /\ sessions'[x] = sessions[x]
    BY <1>4 DEF With
  <2>2. earned'[x] = earned[x] /\ beats'[x] = beats[x] BY <1>4
  <2> QED BY <1>1, <1>2, <2>1, <2>2, OthersBalanced
<1> QED BY <1>3, <1>4

\* A hook that pays nothing and holds no more heartbeats than before.
LEMMA HookBalanced ==
  ASSUME TypeOK, BeatsInv, NEW id \in Sessions, NEW s, Hook(id, s), GateInv(s, now, backs),
         Cardinality(s.heartbeats) <= Held(id)
  PROVE  BeatsInv'
<1>1. sessions' = With(id, s) /\ UNCHANGED <<now, earned, beats, backs>> BY DEF Hook
<1>2. earned[id] \in Nat /\ beats[id] \in Nat BY DEF TypeOK
<1>3. earned'[id] = earned[id] + 0 /\ beats'[id] = beats[id] + 0 BY <1>1, <1>2
<1>4. Cardinality(s.heartbeats) \in Nat BY FS_CardinalityType DEF GateInv
<1>5. Held(id) \in Nat BY HeldNat DEF BeatsInv
<1>6. Cardinality(s.heartbeats) + 0 <= Held(id) + 0 BY <1>4, <1>5
<1>8. Permits(backs) \in Nat BY PermitsNat DEF TypeOK
<1>7. 0 * IMPRESSION_SECONDS <= 0 * Permits(backs) BY <1>8, EngineAssumption
<1> QED BY <1>1, <1>3, <1>6, <1>7, WithBalanced

\* A clock stepped back: what the held heartbeats permit grows by one window
\* each, so the balance holds at the larger number of ticks.
LEMMA BackBalanced ==
  ASSUME TypeOK, ClockBack, NEW id \in Sessions, Balanced(id)
  PROVE  Balanced(id)'
<1>1. /\ now' \in 0..(now - 1) /\ backs' = backs + 1
      /\ UNCHANGED <<sessions, earned, beats>>
  BY DEF ClockBack
<1>2. /\ now \in Nat /\ now' \in Nat /\ backs \in Nat
      /\ earned[id] \in Nat /\ beats[id] \in Nat
      /\ id \in DOMAIN sessions => sessions[id] \in SessionType
  BY <1>1 DEF TypeOK
<1>3. id \in DOMAIN sessions => GateInv(sessions[id], now', backs + 1)
  BY <1>2, GateBack DEF Balanced
<1> DEFINE x == earned[id] * IMPRESSION_SECONDS
           u == Held(id)
           n == Permits(backs)
           m == Permits(backs + 1)
<1>4. x \in Nat BY <1>2, EngineAssumption, Distributes
<1>5. u \in Nat BY HeldNat
<1>6. n \in Nat \ {0} /\ m \in Nat /\ n <= m BY <1>2, PermitsNat
<1>7. x + u * n <= beats[id] * n BY DEF Balanced
<1>8. Held(id)' = Held(id) BY <1>1 DEF Held
<1> HIDE DEF x, u, n, m
<1>9. x + u * m <= beats[id] * m BY <1>2, <1>4, <1>5, <1>6, <1>7, WorthMore
<1> QED BY <1>1, <1>3, <1>8, <1>9 DEF Balanced, x, u, m

LEMMA NextBeats == TypeOK /\ TypeOK' /\ BeatsInv /\ [Next]_vars => BeatsInv'
<1> SUFFICES ASSUME TypeOK, TypeOK', BeatsInv, [Next]_vars PROVE BeatsInv' OBVIOUS
<1>1. now \in Nat /\ paused \in BOOLEAN /\ backs \in Nat BY DEF TypeOK
<1>0. Permits(backs) \in Nat BY <1>1, PermitsNat
<1>2. ASSUME now' \in {now, now + 1}, UNCHANGED <<earned, beats, backs>>,
             \A x \in DOMAIN sessions' : x \in DOMAIN sessions /\ sessions'[x] = sessions[x]
      PROVE  BeatsInv'
  <2> SUFFICES ASSUME NEW x \in Sessions PROVE Balanced(x)' BY DEF BeatsInv
  <2>1. Balanced(x) /\ now' \in Nat /\ now <= now' BY <1>1, <1>2 DEF BeatsInv
  <2> QED BY <1>2, <2>1, OthersBalanced
<1>3. CASE Tick \/ Restart \/ UNCHANGED vars
  BY <1>2, <1>3 DEF Tick, Restart, vars
<1>4. CASE Crash BY <1>2, <1>4 DEF Crash, NoSessions
<1>5. ASSUME NEW v \in BOOLEAN, PauseResume(v) PROVE BeatsInv'
  <2> SUFFICES ASSUME NEW x \in Sessions PROVE Balanced(x)' BY DEF BeatsInv
  <2>1. /\ sessions' = SetPausedAll(sessions, v) /\ UNCHANGED <<now, earned, beats, backs>>
    BY <1>5 DEF PauseResume
  <2>2. Balanced(x) BY DEF BeatsInv
  <2>3. CASE x \in DOMAIN sessions
    <3>1. x \in DOMAIN sessions' /\ sessions'[x] = SetPaused(sessions[x], v)
      BY <2>1, <2>3 DEF SetPausedAll
    <3>2. sessions[x] \in SessionType /\ GateInv(sessions[x], now, backs)
      BY <2>2, <2>3 DEF TypeOK, Balanced
    <3>3. GateInv(sessions'[x], now, backs) /\ sessions'[x].heartbeats = sessions[x].heartbeats
      BY <1>1, <3>1, <3>2, GateKept
    <3>4. Held(x)' = Held(x) BY <2>3, <3>1, <3>3 DEF Held
    <3> QED BY <2>1, <2>2, <3>3, <3>4 DEF Balanced
  <2>4. CASE x \notin DOMAIN sessions
    <3>1. x \notin DOMAIN sessions' BY <2>1, <2>4 DEF SetPausedAll
    <3> QED BY <1>1, <2>1, <2>2, <3>1, OthersBalanced
  <2> QED BY <2>3, <2>4
<1>6. ASSUME NEW id \in Sessions, SessionEnd(id) PROVE BeatsInv'
  <2>1. sessions' = Without(id) /\ UNCHANGED <<now, earned, beats, backs>> BY <1>6 DEF SessionEnd
  <2> QED BY <1>2, <2>1 DEF Without
<1>7. ASSUME NEW id \in Sessions, Heartbeat(id) PROVE BeatsInv'
  <2>1. /\ sessions' = HeartbeatEffect(id) /\ beats' = [beats EXCEPT ![id] = @ + 1]
        /\ UNCHANGED <<now, earned, backs>>
    BY <1>7 DEF Heartbeat
  <2>2. /\ beats'[id] = beats[id] + 1 /\ earned[id] \in Nat /\ earned'[id] = earned[id] + 0
        /\ \A x \in Sessions \ {id} : earned'[x] = earned[x] /\ beats'[x] = beats[x]
    <3>1. earned[id] \in Nat BY DEF TypeOK
    <3> QED BY <2>1, <3>1 DEF TypeOK
  <2>3. 0 * IMPRESSION_SECONDS <= 0 * Permits(backs) BY <1>0, EngineAssumption
  <2>4. Balanced(id) /\ Held(id) \in Nat BY HeldNat DEF BeatsInv
  <2>5. CASE id \in DOMAIN sessions
    <3> DEFINE s == OnHeartbeat(sessions[id], now)
    <3>1. sessions[id] \in SessionType /\ GateInv(sessions[id], now, backs)
          /\ Held(id) = Cardinality(sessions[id].heartbeats)
      BY <2>4, <2>5 DEF TypeOK, Balanced, Held
    <3>2. GateInv(s, now, backs) /\ Cardinality(s.heartbeats) <= Held(id) + 1
      BY <1>1, <3>1, GateKept
    <3>3. sessions' = With(id, s) BY <2>1, <2>5 DEF HeartbeatEffect
    <3> HIDE DEF s
    <3>4. Cardinality(s.heartbeats) + 0 <= Held(id) + 1
      <4>1. Cardinality(s.heartbeats) \in Nat BY <3>2, FS_CardinalityType DEF GateInv
      <4> QED BY <2>4, <3>2, <4>1
    <3> QED BY <2>1, <2>2, <2>3, <3>2, <3>3, <3>4, WithBalanced
  <2>6. CASE id \notin DOMAIN sessions
    <3> SUFFICES ASSUME NEW x \in Sessions PROVE Balanced(x)' BY DEF BeatsInv
    <3>1. sessions' = sessions BY <2>1, <2>6 DEF HeartbeatEffect
    <3>2. Balanced(x) BY DEF BeatsInv
    <3>3. CASE x # id
      <4>1. beats'[x] = beats[x] BY <2>2, <3>3
      <4> QED BY <1>1, <2>1, <3>1, <3>2, <4>1, OthersBalanced
    <3>4. CASE x = id
      <4>1. Held(id) = 0 /\ Held(id)' = 0 BY <2>6, <3>1 DEF Held
      <4>2. earned[id] * IMPRESSION_SECONDS + 0 * Permits(backs) <= beats[id] * Permits(backs)
        BY <2>4, <4>1 DEF Balanced
      <4>3. beats[id] \in Nat /\ earned[id] * IMPRESSION_SECONDS \in Nat
        BY <2>2, Distributes, EngineAssumption DEF TypeOK
      <4>4. earned[id] * IMPRESSION_SECONDS + 0 * Permits(backs) <= (beats[id] + 1) * Permits(backs)
        <5>1. 0 \in Nat /\ 1 \in Nat /\ 0 <= 0 + 1 OBVIOUS
        <5> QED BY <1>0, <4>2, <4>3, <5>1, SpendLater
      <4>5. Balanced(id)' BY <2>1, <2>2, <2>6, <3>1, <4>1, <4>4 DEF Balanced
      <4> QED BY <3>4, <4>5
    <3> QED BY <3>3, <3>4
  <2> QED BY <2>5, <2>6
<1>8. ASSUME NEW id \in Sessions,
             \/ UserPromptSubmit(id) \/ PreToolUse(id) \/ PostToolUse(id) \/ OtherHook(id)
             \/ Stop(id)
      PROVE  BeatsInv'
  <2> DEFINE s == Entry(id)
             n == StopImpressions(s, now)
  <2>1. s \in SessionType /\ GateInv(s, now, backs) /\ Cardinality(s.heartbeats) = Held(id)
    BY EntryBalanced DEF BeatsInv
  <2>2. Held(id) \in Nat /\ Cardinality({}) = 0 BY HeldNat, FS_EmptySet DEF BeatsInv
  <2>3. CASE UserPromptSubmit(id)
    <3>1. Hook(id, OnPromptSubmit(s, now)) BY <2>3 DEF UserPromptSubmit
    <3> HIDE DEF s
    <3>2. GateInv(OnPromptSubmit(s, now), now, backs)
          /\ OnPromptSubmit(s, now).heartbeats = {}
      BY <1>1, <2>1, GateKept
    <3>3. Cardinality(OnPromptSubmit(s, now).heartbeats) = 0 BY <2>2, <3>2
    <3>4. Cardinality(OnPromptSubmit(s, now).heartbeats) <= Held(id) BY <2>2, <3>3
    <3> QED BY <3>1, <3>2, <3>4, HookBalanced
  <2>4. CASE PreToolUse(id)
    <3>1. Hook(id, OnPreTool(s, now)) BY <2>4 DEF PreToolUse
    <3> HIDE DEF s
    <3>2. GateInv(OnPreTool(s, now), now, backs)
          /\ Cardinality(OnPreTool(s, now).heartbeats) <= Held(id)
      BY <1>1, <2>1, <2>2, GateKept
    <3> QED BY <3>1, <3>2, HookBalanced
  <2>5. CASE PostToolUse(id)
    <3>1. Hook(id, OnPostTool(s, now)) BY <2>5 DEF PostToolUse
    <3> HIDE DEF s
    <3>2. GateInv(OnPostTool(s, now), now, backs)
          /\ Cardinality(OnPostTool(s, now).heartbeats) <= Held(id)
      BY <1>1, <2>1, <2>2, GateKept
    <3> QED BY <3>1, <3>2, HookBalanced
  <2>6. CASE OtherHook(id)
    <3>1. Hook(id, s) BY <2>6 DEF OtherHook
    <3> HIDE DEF s
    <3>2. Cardinality(s.heartbeats) <= Held(id) BY <2>1, <2>2
    <3> QED BY <2>1, <3>1, <3>2, HookBalanced
  <2>7. CASE Stop(id)
    <3>1. /\ sessions' = With(id, OnStop(s, now)) /\ UNCHANGED <<now, beats, backs>>
          /\ earned' = [earned EXCEPT ![id] = @ + n]
      BY <2>7 DEF Stop
    <3> HIDE DEF s
    <3>2. n \in Nat /\ n * IMPRESSION_SECONDS <= Held(id) * Permits(backs)
      BY <1>1, <2>1, EngineTypes, StopAttested
    <3>3. GateInv(OnStop(s, now), now, backs) /\ Cardinality(OnStop(s, now).heartbeats) = 0
      BY <1>1, <2>1, <2>2, GateKept
    <3> HIDE DEF n
    <3>4. /\ earned'[id] = earned[id] + n /\ beats[id] \in Nat /\ beats'[id] = beats[id] + 0
          /\ \A x \in Sessions \ {id} : earned'[x] = earned[x] /\ beats'[x] = beats[x]
      <4>1. beats[id] \in Nat BY DEF TypeOK
      <4> QED BY <3>1, <4>1 DEF TypeOK
    <3>5. Cardinality(OnStop(s, now).heartbeats) + Held(id) <= Held(id) + 0
      BY <2>2, <3>3
    <3> QED BY <2>2, <3>1, <3>2, <3>3, <3>4, <3>5, WithBalanced
  <2> QED BY <1>8, <2>3, <2>4, <2>5, <2>6, <2>7
<1>9. CASE ClockBack
  <2> SUFFICES ASSUME NEW x \in Sessions PROVE Balanced(x)' BY DEF BeatsInv
  <2> QED BY <1>9, BackBalanced DEF BeatsInv
<1> QED BY <1>3, <1>4, <1>5, <1>6, <1>7, <1>8, <1>9 DEF Next

LEMMA BalancedIsAttested == TypeOK /\ BeatsInv => OwnHeartbeatsAttest
<1> SUFFICES ASSUME TypeOK, BeatsInv, NEW id \in Sessions
             PROVE  earned[id] * IMPRESSION_SECONDS <= beats[id] * Permits(backs)
  BY DEF OwnHeartbeatsAttest, Windows, Permits, GateTicks
<1> DEFINE x == earned[id] * IMPRESSION_SECONDS
           u == Held(id) * Permits(backs)
           v == beats[id] * Permits(backs)
<1>1. Held(id) \in Nat BY HeldNat DEF BeatsInv
<1>2. earned[id] \in Nat /\ beats[id] \in Nat /\ Permits(backs) \in Nat
  BY PermitsNat DEF TypeOK
<1>3. x \in Nat /\ u \in Nat /\ v \in Nat
  BY <1>1, <1>2, EngineAssumption, Distributes
<1>4. x + u <= v BY DEF BeatsInv, Balanced
<1> HIDE DEF x, u, v
<1>5. x <= v BY <1>3, <1>4
<1> QED BY <1>5 DEF x, v

\* Through session ends, crashes, restarts and steps back of the clock, a session
\* earns by its own heartbeats only (main.rs:137-165; engine.rs:139-163).
THEOREM OwnHeartbeats == Spec => []OwnHeartbeatsAttest
<1>1. SwitchInv => TypeOK BY DEF SwitchInv
<1>2. Spec => []SwitchInv BY InitSwitch, NextSwitch, PTL DEF Spec
<1> QED BY <1>1, <1>2, InitBeats, NextBeats, BalancedIsAttested, PTL DEF Spec

-----------------------------------------------------------------------------
(* Recursion over the first numbers: the numbers a length prefix stands for. *)

LEMMA NatRecursion ==
  ASSUME NEW n \in Nat, NEW base \in Nat, NEW step \in [1..n -> [Nat -> Nat]]
  PROVE  \E f \in [0..n -> Nat] : Iterates(f, n, base, step)
<1> DEFINE S == Nat
<1>1. base \in S /\ step \in [1..n -> [S -> S]] OBVIOUS
<1> HIDE DEF S
<1>2. \E f \in [0..n -> S] : Iterates(f, n, base, step)
  BY <1>1, Recursion
<1> QED BY <1>2 DEF S

-----------------------------------------------------------------------------
(* The length prefix. *)

LEMMA PowerValues ==
  ASSUME NEW k \in Nat
  PROVE  \E p \in [0..k -> Nat] :
           /\ p[0] = 1
           /\ \A i \in 1..k : p[i] = BASE * p[i - 1]
           /\ Power(k) = p[k]
<1> DEFINE step == [i \in 1..k |-> [v \in Nat |-> BASE * v]]
           Def(f) == [i \in 0..k |-> IF i = 0 THEN 1 ELSE BASE * f[i - 1]]
           power == CHOOSE f : f = Def(f)
<1>1. BASE \in Nat BY QueueAssumption
<1>2. /\ step \in [1..k -> [Nat -> Nat]]
      /\ \A i \in 1..k, v \in Nat : step[i][v] = BASE * v
  BY <1>1
<1> HIDE DEF step
<1>3. PICK f \in [0..k -> Nat] : Iterates(f, k, 1, step)
  BY <1>2, NatRecursion
<1>4. f = Def(f)
  <2>1. ASSUME NEW i \in 1..k PROVE f[i] = BASE * f[i - 1]
    <3>1. i - 1 \in 0..k /\ f[i - 1] \in Nat /\ f[i] = step[i][f[i - 1]] BY <1>3 DEF Iterates
    <3> QED BY <1>2, <3>1
  <2>3. \A i \in 0..k : f[i] = IF i = 0 THEN 1 ELSE BASE * f[i - 1] BY <1>3, <2>1 DEF Iterates
  <2>2. f = [i \in 0..k |-> f[i]] OBVIOUS
  <2> QED BY <2>2, <2>3
<1>5. power = Def(power) BY <1>4
<1>6. Power(k) = power[k] BY DEF Power
<1> DEFINE T == {i \in 0..k : power[i] \in Nat}
<1> HIDE DEF power
<1>7. \A i \in 0..k : power[i] = IF i = 0 THEN 1 ELSE BASE * power[i - 1] BY <1>5
<1>8. \A i \in 0..k : i \in T
  <2>1. 0 \in T BY <1>7
  <2>2. \A i \in 0..(k - 1) : i \in T => i + 1 \in T
    <3> SUFFICES ASSUME NEW i \in 0..(k - 1), power[i] \in Nat PROVE power[i + 1] \in Nat
      OBVIOUS
    <3>1. power[i + 1] = BASE * power[i] BY <1>7
    <3> QED BY <1>1, <3>1
  <2> HIDE DEF T
  <2> QED BY <2>1, <2>2, UpTo
<1>9. power \in [0..k -> Nat]
  <2>1. power = [i \in 0..k |-> power[i]] BY <1>5
  <2>2. \A i \in 0..k : power[i] \in Nat BY <1>8
  <2> QED BY <2>1, <2>2
<1>10. power[0] = 1 /\ \A i \in 1..k : power[i] = BASE * power[i - 1] BY <1>7
<1> QED BY <1>6, <1>9, <1>10

LEMMA PowerFacts ==
  /\ Power(0) = 1
  /\ \A k \in Nat : /\ Power(k) \in Nat \ {0}
                    /\ Power(k + 1) = BASE * Power(k)
<1>1. Power(0) = 1
  <2>1. PICK p \in [0..0 -> Nat] : p[0] = 1 /\ Power(0) = p[0] BY PowerValues, 0 \in Nat
  <2> QED BY <2>1
<1>2. ASSUME NEW k \in Nat
      PROVE  Power(k) \in Nat \ {0} /\ Power(k + 1) = BASE * Power(k)
  <2>1. PICK p \in [0..k -> Nat] :
          /\ p[0] = 1 /\ \A i \in 1..k : p[i] = BASE * p[i - 1]
          /\ Power(k) = p[k]
    BY PowerValues
  <2>2. PICK q \in [0..(k + 1) -> Nat] :
          /\ q[0] = 1 /\ \A i \in 1..(k + 1) : q[i] = BASE * q[i - 1]
          /\ Power(k + 1) = q[k + 1]
    BY PowerValues, k + 1 \in Nat
  <2> DEFINE T == {i \in 0..k : p[i] = q[i] /\ p[i] # 0}
  <2>3. 0 \in T BY <2>1, <2>2
  <2>4. ASSUME NEW i \in 0..(k - 1), i \in T PROVE i + 1 \in T
    <3>1. p[i + 1] = BASE * p[i] /\ q[i + 1] = BASE * q[i] BY <2>1, <2>2
    <3>2. BASE \in Nat \ {0} BY QueueAssumption
    <3>3. p[i] \in Nat \ {0} /\ p[i] = q[i] BY <2>1, <2>4
    <3>4. BASE * p[i] # 0 BY <3>2, <3>3
    <3> QED BY <3>1, <3>3, <3>4
  <2>5. k \in T
    <3>1. \A i \in 0..(k - 1) : i \in T => i + 1 \in T BY <2>4
    <3> HIDE DEF T
    <3>2. \A i \in 0..k : i \in T BY <2>3, <3>1, UpTo
    <3> QED BY <3>2
  <2> QED BY <2>1, <2>2, <2>5
<1> QED BY <1>1, <1>2

\* Dropping one more digit divides by the base once more.
LEMMA DivDiv ==
  ASSUME NEW x \in Nat, NEW p \in Nat \ {0}, NEW b \in Nat \ {0}
  PROVE  /\ x \div (b * p) \in Nat /\ x \div p \in Nat
         /\ x \div p = (x \div (b * p)) * b + ((x \div p) % b)
<1> DEFINE q == x \div p  u == q \div b
<1>1. q \in Nat /\ q * p <= x /\ x < (q + 1) * p OBVIOUS
<1> HIDE DEF q
<1>2. u \in Nat /\ u * b <= q /\ q < (u + 1) * b /\ q = u * b + (q % b)
  <2>1. u \in Nat /\ u * b <= q /\ q < (u + 1) * b BY <1>1
  <2>2. q = u * b + (q % b) BY <1>1
  <2> QED BY <2>1, <2>2
<1>3. b * p \in Nat \ {0} OBVIOUS
<1> HIDE DEF u
<1>4. u * (b * p) <= x
  <2>1. (u * b) * p <= q * p BY <1>1, <1>2
  <2>2. (u * b) * p = u * (b * p) BY <1>2
  <2> QED BY <1>1, <1>3, <1>2, <2>1, <2>2
<1>5. x < (u + 1) * (b * p)
  <2>1. q + 1 <= (u + 1) * b BY <1>1, <1>2
  <2>2. (q + 1) * p <= ((u + 1) * b) * p BY <1>1, <1>2, <2>1
  <2>3. ((u + 1) * b) * p = (u + 1) * (b * p) BY <1>2
  <2> QED BY <1>1, <1>2, <1>3, <2>2, <2>3
<1>6. x \div (b * p) = u BY <1>2, <1>3, <1>4, <1>5
<1> QED BY <1>1, <1>2, <1>6 DEF q

LEMMA ToBytesTyped ==
  ASSUME NEW len \in Nat
  PROVE  /\ ToBytes(len) \in Seq(Byte)
         /\ Len(ToBytes(len)) = HEADER
         /\ \A i \in 1..HEADER :
              ToBytes(len)[i] = (len \div Power(HEADER - i)) % BASE
<1>1. HEADER \in Nat \ {0} /\ BASE \in Nat \ {0} BY QueueAssumption
<1>2. ASSUME NEW i \in 1..HEADER
      PROVE  (len \div Power(HEADER - i)) % BASE \in Byte
  <2>1. HEADER - i \in Nat BY <1>1
  <2>2. Power(HEADER - i) \in Nat \ {0} BY <2>1, PowerFacts
  <2>3. len \div Power(HEADER - i) \in Nat BY <2>2
  <2> QED BY <1>1, <2>3 DEF Byte
<1>3. ToBytes(len) \in [1..HEADER -> Byte] BY <1>2 DEF ToBytes
<1>4. \A i \in 1..HEADER :
        ToBytes(len)[i] = (len \div Power(HEADER - i)) % BASE
  BY DEF ToBytes
<1>5. ToBytes(len) \in Seq(Byte) /\ Len(ToBytes(len)) = HEADER
  BY <1>1, <1>3
<1> QED BY <1>4, <1>5

\* The steps of from_be_bytes.
LEMMA FromBytesSteps ==
  ASSUME NEW b \in Seq(Byte)
  PROVE  \E v \in [0..Len(b) -> Nat] :
           /\ v[0] = 0
           /\ \A i \in 1..Len(b) : v[i] = v[i - 1] * BASE + b[i]
           /\ FromBytes(b) = v[Len(b)]
<1>0. PICK n \in Nat : n = Len(b) OBVIOUS
<1> DEFINE step == [i \in 1..n |-> [v \in Nat |-> v * BASE + b[i]]]
           Def(f) == [i \in 0..n |-> IF i = 0 THEN 0 ELSE f[i - 1] * BASE + b[i]]
           value == CHOOSE f : f = Def(f)
<1>1. BASE \in Nat BY QueueAssumption
<1>2. \A i \in 1..n : b[i] \in Nat BY <1>0, <1>1 DEF Byte
<1>3. FromBytes(b) = value[n] BY <1>0 DEF FromBytes
<1>4. /\ step \in [1..n -> [Nat -> Nat]]
      /\ \A i \in 1..n, v \in Nat : step[i][v] = v * BASE + b[i]
  BY <1>1, <1>2
<1> HIDE DEF step
<1>5. PICK f \in [0..n -> Nat] : Iterates(f, n, 0, step)
  BY <1>0, <1>4, NatRecursion
<1>6. f = Def(f)
  <2>1. ASSUME NEW i \in 1..n PROVE f[i] = f[i - 1] * BASE + b[i]
    <3>1. i - 1 \in 0..n /\ f[i - 1] \in Nat /\ f[i] = step[i][f[i - 1]] BY <1>0, <1>5 DEF Iterates
    <3> QED BY <1>4, <3>1
  <2>3. \A i \in 0..n : f[i] = IF i = 0 THEN 0 ELSE f[i - 1] * BASE + b[i]
    BY <1>2, <1>5, <2>1 DEF Iterates
  <2>2. f = [i \in 0..n |-> f[i]] OBVIOUS
  <2> QED BY <2>2, <2>3
<1>7. value = Def(value) BY <1>6
<1> DEFINE T == {i \in 0..n : value[i] \in Nat}
<1> HIDE DEF value
<1>8. \A i \in 0..n : value[i] = IF i = 0 THEN 0 ELSE value[i - 1] * BASE + b[i] BY <1>7
<1>9. \A i \in 0..n : i \in T
  <2>1. 0 \in T BY <1>2, <1>8
  <2>2. \A i \in 0..(n - 1) : i \in T => i + 1 \in T
    <3> SUFFICES ASSUME NEW i \in 0..(n - 1), value[i] \in Nat PROVE value[i + 1] \in Nat
      BY <1>2
    <3> DEFINE x == value[i] * BASE
    <3>1. value[i + 1] = x + b[i + 1] BY <1>2, <1>8
    <3>2. x \in Nat /\ b[i + 1] \in Nat BY <1>1, <1>2
    <3> HIDE DEF x
    <3> QED BY <3>1, <3>2
  <2> HIDE DEF T
  <2> QED BY <1>2, <2>1, <2>2, UpTo
<1>10. value \in [0..n -> Nat]
  <2>1. value = [i \in 0..n |-> value[i]] BY <1>7
  <2>2. \A i \in 0..n : value[i] \in Nat BY <1>9
  <2> QED BY <2>1, <2>2
<1>11. value[0] = 0 /\ \A i \in 1..n : value[i] = value[i - 1] * BASE + b[i] BY <1>2, <1>8
<1> QED BY <1>0, <1>3, <1>10, <1>11

\* A length that fits the prefix is read as it was written.
LEMMA LengthReadBack ==
  ASSUME NEW len \in Nat, len < Power(HEADER)
  PROVE  FromBytes(ToBytes(len)) = len
<1> DEFINE b == ToBytes(len)
           left(i) == len \div Power(HEADER - i)
<1>1. HEADER \in Nat \ {0} /\ BASE \in Nat \ {0} BY QueueAssumption
<1>2. /\ b \in Seq(Byte) /\ Len(b) = HEADER
      /\ \A i \in 1..HEADER : b[i] = left(i) % BASE
  BY ToBytesTyped
<1> HIDE DEF b
<1>3. PICK v \in [0..HEADER -> Nat] :
        /\ v[0] = 0 /\ \A i \in 1..HEADER : v[i] = v[i - 1] * BASE + b[i]
        /\ FromBytes(b) = v[HEADER]
  BY <1>2, FromBytesSteps
<1> DEFINE T == {i \in 0..HEADER : v[i] = left(i)}
<1>4. 0 \in T
  <2>1. Power(HEADER) \in Nat \ {0} BY <1>1, PowerFacts
  <2>2. len \div Power(HEADER) = 0 BY <2>1
  <2> QED BY <1>1, <1>3, <2>2
<1>5. ASSUME NEW i \in 0..(HEADER - 1), i \in T PROVE i + 1 \in T
  <2> DEFINE k == HEADER - (i + 1)  p == Power(k)
  <2>1. k \in Nat /\ HEADER - i = k + 1 BY <1>1
  <2>2. p \in Nat \ {0} /\ Power(k + 1) = BASE * p BY <2>1, PowerFacts
  <2>3. v[i] = len \div (BASE * p) BY <1>5, <2>1, <2>2
  <2>4. b[i + 1] = (len \div p) % BASE BY <1>1, <1>2
  <2>5. v[i + 1] = v[i] * BASE + b[i + 1] BY <1>1, <1>3
  <2> DEFINE y == len \div (BASE * p)
  <2> HIDE DEF p
  <2>6. len \div p = (len \div (BASE * p)) * BASE + ((len \div p) % BASE) BY <1>1, <2>2, DivDiv
  <2> HIDE DEF y
  <2>8. v[i] * BASE = y * BASE BY <2>3 DEF y
  <2>7. v[i + 1] = len \div p BY <2>4, <2>5, <2>6, <2>8 DEF y
  <2> QED BY <1>1, <2>7 DEF p
<1>6. HEADER \in T
  <2>1. \A i \in 0..(HEADER - 1) : i \in T => i + 1 \in T BY <1>5
  <2> HIDE DEF T
  <2>2. \A i \in 0..HEADER : i \in T BY <1>1, <1>4, <2>1, UpTo
  <2> QED BY <1>1, <2>2
<1>7. v[HEADER] = len \div Power(0) BY <1>1, <1>6
<1>8. v[HEADER] = len
  <2>1. len \div 1 = len OBVIOUS
  <2>2. Power(0) = 1 BY PowerFacts
  <2> QED BY <1>7, <2>1, <2>2
<1> QED BY <1>3, <1>8 DEF b

-----------------------------------------------------------------------------
(* The reader. *)

\* What is read from each position.
Ahead(r, rest) == <<r>> \o rest
ReadOn(bytes, from, i) ==
  IF i + HEADER > Len(bytes) THEN <<>>
  ELSE LET start == i + HEADER
           end   == start + FromBytes(SubSeq(bytes, i + 1, start))
       IN  IF end > Len(bytes) THEN <<>>
           ELSE Ahead(SubSeq(bytes, start + 1, end), from[end])

LEMMA ReadSteps ==
  ASSUME NEW b \in Seq(Byte)
  PROVE  \E from : /\ \A i \in 0..Len(b) : from[i] = ReadOn(b, from, i)
                   /\ ReadAll(b) = from[0]
<1> DEFINE N == Len(b)
           Def(f, m) == [i \in (N - m)..N |-> ReadOn(b, f, i)]
           T == {m \in 0..N : \E f : f = Def(f, m)}
           end(i) == i + HEADER + FromBytes(SubSeq(b, i + 1, i + HEADER))
<1>1. N \in Nat /\ HEADER \in Nat \ {0} BY QueueAssumption
<1>2. \A i \in 0..N : i + HEADER <= N => end(i) \in Nat /\ end(i) > i
  <2> SUFFICES ASSUME NEW i \in 0..N, i + HEADER <= N
               PROVE  end(i) \in Nat /\ end(i) > i
    OBVIOUS
  <2>1. SubSeq(b, i + 1, i + HEADER) \in Seq(Byte) BY <1>1
  <2>2. FromBytes(SubSeq(b, i + 1, i + HEADER)) \in Nat
    <3> DEFINE s == SubSeq(b, i + 1, i + HEADER)
    <3> HIDE DEF s
    <3>1. s \in Seq(Byte) BY <2>1 DEF s
    <3>2. PICK v \in [0..Len(s) -> Nat] : FromBytes(s) = v[Len(s)]
      BY <3>1, FromBytesSteps
    <3>3. Len(s) \in 0..Len(s) BY <3>1
    <3> QED BY <3>2, <3>3 DEF s
  <2> QED BY <1>1, <2>2
\* Two functions that agree after i are read alike at i.
<1>3. ASSUME NEW i \in 0..N, NEW f, NEW g, \A j \in (i + 1)..N : f[j] = g[j]
      PROVE  ReadOn(b, f, i) = ReadOn(b, g, i)
  <2>1. CASE i + HEADER > N BY <2>1 DEF ReadOn
  <2>2. CASE i + HEADER <= N /\ end(i) > N BY <1>1, <2>2 DEF ReadOn
  <2>3. CASE i + HEADER <= N /\ end(i) <= N
    <3>1. end(i) \in (i + 1)..N BY <1>1, <1>2, <2>3
    <3>2. f[end(i)] = g[end(i)] BY <1>3, <3>1
    <3> QED BY <3>2 DEF ReadOn
  <2> QED BY <1>1, <1>2, <2>1, <2>2, <2>3
<1> HIDE DEF end
<1>4. 0 \in T
  <2> DEFINE f == [i \in N..N |-> ReadOn(b, <<>>, i)]
  <2>1. \A i \in N..N : ReadOn(b, <<>>, i) = ReadOn(b, f, i) BY <1>1, <1>3
  <2>2. f = Def(f, 0) BY <1>1, <2>1
  <2> HIDE DEF f
  <2> QED BY <1>1, <2>2
<1>5. ASSUME NEW m \in 0..(N - 1), m \in T PROVE m + 1 \in T
  <2>1. PICK f : f = Def(f, m) BY <1>5
  <2> DEFINE k == N - (m + 1)
             g == [i \in k..N |-> IF i = k THEN ReadOn(b, f, k) ELSE f[i]]
  <2>0. k = N - (m + 1) OBVIOUS
  <2>2. k \in Nat /\ N - m = k + 1 /\ k <= N BY <1>1
  <2> HIDE DEF k
  <2>3. \A i \in (k + 1)..N : g[i] = f[i] BY <1>1, <2>2
  <2>4. ASSUME NEW i \in k..N PROVE g[i] = ReadOn(b, g, i)
    <3>1. \A j \in (i + 1)..N : f[j] = g[j] BY <2>2, <2>3
    <3>2. i \in 0..N BY <2>2
    <3> HIDE DEF g
    <3>3. ReadOn(b, f, i) = ReadOn(b, g, i) BY <1>3, <3>1, <3>2
    <3>4. g[i] = ReadOn(b, f, i)
      <4>1. CASE i = k BY <2>2, <4>1 DEF g
      <4>2. CASE i # k
        <5>1. i \in (k + 1)..N BY <1>1, <2>2, <4>2
        <5>2. f[i] = ReadOn(b, f, i) BY <2>1, <2>2, <5>1
        <5> QED BY <2>3, <5>1, <5>2
      <4> QED BY <4>1, <4>2
    <3> QED BY <3>3, <3>4
  <2>5. g = Def(g, m + 1)
    <3>0. N - (m + 1) = k BY <2>0
    <3>1. g = [i \in k..N |-> g[i]] OBVIOUS
    <3> HIDE DEF g
    <3> QED BY <2>4, <3>0, <3>1
  <2>6. m + 1 \in 0..N BY <1>1
  <2> HIDE DEF g
  <2> QED BY <2>5, <2>6
<1>6. N \in T
  <2>1. \A m \in 0..(N - 1) : m \in T => m + 1 \in T BY <1>5
  <2> HIDE DEF T, N
  <2>2. \A m \in 0..N : m \in T BY <1>1, <1>4, <2>1, UpTo
  <2> QED BY <1>1, <2>2
<1> DEFINE from == CHOOSE f : f = [i \in 0..N |-> ReadOn(b, f, i)]
<1>7. PICK f : f = [i \in 0..N |-> ReadOn(b, f, i)] BY <1>1, <1>6
<1>8. from = [i \in 0..N |-> ReadOn(b, from, i)] BY <1>7
<1>9. ReadAll(b) = from[0] BY DEF ReadAll, ReadOn, Ahead
<1> HIDE DEF from
<1>10. \A i \in 0..N : from[i] = ReadOn(b, from, i) BY <1>8
<1> QED BY <1>9, <1>10
-----------------------------------------------------------------------------
(* Frames in a file. *)

\* A record with its length before it, and the records whose length fits.
Frame(r) == ToBytes(Len(r)) \o r
Fitting == {r \in Payloads : Len(r) < Power(HEADER)}

\* s stands in b after the first i bytes.
Stands(b, i, s) ==
  i + Len(s) <= Len(b) /\ \A j \in 1..Len(s) : b[i + j] = s[j]

\* The frames of the records ws stand in b from its front, and end at e.
Begins(b, ws, e) ==
  \E at \in [0..Len(ws) -> 0..Len(b)] :
    /\ at[0] = 0 /\ at[Len(ws)] = e
    /\ \A k \in 1..Len(ws) :
         /\ at[k] = at[k - 1] + Len(Frame(ws[k]))
         /\ \A j \in 1..Len(Frame(ws[k])) : b[at[k - 1] + j] = Frame(ws[k])[j]

LEMMA FrameTyped ==
  ASSUME NEW r \in Payloads
  PROVE  /\ r \in Seq(Byte) /\ Frame(r) \in Seq(Byte)
         /\ Len(Frame(r)) = HEADER + Len(r)
         /\ \A j \in 1..HEADER : Frame(r)[j] = ToBytes(Len(r))[j]
         /\ \A j \in 1..Len(r) : Frame(r)[HEADER + j] = r[j]
<1>1. r \in Seq(Byte) /\ HEADER \in Nat \ {0} BY QueueAssumption
<1> DEFINE p == ToBytes(Len(r))
<1>2. p \in Seq(Byte) /\ Len(p) = HEADER BY <1>1, ToBytesTyped
<1> HIDE DEF p
<1>3. /\ p \o r \in Seq(Byte) /\ Len(p \o r) = HEADER + Len(r)
      /\ \A j \in 1..HEADER : (p \o r)[j] = p[j]
      /\ \A j \in 1..Len(r) : (p \o r)[HEADER + j] = r[j]
  BY <1>1, <1>2
<1> QED BY <1>1, <1>3 DEF Frame, p

LEMMA BeginsNothing ==
  ASSUME NEW b, Len(b) \in Nat
  PROVE  Begins(b, <<>>, 0)
<1> DEFINE at == [k \in 0..0 |-> 0]
<1>1. at \in [0..Len(<<>>) -> 0..Len(b)] OBVIOUS
<1>2. at[0] = 0 /\ at[Len(<<>>)] = 0 /\ 1..Len(<<>>) = {} OBVIOUS
<1> HIDE DEF at
<1> QED BY <1>1, <1>2 DEF Begins

\* Whatever comes after the frames may be cut off, replaced or added to.
LEMMA BeginsElsewhere ==
  ASSUME NEW b, NEW c, Len(b) \in Nat, Len(c) \in Nat,
         NEW ws \in Seq(Fitting), NEW e, Begins(b, ws, e),
         e <= Len(c), \A i \in 1..e : c[i] = b[i]
  PROVE  Begins(c, ws, e)
<1>1. PICK at \in [0..Len(ws) -> 0..Len(b)] :
        /\ at[0] = 0 /\ at[Len(ws)] = e
        /\ \A k \in 1..Len(ws) :
             /\ at[k] = at[k - 1] + Len(Frame(ws[k]))
             /\ \A j \in 1..Len(Frame(ws[k])) : b[at[k - 1] + j] = Frame(ws[k])[j]
  BY DEF Begins
<1> DEFINE n == Len(ws)
           T == {k \in 0..n : at[n - k] <= e}
<1>2. n \in Nat OBVIOUS
<1>3. \A k \in 1..n : Len(Frame(ws[k])) \in Nat
  <2> SUFFICES ASSUME NEW k \in 1..n PROVE Len(Frame(ws[k])) \in Nat
    OBVIOUS
  <2>1. ws[k] \in Payloads BY DEF Fitting
  <2>2. Frame(ws[k]) \in Seq(Byte) BY <2>1, FrameTyped
  <2> QED BY <2>2
<1>4. \A k \in 0..n : at[k] \in Nat
  <2> TAKE k \in 0..n
  <2>1. at[k] \in 0..Len(b) BY <1>1
  <2> QED BY <2>1
<1> HIDE DEF n
<1>5. 0 \in T BY <1>1, <1>2, <1>4 DEF n
<1>6. ASSUME NEW k \in 0..(n - 1), k \in T PROVE k + 1 \in T
  <2>1. n - k \in 1..n /\ n - (k + 1) = (n - k) - 1 BY <1>2
  <2>2. at[n - k] = at[(n - k) - 1] + Len(Frame(ws[n - k])) BY <1>1, <2>1 DEF n
  <2>3. at[(n - k) - 1] \in Nat /\ at[n - k] <= e BY <1>2, <1>4, <1>6, <2>1
  <2>4. Len(Frame(ws[n - k])) \in Nat BY <1>3, <2>1
  <2>5. at[n - k] \in Nat /\ e \in Nat BY <1>1, <1>2, <1>4, <2>1 DEF n
  <2> QED BY <1>2, <2>1, <2>2, <2>3, <2>4, <2>5
<1>7. \A k \in 0..n : at[k] <= e
  <2>1. \A k \in 0..(n - 1) : k \in T => k + 1 \in T BY <1>6
  <2>2. \A k \in 0..n : k \in T
    <3> HIDE DEF T
    <3> QED BY <1>2, <1>5, <2>1, UpTo
  <2> TAKE k \in 0..n
  <2>3. n - k \in 0..n /\ n - (n - k) = k BY <1>2
  <2> QED BY <2>2, <2>3
<1>8. at \in [0..Len(ws) -> 0..Len(c)]
  <2>1. \A k \in 0..n : at[k] \in 0..Len(c)
    <3> TAKE k \in 0..n
    <3>1. at[k] \in Nat /\ at[k] <= e BY <1>4, <1>7
    <3>2. e \in Nat BY <1>1, <1>2, <1>4 DEF n
    <3> QED BY <3>1, <3>2
  <2> QED BY <2>1 DEF n
<1>9. ASSUME NEW k \in 1..Len(ws), NEW j \in 1..Len(Frame(ws[k]))
      PROVE  c[at[k - 1] + j] = Frame(ws[k])[j]
  <2>1. k - 1 \in 0..n /\ k \in 0..n BY <1>2 DEF n
  <2>2. at[k - 1] \in Nat /\ at[k] \in Nat /\ at[k] <= e BY <1>4, <1>7, <2>1
  <2>3. at[k] = at[k - 1] + Len(Frame(ws[k])) BY <1>1
  <2>4. Len(Frame(ws[k])) \in Nat BY <1>3 DEF n
  <2>5. e \in Nat BY <1>1, <1>2, <1>4 DEF n
  <2>6. at[k - 1] + j \in 1..e BY <2>2, <2>3, <2>4, <2>5
  <2>7. b[at[k - 1] + j] = Frame(ws[k])[j] BY <1>1
  <2> QED BY <2>6, <2>7
<1> QED BY <1>1, <1>8, <1>9 DEF Begins

\* One more frame after the last.
LEMMA BeginsMore ==
  ASSUME NEW b, Len(b) \in Nat,
         NEW ws \in Seq(Fitting), NEW r \in Fitting,
         NEW e, Begins(b, ws, e), Len(b) = e + Len(Frame(r)),
         \A j \in 1..Len(Frame(r)) : b[e + j] = Frame(r)[j]
  PROVE  Begins(b, Append(ws, r), Len(b))
<1>1. PICK at \in [0..Len(ws) -> 0..Len(b)] :
        /\ at[0] = 0 /\ at[Len(ws)] = e
        /\ \A k \in 1..Len(ws) :
             /\ at[k] = at[k - 1] + Len(Frame(ws[k]))
             /\ \A j \in 1..Len(Frame(ws[k])) : b[at[k - 1] + j] = Frame(ws[k])[j]
  BY DEF Begins
<1>2. PICK n \in Nat : n = Len(ws) OBVIOUS
<1> DEFINE us == Append(ws, r)
           bt == [k \in 0..(n + 1) |-> IF k <= n THEN at[k] ELSE Len(b)]
<1>3. /\ Len(us) = n + 1 /\ us[n + 1] = r
      /\ \A k \in 1..n : us[k] = ws[k]
  BY <1>2
<1>4. bt \in [0..(n + 1) -> 0..Len(b)] /\ bt[0] = 0 /\ bt[n + 1] = Len(b) BY <1>1, <1>2
<1>5. \A k \in 0..n : bt[k] = at[k] BY <1>2
<1>6. bt[n] = e BY <1>1, <1>2, <1>5
<1> HIDE DEF us, bt
<1>7. ASSUME NEW k \in 1..(n + 1)
      PROVE  /\ bt[k] = bt[k - 1] + Len(Frame(us[k]))
             /\ \A j \in 1..Len(Frame(us[k])) : b[bt[k - 1] + j] = Frame(us[k])[j]
  <2>1. CASE k <= n
    <3>1. k \in 1..n /\ k - 1 \in 0..n /\ k \in 0..n BY <2>1
    <3>2. bt[k] = at[k] /\ bt[k - 1] = at[k - 1] /\ us[k] = ws[k] BY <1>3, <1>5, <3>1
    <3> QED BY <1>1, <1>2, <3>1, <3>2
  <2>2. CASE k = n + 1
    <3>1. us[k] = r /\ bt[k - 1] = e /\ bt[k] = Len(b) BY <1>3, <1>4, <1>6, <2>2
    <3> QED BY <3>1
  <2> QED BY <2>1, <2>2
<1>8. Begins(b, us, Len(b))
  <2>1. bt \in [0..Len(us) -> 0..Len(b)] /\ bt[Len(us)] = Len(b) BY <1>3, <1>4
  <2>2. \A k \in 1..Len(us) :
          /\ bt[k] = bt[k - 1] + Len(Frame(us[k]))
          /\ \A j \in 1..Len(Frame(us[k])) : b[bt[k - 1] + j] = Frame(us[k])[j]
    BY <1>3, <1>7
  <2> QED BY <1>4, <2>1, <2>2 DEF Begins
<1> QED BY <1>8 DEF us

\* The length in front of a frame of which at least the prefix is there.
LEMMA PrefixRead ==
  ASSUME NEW b \in Seq(Byte), NEW i \in Nat,
         NEW r \in Fitting, i + HEADER <= Len(b),
         \A j \in 1..HEADER : b[i + j] = Frame(r)[j]
  PROVE  FromBytes(SubSeq(b, i + 1, i + HEADER)) = Len(r)
<1>1. HEADER \in Nat \ {0} BY QueueAssumption
<1>2. r \in Payloads /\ Len(r) < Power(HEADER) BY DEF Fitting
<1>3. r \in Seq(Byte) /\ Len(r) \in Nat
      /\ \A j \in 1..HEADER : Frame(r)[j] = ToBytes(Len(r))[j]
  BY <1>2, FrameTyped
<1> DEFINE p == ToBytes(Len(r))  s == SubSeq(b, i + 1, i + HEADER)
<1>4. p \in Seq(Byte) /\ Len(p) = HEADER BY <1>3, ToBytesTyped
<1>5. s \in Seq(Byte) /\ Len(s) = HEADER /\ \A j \in 1..HEADER : s[j] = b[i + j]
  BY <1>1
<1>6. \A j \in 1..HEADER : s[j] = p[j]
  <2> HIDE DEF s
  <2> QED BY <1>3, <1>5
<1> HIDE DEF p, s
<1>7. s = p BY <1>4, <1>5, <1>6
<1>8. FromBytes(p) = Len(r) BY <1>2, <1>3, LengthReadBack DEF p
<1> QED BY <1>7, <1>8 DEF s

\* A frame that does not run past the end.
LEMMA ReadOnWhole ==
  ASSUME NEW b, NEW from, NEW i \in Nat, NEW f \in Nat, HEADER \in Nat, Len(b) \in Nat,
         FromBytes(SubSeq(b, i + 1, i + HEADER)) = f, i + HEADER + f <= Len(b)
  PROVE  ReadOn(b, from, i) =
           Ahead(SubSeq(b, i + HEADER + 1, i + HEADER + f), from[i + HEADER + f])
<1>1. ~(i + HEADER > Len(b)) /\ ~(i + HEADER + f > Len(b)) OBVIOUS
<1> QED BY <1>1, Zenon DEF ReadOn

LEMMA FrameRead ==
  ASSUME NEW b \in Seq(Byte), NEW from, NEW i \in Nat,
         NEW r \in Fitting, Stands(b, i, Frame(r))
  PROVE  ReadOn(b, from, i) = Ahead(r, from[i + Len(Frame(r))])
<1>0. i + Len(Frame(r)) <= Len(b) /\ \A j \in 1..Len(Frame(r)) : b[i + j] = Frame(r)[j]
  BY DEF Stands
<1>1. HEADER \in Nat \ {0} BY QueueAssumption
<1>2. r \in Payloads BY DEF Fitting
<1>3. /\ r \in Seq(Byte) /\ Len(r) \in Nat /\ Len(Frame(r)) = HEADER + Len(r)
      /\ \A j \in 1..Len(r) : Frame(r)[HEADER + j] = r[j]
  BY <1>2, FrameTyped
<1>4. Len(b) \in Nat OBVIOUS
<1>5. FromBytes(SubSeq(b, i + 1, i + HEADER)) = Len(r)
  <2>1. i + HEADER <= Len(b) BY <1>0, <1>1, <1>3, <1>4
  <2>2. \A j \in 1..HEADER : b[i + j] = Frame(r)[j] BY <1>0, <1>1, <1>3
  <2> QED BY <2>1, <2>2, PrefixRead
<1> DEFINE s == SubSeq(b, i + HEADER + 1, i + HEADER + Len(r))
<1>6. s = r
  <2>1. /\ s \in Seq(Byte) /\ Len(s) = Len(r)
        /\ \A j \in 1..Len(r) : s[j] = b[i + HEADER + j]
    BY <1>0, <1>1, <1>3, <1>4
  <2>2. \A j \in 1..Len(r) : b[i + HEADER + j] = r[j]
    <3> TAKE j \in 1..Len(r)
    <3>1. HEADER + j \in 1..Len(Frame(r)) /\ i + HEADER + j = i + (HEADER + j) BY <1>1, <1>3
    <3> QED BY <1>0, <1>3, <3>1
  <2> HIDE DEF s
  <2>3. \A j \in 1..Len(r) : s[j] = r[j] BY <2>1, <2>2
  <2> QED BY <1>3, <2>1, <2>3
<1> HIDE DEF s
<1>7. i + HEADER <= Len(b) /\ i + HEADER + Len(r) <= Len(b) BY <1>0, <1>1, <1>3, <1>4
<1>8. i + Len(Frame(r)) = i + HEADER + Len(r) BY <1>1, <1>3
<1>9. ReadOn(b, from, i) = Ahead(s, from[i + HEADER + Len(r)])
  <2>1. ReadOn(b, from, i) =
          Ahead(SubSeq(b, i + HEADER + 1, i + HEADER + Len(r)), from[i + HEADER + Len(r)])
    <3>1. HEADER \in Nat BY <1>1
    <3>2. Len(r) \in Nat BY <1>3
    <3>3. i + HEADER + Len(r) <= Len(b) BY <1>7
    <3> QED BY <1>4, <1>5, <3>1, <3>2, <3>3, ReadOnWhole
  <2> QED BY <2>1 DEF s
<1> QED BY <1>6, <1>8, <1>9

\* A frame that is not all there ends the reading.
LEMMA PartRead ==
  ASSUME NEW b \in Seq(Byte), NEW from, NEW i \in 0..Len(b),
         NEW r \in Fitting, Len(b) < i + Len(Frame(r)),
         \A j \in 1..(Len(b) - i) : b[i + j] = Frame(r)[j]
  PROVE  ReadOn(b, from, i) = <<>>
<1>1. HEADER \in Nat \ {0} BY QueueAssumption
<1>2. r \in Payloads BY DEF Fitting
<1>3. r \in Seq(Byte) /\ Len(r) \in Nat /\ Len(Frame(r)) = HEADER + Len(r)
  BY <1>2, FrameTyped
<1>4. Len(b) \in Nat /\ i \in Nat OBVIOUS
<1>5. CASE i + HEADER > Len(b) BY <1>5 DEF ReadOn
<1>6. CASE i + HEADER <= Len(b)
  <2>1. \A j \in 1..HEADER : b[i + j] = Frame(r)[j] BY <1>1, <1>4, <1>6
  <2>2. FromBytes(SubSeq(b, i + 1, i + HEADER)) = Len(r) BY <1>4, <1>6, <2>1, PrefixRead
  <2> QED BY <1>1, <1>3, <1>4, <1>6, <2>2 DEF ReadOn
<1> QED BY <1>1, <1>4, <1>5, <1>6

LEMMA ReadTyped ==
  ASSUME NEW b \in Seq(Byte), NEW from,
         \A i \in 0..Len(b) : from[i] = ReadOn(b, from, i)
  PROVE  \A i \in 0..Len(b) : from[i] \in Seq(Seq(Byte))
<1>1. PICK n \in Nat : n = Len(b) OBVIOUS
<1>2. HEADER \in Nat \ {0} BY QueueAssumption
<1> DEFINE Good(k) == from[k] \in Seq(Seq(Byte))
           T == {k \in 0..n : \A j \in (n - k)..n : Good(j)}
           end(i) == i + HEADER + FromBytes(SubSeq(b, i + 1, i + HEADER))
\* What is read at i is typed if what is read after it is.
<1>3. ASSUME NEW i \in 0..n, \A j \in (i + 1)..n : Good(j)
      PROVE  Good(i)
  <2>1. from[i] = ReadOn(b, from, i) BY <1>1
  <2>2. CASE i + HEADER > n BY <1>1, <2>1, <2>2 DEF ReadOn
  <2>3. CASE i + HEADER <= n
    <3>1. SubSeq(b, i + 1, i + HEADER) \in Seq(Byte) BY <1>1, <1>2, <2>3
    <3>2. FromBytes(SubSeq(b, i + 1, i + HEADER)) \in Nat
      <4> DEFINE s == SubSeq(b, i + 1, i + HEADER)
      <4> HIDE DEF s
      <4>1. s \in Seq(Byte) BY <3>1 DEF s
      <4>2. PICK v \in [0..Len(s) -> Nat] : FromBytes(s) = v[Len(s)]
        BY <4>1, FromBytesSteps
      <4>3. Len(s) \in 0..Len(s) BY <4>1
      <4> QED BY <4>2, <4>3 DEF s
    <3>3. end(i) \in Nat /\ end(i) > i BY <1>2, <3>2
    <3>4. CASE end(i) > n BY <1>1, <2>1, <2>3, <3>4 DEF ReadOn
    <3>5. CASE end(i) <= n
      <4> DEFINE s == SubSeq(b, i + HEADER + 1, end(i))
      <4>1. from[i] = Ahead(s, from[end(i)])
        <5>1. HEADER \in Nat /\ i \in Nat /\ Len(b) \in Nat /\ end(i) <= Len(b)
              /\ from[i] = ReadOn(b, from, i)
          BY <1>1, <1>2, <2>1, <3>5
        <5>2. PICK f \in Nat : f = FromBytes(SubSeq(b, i + 1, i + HEADER)) BY <3>2
        <5>3. HEADER \in Nat /\ i \in Nat /\ Len(b) \in Nat /\ i + HEADER + f <= Len(b)
          BY <5>1, <5>2
        <5>4. ReadOn(b, from, i) = Ahead(SubSeq(b, i + HEADER + 1, i + HEADER + f), from[i + HEADER + f])
          BY <5>2, <5>3, ReadOnWhole
        <5> QED BY <5>1, <5>2, <5>4
      <4>2. Good(end(i)) BY <1>3, <3>3, <3>5
      <4>3. s \in Seq(Byte)
        <5> HIDE DEF end
        <5>1. i + HEADER + 1 \in Nat /\ i + HEADER + 1 >= 1 BY <1>2
        <5> QED BY <1>1, <3>3, <3>5, <5>1
      <4> HIDE DEF s, end
      <4> QED BY <4>1, <4>2, <4>3 DEF Ahead
    <3> QED BY <3>3, <3>4, <3>5
  <2> QED BY <1>2, <2>2, <2>3
<1> HIDE DEF Good
<1>4. 0 \in T
  <2>1. \A j \in (n + 1)..n : Good(j) OBVIOUS
  <2>2. Good(n) BY <1>3, <2>1
  <2>3. \A j \in (n - 0)..n : j = n OBVIOUS
  <2> QED BY <2>2, <2>3
<1>5. ASSUME NEW k \in 0..(n - 1), k \in T PROVE k + 1 \in T
  <2>1. n - k = (n - (k + 1)) + 1 /\ n - (k + 1) \in 0..n OBVIOUS
  <2>2. Good(n - (k + 1)) BY <1>3, <1>5, <2>1
  <2>3. \A j \in (n - (k + 1))..n : Good(j) BY <1>5, <2>2
  <2> QED BY <2>3
<1>6. n \in T
  <2>1. \A k \in 0..(n - 1) : k \in T => k + 1 \in T BY <1>5
  <2> HIDE DEF T
  <2>2. \A k \in 0..n : k \in T BY <1>4, <2>1, UpTo
  <2> QED BY <2>2
<1>7. \A j \in 0..n : Good(j) BY <1>6
<1> QED BY <1>1, <1>7 DEF Good

Moves(u, r, v) == u \o Ahead(r, v) = (u \o <<r>>) \o v

LEMMA AheadMoves ==
  ASSUME NEW S, NEW u \in Seq(S), NEW r \in S, NEW v \in Seq(S)
  PROVE  Moves(u, r, v)
<1>1. <<r>> \in Seq(S) OBVIOUS
<1> QED BY <1>1, ConcatAssociative DEF Ahead, Moves

\* The records whose frames a file begins with are read before anything else.
LEMMA FramesRead ==
  ASSUME NEW b \in Seq(Byte), NEW ws \in Seq(Fitting),
         NEW e, Begins(b, ws, e), NEW from,
         \A i \in 0..Len(b) : from[i] = ReadOn(b, from, i)
  PROVE  e \in 0..Len(b) /\ from[0] = ws \o from[e]
<1>1. PICK at \in [0..Len(ws) -> 0..Len(b)] :
        /\ at[0] = 0 /\ at[Len(ws)] = e
        /\ \A k \in 1..Len(ws) :
             /\ at[k] = at[k - 1] + Len(Frame(ws[k]))
             /\ \A j \in 1..Len(Frame(ws[k])) : b[at[k - 1] + j] = Frame(ws[k])[j]
  BY DEF Begins
<1>2. PICK n \in Nat : n = Len(ws) OBVIOUS
<1>3. Len(b) \in Nat /\ e \in 0..Len(b) BY <1>1, <1>2
<1>4. \A i \in 0..Len(b) : from[i] \in Seq(Seq(Byte)) BY ReadTyped
<1>5. \A k \in 1..n : ws[k] \in Fitting /\ ws[k] \in Seq(Byte)
  <2> TAKE k \in 1..n
  <2>1. ws[k] \in Fitting BY <1>2
  <2>2. ws[k] \in Payloads BY <2>1 DEF Fitting
  <2> QED BY <2>1, <2>2, FrameTyped
<1>6. ws \in Seq(Seq(Byte)) BY <1>2, <1>5
<1> DEFINE T == {k \in 0..n : from[0] = SubSeq(ws, 1, k) \o from[at[k]]}
<1>7. 0 \in T
  <2>1. SubSeq(ws, 1, 0) = <<>> BY <1>6
  <2>2. from[0] \in Seq(Seq(Byte)) BY <1>3, <1>4
  <2>3. <<>> \o from[0] = from[0] BY <2>2
  <2>4. from[0] = SubSeq(ws, 1, 0) \o from[at[0]] BY <1>1, <2>1, <2>3
  <2> QED BY <2>4
<1>8. ASSUME NEW k \in 0..(n - 1), k \in T PROVE k + 1 \in T
  <2>1. k \in 0..Len(ws) /\ k + 1 \in 0..Len(ws) /\ k + 1 \in 1..Len(ws) /\ (k + 1) - 1 = k
    BY <1>2
  <2>2. PICK i \in 0..Len(b) : i = at[k] BY <1>1, <2>1
  <2>3. PICK j \in 0..Len(b) : j = at[k + 1] BY <1>1, <2>1
  <2>4. PICK r \in Fitting : r = ws[k + 1] /\ r \in Seq(Byte) BY <1>2, <1>5, <2>1
  <2>5. /\ j = i + Len(Frame(r))
        /\ \A m \in 1..Len(Frame(r)) : b[i + m] = Frame(r)[m]
    BY <1>1, <2>1, <2>2, <2>3, <2>4
  <2>6. from[0] = SubSeq(ws, 1, k) \o from[i] BY <1>8, <2>2
  <2>7. SubSeq(ws, 1, k + 1) = SubSeq(ws, 1, k) \o <<r>>
    <3>1. SubSeq(ws, 1, k + 1) = SubSeq(ws, 1, (k + 1) - 1) \o <<ws[k + 1]>>
      BY <1>6, <2>1, SubSeqRecursiveSecond
    <3> QED BY <2>1, <2>4, <3>1
  <2>8. from[i] = Ahead(r, from[j])
    <3>1. i \in Nat /\ i + Len(Frame(r)) <= Len(b) /\ from[i] = ReadOn(b, from, i)
      BY <1>3, <2>2, <2>3, <2>5
    <3>2. Stands(b, i, Frame(r)) BY <2>5, <3>1 DEF Stands
    <3>3. ReadOn(b, from, i) = Ahead(r, from[i + Len(Frame(r))]) BY <2>4, <3>1, <3>2, FrameRead
    <3> QED BY <2>5, <3>1, <3>3
  <2>9. SubSeq(ws, 1, k) \o Ahead(r, from[j]) = (SubSeq(ws, 1, k) \o <<r>>) \o from[j]
    <3>1. /\ SubSeq(ws, 1, k) \in Seq(Seq(Byte)) /\ r \in Seq(Byte)
          /\ from[j] \in Seq(Seq(Byte))
      BY <1>2, <1>4, <1>6, <2>3, <2>4
    <3> DEFINE S == Seq(Byte)
    <3>2. SubSeq(ws, 1, k) \in Seq(S) /\ r \in S /\ from[j] \in Seq(S) BY <3>1
    <3> HIDE DEF S
    <3>3. Moves(SubSeq(ws, 1, k), r, from[j]) BY <3>2, AheadMoves
    <3> QED BY <3>3, Zenon DEF Moves
  <2>10. from[0] = SubSeq(ws, 1, k + 1) \o from[at[k + 1]]
    BY <2>3, <2>6, <2>7, <2>8, <2>9
  <2>11. k + 1 \in 0..n BY <1>2, <2>1
  <2> QED BY <2>10, <2>11
<1>9. n \in T
  <2>1. \A k \in 0..(n - 1) : k \in T => k + 1 \in T BY <1>8
  <2> HIDE DEF T
  <2>2. \A k \in 0..n : k \in T BY <1>7, <2>1, UpTo
  <2> QED BY <2>2
<1>10. SubSeq(ws, 1, n) = ws BY <1>2, <1>6
<1> QED BY <1>1, <1>2, <1>3, <1>9, <1>10

-----------------------------------------------------------------------------
(* The inductive invariant of the queue file. *)

\* The file ends with what is written of the frame that is being appended.
Partly(e) ==
  IF toWrite = <<>> THEN e = Len(file)
  ELSE /\ Len(file) = e + (Len(Frame(record)) - Len(toWrite))
       /\ \A j \in 1..(Len(file) - e) : file[e + j] = Frame(record)[j]

\* The rest of a frame is written next, the durable bytes begin with the frames
\* of the synced records and the file with those of all whole records.  Until
\* a frame is cut short nothing else is in them but a part of the last frame.
AppendInv ==
  /\ record \in Fitting \cup {NoRecord}
  /\ toWrite # <<>> => record # NoRecord
  /\ record # NoRecord =>
       /\ Len(toWrite) <= Len(Frame(record))
       /\ \A j \in 1..Len(toWrite) :
            toWrite[j] = Frame(record)[(Len(Frame(record)) - Len(toWrite)) + j]
DurableInv ==
  /\ synced \in Seq(Fitting)
  /\ \E d \in 0..Len(durable) : Begins(durable, synced, d) /\ (~damaged => d = Len(durable))
FileInv ==
  /\ whole \in Seq(Fitting)
  /\ \E e \in 0..Len(file) : Begins(file, whole, e) /\ (~damaged => Partly(e))
QueueInv == QueueTypeOK /\ AppendInv /\ DurableInv /\ FileInv

LEMMA PrefixIs ==
  ASSUME NEW S, NEW s \in Seq(S), NEW t \in Seq(S)
  PROVE  IsPrefix(s, t) <=> Len(s) <= Len(t) /\ \A i \in 1..Len(s) : s[i] = t[i]
<1>1. CASE Len(s) <= Len(t)
  <2> DEFINE a == SubSeq(s, 1, Len(s))  b == SubSeq(t, 1, Len(s))
  <2>1. /\ a \in Seq(S) /\ b \in Seq(S) /\ Len(a) = Len(s) /\ Len(b) = Len(s)
        /\ \A i \in 1..Len(s) : a[i] = s[i] /\ b[i] = t[i]
    BY <1>1
  <2>2. IsPrefix(s, t) <=> a = b BY <1>1 DEF IsPrefix
  <2> HIDE DEF a, b
  <2>3. a = b <=> \A i \in 1..Len(s) : a[i] = b[i] BY <2>1
  <2> QED BY <1>1, <2>1, <2>2, <2>3
<1>2. CASE ~(Len(s) <= Len(t)) BY <1>2 DEF IsPrefix
<1> QED BY <1>1, <1>2

LEMMA FittingFacts ==
  /\ HEADER \in Nat \ {0}
  /\ \A r \in Fitting : /\ r \in Payloads /\ r \in Seq(Byte)
                       /\ Frame(r) \in Seq(Byte)
                       /\ Len(Frame(r)) = HEADER + Len(r) /\ r # NoRecord
  /\ \A ws \in Seq(Fitting) : ws \in Seq(Payloads)
<1>1. HEADER \in Nat \ {0} /\ BASE \in Nat BY QueueAssumption
<1>2. ASSUME NEW r \in Fitting
      PROVE  /\ r \in Payloads /\ r \in Seq(Byte)
             /\ Frame(r) \in Seq(Byte)
             /\ Len(Frame(r)) = HEADER + Len(r) /\ r # NoRecord
  <2>1. r \in Payloads BY DEF Fitting
  <2>2. /\ r \in Seq(Byte) /\ Frame(r) \in Seq(Byte)
        /\ Len(Frame(r)) = HEADER + Len(r)
    BY <2>1, FrameTyped
  <2>3. -1 \notin Byte BY <1>1 DEF Byte
  <2>4. r # <<-1>>
    <3> SUFFICES ASSUME r = <<-1>> PROVE FALSE
      OBVIOUS
    <3>1. Len(r) = 1 /\ r[1] = -1 OBVIOUS
    <3>2. r[1] \in Byte BY <2>2, <3>1
    <3> QED BY <2>3, <3>1, <3>2
  <2> QED BY <2>1, <2>2, <2>4 DEF NoRecord
<1>3. ASSUME NEW ws \in Seq(Fitting) PROVE ws \in Seq(Payloads) BY <1>2
<1> QED BY <1>1, <1>2, <1>3

LEMMA QueueInitially ==
  ASSUME QueueInit
  PROVE  QueueInv
<1>1. /\ file = <<>> /\ durable = <<>> /\ record = NoRecord /\ toWrite = <<>>
      /\ appends = 0 /\ whole = <<>> /\ synced = <<>> /\ damaged = FALSE
  BY DEF QueueInit
<1>2. IsPrefix(durable, file) BY <1>1 DEF IsPrefix
<1>3. QueueTypeOK
  <2>1. \A S : <<>> \in Seq(S) OBVIOUS
  <2>2. /\ file \in Seq(Byte) /\ durable \in Seq(Byte)
        /\ toWrite \in Seq(Byte) /\ whole \in Seq(Payloads) /\ synced \in Seq(Payloads)
    BY <1>1, <2>1, Zenon
  <2>3. record \in Seq(Byte) \cup {NoRecord} BY <1>1, Zenon
  <2>4. appends \in Nat /\ damaged \in BOOLEAN BY <1>1
  <2> QED BY <1>2, <2>2, <2>3, <2>4, Zenon DEF QueueTypeOK
<1>4. Begins(<<>>, <<>>, 0)
  <2>1. Len(<<>>) = 0 /\ Len(<<>>) \in Nat OBVIOUS
  <2> QED BY <2>1, BeginsNothing
<1>5. AppendInv BY <1>1 DEF AppendInv
<1>6. 0 \in 0..Len(<<>>) /\ 0 = Len(<<>>) /\ <<>> \in Seq(Fitting) OBVIOUS
<1>7. DurableInv BY <1>1, <1>4, <1>6 DEF DurableInv
<1>8. FileInv BY <1>1, <1>4, <1>6 DEF FileInv, Partly
<1> QED BY <1>3, <1>5, <1>7, <1>8 DEF QueueInv

\* append begins: the whole frame is still to write.
LEMMA AppendStep ==
  ASSUME QueueInv, NEW r \in Payloads, Append_(r)
  PROVE  QueueInv'
<1>1. /\ record = NoRecord /\ record' = r /\ toWrite' = ToBytes(Len(r)) \o r
      /\ appends' = appends + 1 /\ Len(r) < Power(HEADER)
      /\ file' = file /\ durable' = durable /\ whole' = whole /\ synced' = synced
      /\ damaged' = damaged
  BY DEF Append_
<1>2. r \in Fitting /\ toWrite' = Frame(r) BY <1>1 DEF Fitting, Frame
<1>3. /\ HEADER \in Nat \ {0} /\ r \in Seq(Byte) /\ Frame(r) \in Seq(Byte)
      /\ Len(Frame(r)) = HEADER + Len(r) /\ r # NoRecord
  BY <1>2, FittingFacts
<1>4. QueueTypeOK' BY <1>1, <1>2, <1>3 DEF QueueInv, QueueTypeOK
<1>5. toWrite = <<>> BY <1>1 DEF QueueInv, AppendInv
<1>6. AppendInv'
  <2>1. \A j \in 1..Len(Frame(r)) : (Len(Frame(r)) - Len(Frame(r))) + j = j BY <1>3
  <2> QED BY <1>1, <1>2, <1>3, <2>1 DEF AppendInv
<1>7. DurableInv' BY <1>1 DEF QueueInv, DurableInv
<1>8. FileInv'
  <2>1. PICK e \in 0..Len(file) : Begins(file, whole, e) /\ (~damaged => Partly(e))
    BY DEF QueueInv, FileInv
  <2>2. ASSUME ~damaged PROVE Partly(e)'
    <3>1. e = Len(file) /\ Len(file) \in Nat BY <1>5, <2>1, <2>2 DEF Partly, QueueInv, QueueTypeOK
    <3>2. Len(toWrite') = Len(Frame(r)) /\ toWrite' # <<>> BY <1>2, <1>3
    <3>3. Len(file') = e + (Len(Frame(record')) - Len(toWrite')) BY <1>1, <1>2, <1>3, <3>1
    <3>4. 1..(Len(file') - e) = {} BY <1>1, <3>1
    <3> QED BY <3>2, <3>3, <3>4 DEF Partly
  <2> QED BY <1>1, <2>1, <2>2 DEF FileInv, QueueInv
<1> QED BY <1>4, <1>6, <1>7, <1>8 DEF QueueInv

\* One write of the first n of the bytes u to s: t is what is there then and
\* v what is still to write.
Wrote(t, v, s, u, n) == t = s \o SubSeq(u, 1, n) /\ v = SubSeq(u, n + 1, Len(u))
Remains(v, u, n) == Len(v) = Len(u) - n /\ \A j \in 1..(Len(u) - n) : v[j] = u[n + j]

LEMMA Written ==
  ASSUME NEW S, NEW s \in Seq(S), NEW u \in Seq(S), NEW n \in 1..Len(u),
         NEW t, NEW v, Wrote(t, v, s, u, n)
  PROVE  t \in Seq(S) /\ Continued(t, s, u, n) /\ v \in Seq(S) /\ Remains(v, u, n)
<1>1. v \in Seq(S) /\ Remains(v, u, n)
  <2>1. v = SubSeq(u, n + 1, Len(u)) BY DEF Wrote
  <2> QED BY <2>1 DEF Remains
<1>2. PICK w \in Seq(S) : w = SubSeq(u, 1, n) /\ Len(w) = n /\ \A j \in 1..n : w[j] = u[j]
  <2> DEFINE x == SubSeq(u, 1, n)
  <2>1. x \in Seq(S) /\ Len(x) = n /\ \A j \in 1..n : x[j] = u[j] OBVIOUS
  <2>2. x = SubSeq(u, 1, n) OBVIOUS
  <2> HIDE DEF x
  <2> QED BY <2>1, <2>2
<1>3. t = s \o w BY <1>2, Zenon DEF Wrote
<1>4. t \in Seq(S) /\ Continued(t, s, w, Len(w)) BY <1>2, <1>3, Joined, Zenon
<1>5. Continued(t, s, u, n) BY <1>2, <1>4, Zenon DEF Continued
<1> QED BY <1>1, <1>4, <1>5, Zenon

\* write_all goes on: a last write completes the record's frame.
LEMMA WriteStep ==
  ASSUME QueueInv, Write
  PROVE  QueueInv'
<1>1. PICK n \in 1..Len(toWrite) :
        /\ file' = file \o SubSeq(toWrite, 1, n)
        /\ toWrite' = SubSeq(toWrite, n + 1, Len(toWrite))
        /\ whole' = IF n = Len(toWrite) /\ ~damaged THEN Append(whole, record) ELSE whole
  BY DEF Write
<1>2. /\ toWrite # <<>> /\ durable' = durable /\ record' = record /\ appends' = appends
      /\ synced' = synced /\ damaged' = damaged
  BY DEF Write
<1>3. /\ file \in Seq(Byte) /\ durable \in Seq(Byte)
      /\ toWrite \in Seq(Byte) /\ IsPrefix(durable, file)
      /\ whole \in Seq(Fitting) /\ record \in Fitting
  BY <1>2 DEF QueueInv, QueueTypeOK, FileInv, AppendInv
<1> DEFINE F == Frame(record)
<1>4. PICK L \in Nat : L = Len(F) /\ F \in Seq(Byte)
  BY <1>3, FittingFacts
<1>5. PICK W \in Nat, M \in Nat : W = Len(toWrite) /\ M = Len(file) BY <1>3
<1>16. /\ file' \in Seq(Byte) /\ Continued(file', file, toWrite, n)
       /\ toWrite' \in Seq(Byte) /\ Remains(toWrite', toWrite, n)
  <2>1. Wrote(file', toWrite', file, toWrite, n) BY <1>1, Zenon DEF Wrote
  <2> QED BY <1>1, <1>3, <2>1, Written, Zenon
<1>6. /\ file' \in Seq(Byte) /\ Len(file') = M + n
      /\ \A i \in 1..M : file'[i] = file[i]
      /\ \A j \in 1..n : file'[M + j] = toWrite[j]
      /\ toWrite' \in Seq(Byte) /\ Len(toWrite') = W - n
      /\ \A j \in 1..(W - n) : toWrite'[j] = toWrite[n + j]
  BY <1>5, <1>16 DEF Continued, Remains
<1>7. n \in 1..W /\ W <= L /\ \A j \in 1..W : toWrite[j] = F[(L - W) + j]
  <2>1. record # NoRecord BY <1>3, FittingFacts
  <2> QED BY <1>4, <1>5, <2>1 DEF QueueInv, AppendInv
<1> HIDE DEF F
<1>8. AppendInv'
  <2>1. ASSUME NEW j \in 1..(W - n) PROVE toWrite'[j] = F[(L - (W - n)) + j]
    <3>1. n + j \in 1..W /\ (L - W) + (n + j) = (L - (W - n)) + j BY <1>7
    <3> QED BY <1>6, <1>7, <3>1
  <2>2. Len(toWrite') <= Len(F) BY <1>4, <1>6, <1>7
  <2>3. \A j \in 1..Len(toWrite') : toWrite'[j] = F[(Len(F) - Len(toWrite')) + j]
    BY <1>4, <1>6, <2>1
  <2>4. record # NoRecord BY <1>3, FittingFacts
  <2> QED BY <1>2, <1>3, <2>2, <2>3, <2>4 DEF AppendInv, F
<1>9. DurableInv' BY <1>2 DEF QueueInv, DurableInv
<1>10. PICK e \in 0..Len(file) : Begins(file, whole, e) /\ (~damaged => Partly(e))
  BY DEF QueueInv, FileInv
<1>11. e \in Nat /\ e <= M /\ e <= M + n BY <1>5, <1>10
<1>12. Begins(file', whole, e)
  <2>1. Len(file) \in Nat /\ Len(file') \in Nat /\ e <= Len(file')
        /\ \A i \in 1..e : file'[i] = file[i]
    BY <1>5, <1>6, <1>11
  <2> QED BY <1>3, <1>10, <2>1, BeginsElsewhere
<1>13. ASSUME ~damaged
       PROVE  M = e + (L - W) /\ \A j \in 1..((L - W) + n) : file'[e + j] = F[j]
  <2>1. M = e + (L - W) /\ \A j \in 1..(M - e) : file[e + j] = F[j]
    BY <1>2, <1>4, <1>5, <1>10, <1>13 DEF Partly, F
  <2>2. ASSUME NEW j \in 1..((L - W) + n) PROVE file'[e + j] = F[j]
    <3>1. CASE j <= L - W
      <4>1. j \in 1..(M - e) /\ e + j \in 1..M BY <1>7, <1>11, <2>1, <3>1
      <4> QED BY <1>6, <2>1, <4>1
    <3>2. CASE j > L - W
      <4>1. PICK i \in 1..n : j = (L - W) + i BY <1>7, <3>2
      <4>2. e + j = M + i /\ i \in 1..W BY <1>7, <1>11, <2>1, <4>1
      <4> QED BY <1>6, <1>7, <4>1, <4>2
    <3> QED BY <1>7, <3>1, <3>2
  <2> QED BY <1>7, <1>11, <2>1, <2>2
<1>14. FileInv' /\ whole' \in Seq(Payloads)
  <2>1. CASE ~damaged /\ n = W
    <3>1. whole' = Append(whole, record) BY <1>1, <1>5, <2>1
    <3>2. whole' \in Seq(Fitting) BY <1>3, <3>1
    <3>3. Len(file') = e + L /\ \A j \in 1..L : file'[e + j] = F[j]
      BY <1>6, <1>7, <1>11, <1>13, <2>1
    <3>4. Begins(file', Append(whole, record), Len(file'))
      <4>1. Len(file') \in Nat BY <1>6
      <4>2. Len(file') = e + Len(Frame(record)) BY <1>4, <3>3 DEF F
      <4>3. \A j \in 1..Len(Frame(record)) : file'[e + j] = Frame(record)[j]
        BY <1>4, <3>3 DEF F
      <4> QED BY <1>3, <1>12, <4>1, <4>2, <4>3, BeginsMore
    <3>5. toWrite' = <<>> BY <1>6, <2>1
    <3>6. Len(file') \in 0..Len(file') /\ Partly(Len(file))' BY <1>6, <3>5 DEF Partly
    <3> QED BY <3>1, <3>2, <3>4, <3>6, FittingFacts DEF FileInv
  <2>2. CASE damaged \/ n # W
    <3>1. whole' = whole BY <1>1, <1>5, <2>2
    <3>2. e \in 0..Len(file') BY <1>6, <1>11
    <3>3. ASSUME ~damaged' PROVE Partly(e)'
      <4>1. ~damaged /\ n # W BY <1>2, <2>2, <3>3
      <4>2. toWrite' # <<>> BY <1>6, <1>7, <4>1
      <4>3. Len(file') = e + (L - Len(toWrite')) BY <1>6, <1>7, <1>11, <1>13, <4>1
      <4>4. \A j \in 1..(Len(file') - e) : file'[e + j] = F[j]
        <5>1. Len(file') - e = (L - W) + n BY <1>6, <1>7, <1>11, <1>13, <4>1
        <5>2. \A j \in 1..((L - W) + n) : file'[e + j] = F[j]
          BY <1>7, <1>11, <1>13, <4>1, <5>1
        <5> QED BY <5>1, <5>2
      <4> QED BY <1>2, <1>4, <4>2, <4>3, <4>4 DEF Partly, F
    <3> QED BY <1>3, <1>12, <3>1, <3>2, <3>3, FittingFacts DEF FileInv
  <2> QED BY <2>1, <2>2
<1>15. QueueTypeOK'
  <2>1. IsPrefix(durable, file')
    <3>1. Len(durable) <= M /\ \A i \in 1..Len(durable) : durable[i] = file[i]
      BY <1>3, <1>5, PrefixIs
    <3>2. Len(durable) \in Nat BY <1>3
    <3>3. Len(durable) <= Len(file') /\ \A i \in 1..Len(durable) : durable[i] = file'[i]
      BY <1>6, <3>1, <3>2
    <3> QED BY <1>3, <1>6, <3>3, PrefixIs
  <2> QED BY <1>2, <1>6, <1>14, <2>1 DEF QueueInv, QueueTypeOK
<1> QED BY <1>8, <1>9, <1>14, <1>15 DEF QueueInv

\* fsync: all that was written is durable.
LEMMA SyncStep ==
  ASSUME QueueInv, Sync
  PROVE  QueueInv'
<1>1. /\ toWrite = <<>> /\ toWrite' = toWrite /\ file' = file /\ durable' = file
      /\ synced' = whole /\ whole' = whole /\ record' = NoRecord
      /\ appends' = appends /\ damaged' = damaged
  BY DEF Sync, AfterSync
<1>2. file \in Seq(Byte) /\ whole \in Seq(Fitting) BY DEF QueueInv, QueueTypeOK, FileInv
<1>3. QueueTypeOK'
  <2>1. IsPrefix(file, file) BY <1>2, PrefixIs
  <2> QED BY <1>1, <1>2, <2>1 DEF QueueInv, QueueTypeOK
<1>4. AppendInv' BY <1>1 DEF AppendInv
<1>5. PICK e \in 0..Len(file) : Begins(file, whole, e) /\ (~damaged => Partly(e))
  BY DEF QueueInv, FileInv
<1>6. ~damaged => e = Len(file) BY <1>1, <1>5 DEF Partly
<1>7. DurableInv' BY <1>1, <1>2, <1>5, <1>6 DEF DurableInv
<1>8. FileInv' BY <1>1, <1>2, <1>5, <1>6 DEF FileInv, Partly
<1> QED BY <1>3, <1>4, <1>7, <1>8 DEF QueueInv

\* An append that ends without having been cut short leaves whole frames only.
LEMMA EndsWhole ==
  ASSUME QueueInv, NEW e \in 0..Len(file), Partly(e), ~CutShort
  PROVE  e = Len(file)
<1>1. CASE toWrite = <<>> BY <1>1 DEF Partly
<1>2. CASE toWrite # <<>>
  <2>1. record \in Fitting /\ Len(toWrite) <= Len(Frame(record))
    BY <1>2 DEF QueueInv, AppendInv
  <2>2. Len(Frame(record)) = HEADER + Len(record) /\ Frame(record) \in Seq(Byte)
    BY <2>1, FittingFacts
  <2>3. toWrite \in Seq(Byte) /\ file \in Seq(Byte) BY DEF QueueInv, QueueTypeOK
  <2>4. PICK L \in Nat : L = Len(Frame(record)) BY <2>2
  <2>5. Len(toWrite) \in Nat /\ ~(Len(toWrite) < L) /\ Len(toWrite) <= L
    BY <1>2, <2>1, <2>2, <2>3, <2>4 DEF CutShort
  <2>6. Len(file) = e + (L - Len(toWrite)) BY <1>2, <2>4 DEF Partly
  <2> QED BY <2>5, <2>6
<1> QED BY <1>1, <1>2

\* A write or the sync fails, or the process dies.
LEMMA AbandonStep ==
  ASSUME QueueInv, Abandon
  PROVE  QueueInv'
<1>1. /\ toWrite' = <<>> /\ file' = file /\ durable' = durable /\ synced' = synced
      /\ whole' = whole /\ record' = NoRecord /\ appends' = appends
      /\ damaged' = (damaged \/ CutShort)
  BY DEF Abandon
<1>2. QueueTypeOK'
  <2>1. <<>> \in Seq(Byte) OBVIOUS
  <2>2. damaged' \in BOOLEAN BY <1>1
  <2> QED BY <1>1, <2>1, <2>2 DEF QueueInv, QueueTypeOK
<1>3. AppendInv' BY <1>1 DEF AppendInv
<1>4. DurableInv' BY <1>1 DEF QueueInv, DurableInv
<1>5. PICK e \in 0..Len(file) : Begins(file, whole, e) /\ (~damaged => Partly(e))
  BY DEF QueueInv, FileInv
<1>6. ~damaged' => e = Len(file) BY <1>1, <1>5, EndsWhole
<1>7. FileInv' BY <1>1, <1>5, <1>6 DEF QueueInv, FileInv, Partly
<1> QED BY <1>2, <1>3, <1>4, <1>7 DEF QueueInv

\* Power loss: the file is cut to some prefix that holds the durable bytes.
LEMMA PowerLossStep ==
  ASSUME QueueInv, PowerLoss
  PROVE  QueueInv'
<1>1. PICK n \in Len(durable)..Len(file) :
        /\ file' = SubSeq(file, 1, n) /\ durable' = file'
        /\ IF n = Len(file)
             THEN damaged' = (damaged \/ CutShort) /\ synced' = whole /\ whole' = whole
             ELSE /\ damaged' = (damaged \/ n > Len(durable))
                  /\ whole' = synced /\ synced' = synced
  BY DEF PowerLoss
<1>2. record' = NoRecord /\ toWrite' = <<>> /\ appends' = appends BY DEF PowerLoss
<1>3. /\ file \in Seq(Byte) /\ durable \in Seq(Byte)
      /\ IsPrefix(durable, file) /\ damaged \in BOOLEAN /\ appends \in Nat
      /\ whole \in Seq(Fitting) /\ synced \in Seq(Fitting)
  BY DEF QueueInv, QueueTypeOK, FileInv, DurableInv
<1>4. PICK D \in Nat, M \in Nat : D = Len(durable) /\ M = Len(file) BY <1>3
<1>5. D <= M /\ n \in D..M /\ \A i \in 1..D : durable[i] = file[i]
  <2>1. Len(durable) <= Len(file) /\ \A i \in 1..Len(durable) : durable[i] = file[i]
    BY <1>3, PrefixIs
  <2> QED BY <1>1, <1>4, <2>1
<1>6. /\ file' \in Seq(Byte) /\ Len(file') = n /\ n \in Nat
      /\ \A i \in 1..n : file'[i] = file[i]
  <2> DEFINE s == SubSeq(file, 1, n)
  <2>1. s \in Seq(Byte) /\ Len(s) = n /\ n \in Nat /\ \A i \in 1..n : s[i] = file[i]
    BY <1>3, <1>4, <1>5
  <2>2. file' = s BY <1>1
  <2> HIDE DEF s
  <2> QED BY <2>1, <2>2
<1>7. AppendInv' BY <1>2 DEF AppendInv
<1>8. /\ whole' = synced' /\ synced' \in Seq(Fitting)
      /\ \E e \in 0..Len(file') : Begins(file', synced', e) /\ (~damaged' => e = Len(file'))
  <2>1. CASE n = M
    <3>1. PICK e \in 0..Len(file) : Begins(file, whole, e) /\ (~damaged => Partly(e))
      BY DEF QueueInv, FileInv
    <3>2. damaged' = (damaged \/ CutShort) /\ synced' = whole /\ whole' = whole
      BY <1>1, <1>4, <2>1
    <3>3. ~damaged' => e = M BY <1>4, <3>1, <3>2, EndsWhole
    <3>4. e \in 0..M /\ Len(file') = M BY <1>4, <1>6, <2>1, <3>1
    <3>5. Begins(file', whole, e)
      <4>1. /\ Len(file) \in Nat /\ Len(file') \in Nat /\ e <= Len(file')
            /\ \A i \in 1..e : file'[i] = file[i]
        BY <1>4, <1>6, <2>1, <3>4
      <4> QED BY <1>3, <3>1, <4>1, BeginsElsewhere
    <3> QED BY <1>3, <3>2, <3>3, <3>4, <3>5
  <2>2. CASE n # M
    <3>1. PICK d \in 0..Len(durable) : Begins(durable, synced, d) /\ (~damaged => d = Len(durable))
      BY DEF QueueInv, DurableInv
    <3>2. damaged' = (damaged \/ n > D) /\ synced' = synced /\ whole' = synced
      BY <1>1, <1>4, <2>2
    <3>3. d \in 0..D /\ d \in 0..Len(file') BY <1>4, <1>5, <1>6, <3>1
    <3>4. ~damaged' => d = Len(file')
      <4> HAVE ~damaged'
      <4>1. ~damaged /\ ~(n > D) BY <3>2
      <4>2. n = D BY <1>5, <4>1
      <4> QED BY <1>4, <1>6, <3>1, <4>1, <4>2, Zenon
    <3>5. Begins(file', synced, d)
      <4>1. /\ Len(durable) \in Nat /\ Len(file') \in Nat /\ d <= Len(file')
            /\ \A i \in 1..d : file'[i] = durable[i]
        BY <1>4, <1>5, <1>6, <3>3
      <4> QED BY <1>3, <3>1, <4>1, BeginsElsewhere
    <3> QED BY <1>3, <3>2, <3>3, <3>4, <3>5
  <2> QED BY <2>1, <2>2
<1>9. DurableInv' BY <1>1, <1>8 DEF DurableInv
<1>10. FileInv' BY <1>2, <1>8 DEF FileInv, Partly
<1>11. QueueTypeOK'
  <2>1. <<>> \in Seq(Byte) OBVIOUS
  <2>2. damaged' \in BOOLEAN BY <1>1, <1>3
  <2>3. IsPrefix(file', file') BY <1>6, PrefixIs
  <2>4. whole' \in Seq(Payloads) /\ synced' \in Seq(Payloads) BY <1>8, FittingFacts
  <2> QED BY <1>1, <1>2, <1>3, <1>6, <2>1, <2>2, <2>3, <2>4 DEF QueueTypeOK
<1> QED BY <1>7, <1>9, <1>10, <1>11 DEF QueueInv

LEMMA QueueStep ==
  ASSUME QueueInv, [QueueNext]_QueueVars
  PROVE  QueueInv'
<1>1. ASSUME NEW r \in Payloads, Append_(r) PROVE QueueInv' BY <1>1, AppendStep
<1>2. CASE UNCHANGED QueueVars
  <2>1. /\ file' = file /\ durable' = durable /\ record' = record /\ toWrite' = toWrite
        /\ appends' = appends /\ whole' = whole /\ synced' = synced /\ damaged' = damaged
    BY <1>2 DEF QueueVars
  <2>2. QueueTypeOK' BY <2>1 DEF QueueInv, QueueTypeOK
  <2>3. AppendInv' BY <2>1 DEF QueueInv, AppendInv
  <2>4. DurableInv' BY <2>1 DEF QueueInv, DurableInv
  <2>5. FileInv' BY <2>1 DEF QueueInv, FileInv, Partly
  <2> QED BY <2>2, <2>3, <2>4, <2>5 DEF QueueInv
<1> QED BY <1>1, <1>2, WriteStep, SyncStep, AbandonStep, PowerLossStep DEF QueueNext

LEMMA QueueInvariant == QueueSpec => []QueueInv
<1>1. QueueInit => QueueInv BY QueueInitially
<1>2. QueueInv /\ [QueueNext]_QueueVars => QueueInv' BY QueueStep
<1> QED BY <1>1, <1>2, PTL DEF QueueSpec

\* The bytes, the record on its way and the histories keep their types, and
\* what is durable is a prefix of what a reader sees (queue.rs:13-28).
THEOREM QueueTypes == QueueSpec => []QueueTypeOK
<1>1. QueueInv => QueueTypeOK BY DEF QueueInv
<1> QED BY <1>1, QueueInvariant, PTL

LEMMA SyncedAreRead ==
  ASSUME QueueInv
  PROVE  EarlierRecordsSurvive
<1>1. /\ file \in Seq(Byte) /\ durable \in Seq(Byte)
      /\ IsPrefix(durable, file) /\ synced \in Seq(Fitting)
  BY DEF QueueInv, QueueTypeOK, DurableInv
<1>2. PICK d \in 0..Len(durable) : Begins(durable, synced, d) BY DEF QueueInv, DurableInv
<1>3. Begins(file, synced, d)
  <2>1. Len(durable) <= Len(file) /\ \A i \in 1..Len(durable) : durable[i] = file[i]
    BY <1>1, PrefixIs
  <2>2. Len(durable) \in Nat /\ Len(file) \in Nat BY <1>1
  <2>3. d <= Len(file) /\ \A i \in 1..d : file[i] = durable[i] BY <1>2, <2>1, <2>2
  <2> QED BY <1>1, <1>2, <2>2, <2>3, BeginsElsewhere
<1>4. PICK from : /\ \A i \in 0..Len(file) : from[i] = ReadOn(file, from, i)
                  /\ ReadAll(file) = from[0]
  BY <1>1, ReadSteps
<1>5. d \in 0..Len(file) /\ from[0] = synced \o from[d] BY <1>1, <1>3, <1>4, FramesRead
<1>6. from[d] \in Seq(Seq(Byte)) BY <1>1, <1>4, <1>5, ReadTyped
<1>7. synced \in Seq(Seq(Byte))
  <2>1. \A r \in Fitting : r \in Seq(Byte) BY FittingFacts
  <2> QED BY <1>1, <2>1
<1> DEFINE S == Seq(Byte)  t == synced \o from[d]
<1>8. synced \in Seq(S) /\ from[d] \in Seq(S) BY <1>6, <1>7
<1> HIDE DEF S
<1>9. /\ t \in Seq(S) /\ Len(t) = Len(synced) + Len(from[d])
      /\ \A i \in 1..Len(synced) : t[i] = synced[i]
  BY <1>8
<1>10. Len(synced) \in Nat /\ Len(from[d]) \in Nat BY <1>8
<1>11. ReadAll(file) = t BY <1>4, <1>5, Zenon
<1> HIDE DEF t
<1>12. IsPrefix(synced, t) BY <1>8, <1>9, <1>10, PrefixIs
<1> QED BY <1>11, <1>12 DEF EarlierRecordsSurvive

\* What was synced is read back first and in order, after any crash, error,
\* power loss and later append (queue.rs:16-27, 35-61).
THEOREM RecordsSurvive == QueueSpec => []EarlierRecordsSurvive
<1>1. QueueInv => EarlierRecordsSurvive BY SyncedAreRead
<1> QED BY <1>1, QueueInvariant, PTL

LEMMA WholeAreRead ==
  ASSUME QueueInv
  PROVE  OnlyWholeRecords
<1> SUFFICES ASSUME ~damaged PROVE ReadAll(file) = whole
  BY DEF OnlyWholeRecords
<1>1. file \in Seq(Byte) /\ whole \in Seq(Fitting)
  BY DEF QueueInv, QueueTypeOK, FileInv
<1>2. PICK e \in 0..Len(file) : Begins(file, whole, e) /\ Partly(e) BY DEF QueueInv, FileInv
<1>3. PICK from : /\ \A i \in 0..Len(file) : from[i] = ReadOn(file, from, i)
                  /\ ReadAll(file) = from[0]
  BY <1>1, ReadSteps
<1>4. from[0] = whole \o from[e] BY <1>1, <1>2, <1>3, FramesRead
<1>5. ReadOn(file, from, e) = <<>>
  <2>1. CASE toWrite = <<>>
    <3>1. e = Len(file) /\ Len(file) \in Nat BY <1>1, <1>2, <2>1 DEF Partly
    <3>2. HEADER \in Nat \ {0} BY QueueAssumption
    <3>3. e + HEADER > Len(file) BY <3>1, <3>2
    <3> QED BY <3>3, Zenon DEF ReadOn
  <2>2. CASE toWrite # <<>>
    <3>1. record \in Fitting BY <2>2 DEF QueueInv, AppendInv
    <3>2. Len(Frame(record)) \in Nat BY <3>1, FittingFacts
    <3>3. /\ Len(file) = e + (Len(Frame(record)) - Len(toWrite))
          /\ \A j \in 1..(Len(file) - e) : file[e + j] = Frame(record)[j]
      BY <1>2, <2>2 DEF Partly
    <3>4. Len(toWrite) \in Nat \ {0} BY <2>2 DEF QueueInv, QueueTypeOK
    <3>5. Len(file) < e + Len(Frame(record)) BY <3>2, <3>3, <3>4
    <3> QED BY <1>1, <3>1, <3>3, <3>5, PartRead
  <2> QED BY <2>1, <2>2
<1>6. from[e] = <<>> BY <1>3, <1>5
<1>7. whole \o <<>> = whole BY <1>1
<1>8. from[0] = whole \o <<>> BY <1>4, <1>6, Zenon
<1> QED BY <1>3, <1>7, <1>8, Zenon

\* Until a frame is cut short a reader finds exactly the records whose frame
\* is complete, also in the middle of a write (queue.rs:35-61).
THEOREM NeverHalfARecord == QueueSpec => []OnlyWholeRecords
<1>1. QueueInv => OnlyWholeRecords BY WholeAreRead
<1> QED BY <1>1, QueueInvariant, PTL
=============================================================================
