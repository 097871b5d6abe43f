------------------------------- MODULE Daemon -------------------------------
(***************************************************************************)
(* The daemon of crates/spnrd/src/main.rs: the session map, the pause      *)
(* switch, the signed event chain and the queue file, across restarts.     *)
(*                                                                         *)
(* The socket delivers any message of any session at any time, so dropped, *)
(* late and reordered datagrams are all among the behaviours.  The clock   *)
(* is the wall clock (now_ms reads SystemTime), which the system may step  *)
(* back.  A crash loses everything but the queue file; a restart makes a   *)
(* fresh key, so `key` numbers the daemon's runs.                          *)
(***************************************************************************)
EXTENDS ImpressionEngine, SignedChain

CONSTANTS
  Sessions,    \* session ids of the host
  MaxTime,     \* bound: last clock value
  MaxBacks,    \* bound: steps back of the clock
  MaxRuns,     \* bound: daemon starts
  MaxEvents,   \* bound: impression events emitted
  MaxBeats     \* bound: heartbeats received for one session

ASSUME DaemonAssumption ==
  /\ MaxTime \in Nat /\ MaxBacks \in Nat /\ MaxRuns \in Nat \ {0}
  /\ MaxEvents \in Nat /\ MaxBeats \in Nat

VARIABLES
  now,        \* the clock
  up,         \* the daemon process runs
  sessions,   \* HashMap of sessions: a function whose domain is the known ids
  paused, key, ctr, prev,
  total,      \* impressions_total, the ticker of the status line
  queue,      \* queue.log, oldest record first
  emitted,    \* history: every event built, in order, over all runs
  earned,     \* history: impressions emitted for each session
  beats,      \* history: heartbeats received for each session
  backs       \* history: times the clock was stepped back

chain == <<ctr, prev, total, queue, emitted>>
vars == <<now, up, sessions, paused, key, chain, earned, beats, backs>>

SetPausedAll(ss, value) == [s \in DOMAIN ss |-> SetPaused(ss[s], value)]

EventType ==
  [id : Seq(Nat), key : Nat, ctr : Nat, prev : Seq(Nat), n : Nat, digest : Seq(Nat)]

TypeOK ==
  /\ now \in Nat /\ up \in BOOLEAN /\ paused \in BOOLEAN
  /\ DOMAIN sessions \subseteq Sessions
  /\ \A s \in DOMAIN sessions : sessions[s] \in SessionType
  /\ key \in Nat /\ ctr \in Nat /\ prev \in Seq(Nat) /\ total \in Nat
  /\ queue \in Seq(EventType) /\ emitted \in Seq(EventType)
  /\ earned \in [Sessions -> Nat] /\ beats \in [Sessions -> Nat] /\ backs \in Nat

NoSessions == [s \in {} |-> NewSession]

Init ==
  /\ now = 0 /\ up = TRUE /\ sessions = NoSessions /\ paused = FALSE
  /\ key = 1 /\ ctr = 0 /\ prev = GENESIS_PREV /\ total = 0
  /\ queue = <<>> /\ emitted = <<>>
  /\ earned = [s \in Sessions |-> 0] /\ beats = [s \in Sessions |-> 0]
  /\ backs = 0

Tick ==
  /\ now < MaxTime /\ now' = now + 1
  /\ UNCHANGED <<up, sessions, paused, key, chain, earned, beats, backs>>

\* The system steps the clock back to any earlier time.
ClockBack ==
  /\ backs < MaxBacks /\ backs' = backs + 1
  /\ now' \in 0..(now - 1)
  /\ UNCHANGED <<up, sessions, paused, key, chain, earned, beats>>

-----------------------------------------------------------------------------
\* sessions.entry(id).or_default() with the daemon's pause switch copied in.
Bug_EntryForgetsPause(id) == IF id \in DOMAIN sessions THEN sessions[id] ELSE NewSession
Entry(id) ==
  SetPaused(IF id \in DOMAIN sessions THEN sessions[id] ELSE NewSession, paused)

With(id, s) == [x \in DOMAIN sessions \cup {id} |-> IF x = id THEN s ELSE sessions[x]]
Without(id) == [x \in DOMAIN sessions \ {id} |-> sessions[x]]

\* emit_impressions: the append may fail, and nobody looks.
Emit(n) ==
  LET e == NewEvent(key, ctr, prev, n)
  IN  /\ prev' = e.digest /\ ctr' = ctr + 1 /\ total' = total + n
      /\ emitted' = Append(emitted, e)
      /\ queue' \in {Append(queue, e), queue}

Hook(id, session) ==
  /\ up
  /\ sessions' = With(id, session)
  /\ UNCHANGED <<now, up, paused, key, chain, earned, beats, backs>>

UserPromptSubmit(id) == Hook(id, OnPromptSubmit(Entry(id), now))
PreToolUse(id)       == Hook(id, OnPreTool(Entry(id), now))
PostToolUse(id)      == Hook(id, OnPostTool(Entry(id), now))
\* SessionStart, Notification and unknown hooks still create the session.
OtherHook(id)        == Hook(id, Entry(id))

Stop(id) ==
  LET n == StopImpressions(Entry(id), now)
  IN  /\ up /\ Len(emitted) < MaxEvents
      /\ sessions' = With(id, OnStop(Entry(id), now))
      /\ IF n > 0 THEN Emit(n) ELSE UNCHANGED chain
      /\ earned' = [earned EXCEPT ![id] = @ + n]
      /\ UNCHANGED <<now, up, paused, key, beats, backs>>

SessionEnd(id) ==
  /\ up
  /\ sessions' = Without(id)
  /\ UNCHANGED <<now, up, paused, key, chain, earned, beats, backs>>

\* A heartbeat of a session no hook has named is ignored.
Bug_HeartbeatForAll(id) == [s \in DOMAIN sessions |-> OnHeartbeat(sessions[s], now)]
HeartbeatEffect(id) ==
  IF id \in DOMAIN sessions THEN With(id, OnHeartbeat(sessions[id], now)) ELSE sessions
Heartbeat(id) ==
  /\ up /\ beats[id] < MaxBeats
  /\ sessions' = HeartbeatEffect(id)
  /\ beats' = [beats EXCEPT ![id] = @ + 1]
  /\ UNCHANGED <<now, up, paused, key, chain, earned, backs>>

PauseResume(value) ==
  /\ up
  /\ paused' = value
  /\ sessions' = SetPausedAll(sessions, value)
  /\ UNCHANGED <<now, up, key, chain, earned, beats, backs>>

-----------------------------------------------------------------------------
\* The process dies; only queue.log remains.
Crash ==
  /\ up /\ up' = FALSE
  /\ sessions' = NoSessions
  /\ UNCHANGED <<now, paused, key, chain, earned, beats, backs>>

\* Daemon::new: a fresh key for every start.
Bug_SameKey == key
FreshKey == key + 1
Restart ==
  /\ ~up /\ key < MaxRuns
  /\ up' = TRUE /\ key' = FreshKey
  /\ paused' = FALSE /\ ctr' = 0 /\ prev' = GENESIS_PREV /\ total' = 0
  /\ UNCHANGED <<now, sessions, queue, emitted, earned, beats, backs>>

Next ==
  \/ Tick \/ ClockBack \/ Crash \/ Restart
  \/ \E v \in BOOLEAN : PauseResume(v)
  \/ \E id \in Sessions :
       \/ UserPromptSubmit(id) \/ PreToolUse(id) \/ PostToolUse(id) \/ OtherHook(id)
       \/ Stop(id) \/ SessionEnd(id) \/ Heartbeat(id)

Spec == Init /\ [][Next]_vars

-----------------------------------------------------------------------------
(* PROPERTIES *)

\* The pause switch and the copies of it in the sessions never disagree, also
\* for a session first seen, or forgotten and seen again, while paused
\* (main.rs:140-142, 168-178).
PauseReachesEverySession == \A s \in DOMAIN sessions : sessions[s].paused = paused

\* Within one key the events form one chain from genesis, each linked to the
\* one before it, and across restarts no counter is signed twice
\* (main.rs:101-121, 185-201; docs/03-protocol-SAP1.md:143).
OneChainPerKey ==
  \A i \in 1..Len(emitted) :
    LET e == emitted[i]
        earlier == {j \in 1..(i - 1) : emitted[j].key = e.key}
    IN  IF earlier = {}
          THEN e.ctr = 0 /\ e.prev = GENESIS_PREV
          ELSE LET p == emitted[CHOOSE j \in earlier : \A k \in earlier : k <= j]
               IN  e.ctr = p.ctr + 1 /\ e.prev = p.digest

\* What a session earns is attested by its own heartbeats: those of another
\* session, or received before a restart or a session end, never add to it
\* beyond the ticks of their gate, which open once more for each time the clock
\* is stepped back (main.rs:137-165; engine.rs:139-163).
Windows == backs + 1
OwnHeartbeatsAttest ==
  \A s \in Sessions :
    earned[s] * IMPRESSION_SECONDS <= beats[s] * (Windows * (GATE_WINDOW \div SECOND + 1))
=============================================================================
