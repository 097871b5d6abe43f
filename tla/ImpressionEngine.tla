-------------------------- MODULE ImpressionEngine --------------------------
(***************************************************************************)
(* The impression engine of crates/spnrd/src/engine.rs as operators on the *)
(* record that stands for one `Session`.  The engine is pure: the daemon   *)
(* passes it the receipt time of every message, so a session's state is a  *)
(* function of the messages and of their times.                            *)
(*                                                                         *)
(* Times are natural numbers of clock units, SECOND units to a second (the *)
(* code has 1000, one per millisecond); a heartbeat and a hook may fall    *)
(* anywhere inside a second.  `heartbeats` is a set: the code's Vec is     *)
(* only searched for its latest member at or before a tick.                *)
(***************************************************************************)
EXTENDS Integers, FiniteSets

CONSTANTS
  SECOND,                        \* clock units per second
  GATE_WINDOW,                   \* liveness gate width, in clock units
  IMPRESSION_SECONDS,            \* attested seconds per impression
  MAX_IMPRESSIONS_PER_INTERVAL   \* cap per wait interval

ASSUME EngineAssumption ==
  /\ SECOND \in Nat \ {0}
  /\ GATE_WINDOW \in Nat
  /\ IMPRESSION_SECONDS \in Nat \ {0}
  /\ MAX_IMPRESSIONS_PER_INTERVAL \in Nat

Phase == {"Idle", "Waiting", "ToolRunning"}
NotOpen == -1                    \* subspan_open_ms = None

SessionType ==
  [phase : Phase, open : Nat \cup {NotOpen}, counted : Nat,
   heartbeats : SUBSET Nat, paused : BOOLEAN, tty : BOOLEAN]

\* Session::default
NewSession ==
  [phase |-> "Idle", open |-> NotOpen, counted |-> 0,
   heartbeats |-> {}, paused |-> FALSE, tty |-> TRUE]

\* A tick is fresh when the most recent heartbeat at or before it is within
\* the gate, that is when some heartbeat is.
Bug_FreshEitherSide(heartbeats, tick) ==
  \E h \in heartbeats : tick - h <= GATE_WINDOW
Fresh(heartbeats, tick) ==
  \E h \in heartbeats : h <= tick /\ tick - h <= GATE_WINDOW

\* Whole seconds between two times: the trailing partial second is dropped.
WholeSeconds(from, to) == (to - from) \div SECOND

CountableSecondsIn(open, close, heartbeats, paused, tty) ==
  IF paused \/ ~tty \/ close <= open
    THEN 0
    ELSE Cardinality({k \in 1..WholeSeconds(open, close) :
                        Fresh(heartbeats, open + k * SECOND)})

SetPaused(s, paused) == [s EXCEPT !.paused = paused]

\* Storing where the heartbeat's window starts: underflows near time zero.
Bug_HeartbeatWindowStart(s, now) ==
  [s EXCEPT !.heartbeats = @ \cup {now - GATE_WINDOW}]
OnHeartbeat(s, now) == [s EXCEPT !.heartbeats = @ \cup {now}]

Bug_ResetKeepsCount(s) ==
  [s EXCEPT !.phase = "Idle", !.open = NotOpen, !.heartbeats = {}]
ResetInterval(s) ==
  [s EXCEPT !.phase = "Idle", !.open = NotOpen, !.counted = 0, !.heartbeats = {}]

CloseSubspan(s, now) ==
  IF s.open = NotOpen THEN s
  ELSE [s EXCEPT !.open = NotOpen,
                 !.counted = @ + CountableSecondsIn(s.open, now, s.heartbeats,
                                                    s.paused, s.tty)]

OnPromptSubmit(s, now) ==
  [ResetInterval(s) EXCEPT !.phase = "Waiting", !.open = now]

\* A PreToolUse that leaves the tool's time inside the interval.
Bug_PreToolIgnored(s, now) == s
OnPreTool(s, now) ==
  IF s.phase = "Waiting"
    THEN [CloseSubspan(s, now) EXCEPT !.phase = "ToolRunning"]
    ELSE s

OnPostTool(s, now) ==
  IF s.phase = "ToolRunning"
    THEN [s EXCEPT !.phase = "Waiting", !.open = now]
    ELSE s

\* The session just before `Stop` resets it, and what that Stop earns.
Closed(s, now) == IF s.phase = "Waiting" THEN CloseSubspan(s, now) ELSE s

Bug_Uncapped(seconds) == seconds \div IMPRESSION_SECONDS
Impressions(seconds) ==
  LET n == seconds \div IMPRESSION_SECONDS
  IN  IF n < MAX_IMPRESSIONS_PER_INTERVAL THEN n ELSE MAX_IMPRESSIONS_PER_INTERVAL

StopImpressions(s, now) == Impressions(Closed(s, now).counted)

OnStop(s, now) == ResetInterval(Closed(s, now))
=============================================================================
