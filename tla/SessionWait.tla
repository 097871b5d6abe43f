----------------------------- MODULE SessionWait -----------------------------
(***************************************************************************)
(* One interactive session measured by the daemon: the host (which really  *)
(* waits, runs tools, and is idle), the datagrams its hooks and its        *)
(* statusline send, the socket buffer, and the engine that stamps every    *)
(* message when the daemon receives it (crates/spnrd/src/main.rs, handle). *)
(*                                                                         *)
(* The engine never sees the host: it sees message arrivals.  The history  *)
(* variables record what really happened, so that the properties compare   *)
(* what was earned with what the user actually waited.                     *)
(*                                                                         *)
(* `now` is the daemon's wall clock (now_ms reads SystemTime), which the   *)
(* system may step; `waited` counts real time.                             *)
(***************************************************************************)
EXTENDS ImpressionEngine, Sequences

CONSTANTS
  MaxTime,     \* bound: last clock value, and most time spent waiting
  MaxMoves,    \* bound: host moves, each of which runs one hook
  MaxBeats,    \* bound: statusline heartbeats sent
  MaxCmds,     \* bound: `spnr pause` / `spnr resume` commands
  MaxBacks,    \* bound: steps back of the wall clock
  Buffer       \* bound: datagrams the socket holds before a send is dropped

ASSUME SessionAssumption ==
  /\ MaxTime \in Nat /\ MaxMoves \in Nat /\ MaxBeats \in Nat
  /\ MaxCmds \in Nat /\ MaxBacks \in Nat /\ Buffer \in Nat

VARIABLES
  now,        \* the daemon's clock
  host,       \* what the host is really doing
  wire,       \* datagrams in the daemon's socket buffer, oldest first
  session,    \* the daemon's Session for it
  earned,     \* impressions emitted so far
  waited,     \* history: clock units the host really spent waiting
  moves, prompts,       \* history: host moves made, and prompts among them
  beats, cmds,          \* history: heartbeats and commands sent
  backs       \* history: times the wall clock was stepped back

vars == <<now, host, wire, session, earned, waited, moves, prompts, beats, cmds, backs>>

HostState == {"idle", "waiting", "tool"}
Hook == {"UserPromptSubmit", "PreToolUse", "PostToolUse", "Stop"}
Msg == Hook \cup {"Heartbeat", "Pause", "Resume"}

\* The turns a host can take and the hook each one runs.  A Stop may be run
\* with no turn open and a prompt may arrive inside a turn: the host does not
\* promise one Stop per prompt.
HostMoves ==
  { <<"idle", "waiting", "UserPromptSubmit">>, <<"waiting", "waiting", "UserPromptSubmit">>,
    <<"waiting", "tool", "PreToolUse">>, <<"tool", "waiting", "PostToolUse">>,
    <<"waiting", "idle", "Stop">>, <<"tool", "idle", "Stop">>, <<"idle", "idle", "Stop">> }

TypeOK ==
  /\ now \in Nat /\ host \in HostState /\ wire \in Seq(Msg)
  /\ session \in SessionType
  /\ earned \in Nat /\ waited \in Nat
  /\ moves \in Nat /\ prompts \in Nat /\ beats \in Nat /\ cmds \in Nat
  /\ backs \in Nat

Init ==
  /\ now = 0 /\ host = "idle" /\ wire = <<>> /\ session = NewSession
  /\ earned = 0 /\ waited = 0
  /\ moves = 0 /\ prompts = 0 /\ beats = 0 /\ cmds = 0 /\ backs = 0

-----------------------------------------------------------------------------
\* Real time passes by one unit and the clock follows.
Tick ==
  /\ now < MaxTime /\ waited < MaxTime
  /\ now' = now + 1
  /\ waited' = IF host = "waiting" THEN waited + 1 ELSE waited
  /\ UNCHANGED <<host, wire, session, earned, moves, prompts, beats, cmds, backs>>

\* The system steps the wall clock back, in no real time.
ClockSet(t) ==
  /\ backs < MaxBacks
  /\ now' = t /\ backs' = backs + 1
  /\ UNCHANGED <<host, wire, session, earned, waited, moves, prompts, beats, cmds>>
ClockBack == \E t \in 0..(now - 1) : ClockSet(t)

Send(m) == Len(wire) < Buffer /\ wire' = Append(wire, m)

\* The host moves and runs the hook of that move.  Hooks and statusline send
\* once, without blocking, and ignore the outcome.
HostTurn(from, to, hook) ==
  /\ moves < MaxMoves
  /\ host = from /\ host' = to
  /\ moves' = moves + 1
  /\ prompts' = IF hook = "UserPromptSubmit" THEN prompts + 1 ELSE prompts
  /\ UNCHANGED <<now, session, earned, waited, beats, cmds, backs>>
HostStep == \E m \in HostMoves : HostTurn(m[1], m[2], m[3]) /\ Send(m[3])
HostStepLost == \E m \in HostMoves : HostTurn(m[1], m[2], m[3]) /\ UNCHANGED wire

StatuslineTick ==
  /\ beats < MaxBeats
  /\ Send("Heartbeat")
  /\ beats' = beats + 1
  /\ UNCHANGED <<now, host, session, earned, waited, moves, prompts, cmds, backs>>

UserCommand ==
  /\ cmds < MaxCmds
  /\ \E c \in {"Pause", "Resume"} : Send(c)
  /\ cmds' = cmds + 1
  /\ UNCHANGED <<now, host, session, earned, waited, moves, prompts, beats, backs>>

\* What the daemon does to the session for one decoded message.
Handled(s, m, t) ==
  CASE m = "UserPromptSubmit" -> OnPromptSubmit(s, t)
    [] m = "PreToolUse"       -> OnPreTool(s, t)
    [] m = "PostToolUse"      -> OnPostTool(s, t)
    [] m = "Stop"             -> OnStop(s, t)
    [] m = "Heartbeat"        -> OnHeartbeat(s, t)
    [] m = "Pause"            -> SetPaused(s, TRUE)
    [] m = "Resume"           -> SetPaused(s, FALSE)

Earned(s, m, t) == IF m = "Stop" THEN StopImpressions(s, t) ELSE 0

Receive ==
  /\ wire # <<>>
  /\ wire' = Tail(wire)
  /\ session' = Handled(session, Head(wire), now)
  /\ earned' = earned + Earned(session, Head(wire), now)
  /\ UNCHANGED <<now, host, waited, moves, prompts, beats, cmds, backs>>

-----------------------------------------------------------------------------
Messages == HostStep \/ StatuslineTick \/ UserCommand \/ Receive

\* The daemon drains its socket before time passes and nothing is dropped.
TimelyNext == Messages \/ (wire = <<>> /\ Tick)
TimelySpec == Init /\ [][TimelyNext]_vars

\* Timely delivery under a clock that may be stepped back.
SteppedBackNext == TimelyNext \/ (wire = <<>> /\ ClockBack)
SteppedBackSpec == Init /\ [][SteppedBackNext]_vars

\* What the datagram socket and the clock really promise: hooks may be dropped,
\* datagrams may wait in the buffer while time passes, and the clock may be
\* stepped back at any moment.
BestEffortNext == Messages \/ HostStepLost \/ Tick \/ ClockBack
BestEffortSpec == Init /\ [][BestEffortNext]_vars

-----------------------------------------------------------------------------
(* PROPERTIES *)

\* Every impression is backed by IMPRESSION_SECONDS of time the host really
\* waited: tool time, idle time, partial seconds and a clock stepped back never
\* add up to an impression (engine.rs on_stop, countable_seconds_in).
EarnedByWaiting == earned * IMPRESSION_SECONDS * SECOND <= waited

\* A heartbeat permits at most the ticks of one gate window, and of one more
\* for each time the clock is stepped back while it is kept: whatever is lost,
\* late or reordered against them, and whenever the clock is stepped, n
\* heartbeats never attest more than that many seconds (engine.rs
\* countable_seconds_in).
Windows == backs + 1
HeartbeatsAttest ==
  earned * IMPRESSION_SECONDS <= beats * (Windows * (GATE_WINDOW \div SECOND + 1))

\* A Stop that finds no interval open earns nothing, however the interval was
\* closed (engine.rs on_stop after reset_interval).
LateStopEarnsNothing == session.phase = "Idle" => StopImpressions(session, now) = 0

\* A prompt opens one interval and an interval is paid once, up to the cap:
\* dropped, late and repeated Stops never pay an interval twice (engine.rs
\* on_prompt_submit, on_stop, MAX_IMPRESSIONS_PER_INTERVAL).
CappedPerPrompt == earned <= MAX_IMPRESSIONS_PER_INTERVAL * prompts
=============================================================================
