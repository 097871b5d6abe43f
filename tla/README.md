# spnr in TLA+

TLA+ models of spnr (a sponsored-spinner service for a command-line host): a
local daemon measures how long the user waits, signs what it measured, and a
backend keeps the money. The modules are translated from the source; paths
below are relative to the repository (`src/`).

## 1. The system

| part | source | state | operations |
|---|---|---|---|
| impression engine | `crates/spnrd/src/engine.rs` | per session: phase, open sub-span, counted seconds, heartbeats, pause and tty switches | prompt, pre-tool, post-tool, stop, heartbeat, set_paused |
| daemon | `crates/spnrd/src/main.rs` | session map, pause switch, key, counter, chain head, impressions total, rotation index, outbound channel | `handle`, `emit_impressions`, `register`, `flush_loop`, `write_status_cache`, `serve_creatives` |
| event queue | `crates/spnrd/src/queue.rs`, reader in `crates/spnr-cli` | `queue.log` | `append`, `read_all`, `spnr audit` |
| protocol | `crates/spnr-proto` | none (pure) | canonical bytes, chain, signatures, socket datagrams |
| hook, status line | `crates/spnr-hook`, `crates/spnr-status` | none | skim JSON, send one datagram without blocking |
| command line | `crates/spnr-cli` | settings, symlink, daemon home | pause, resume, status, audit, install, uninstall |
| settings injection | `crates/spnr-settings`, `crates/spnr-adapters` | `settings.json`, backup | snapshot, inject, restore, hooks |
| backend | `server/spnr-server/src/main.rs`, `db.rs` | AppState behind one mutex, SQLite tables | register, ingest, redeem, serve, click, stats, admin, signup/login/logout |
| advertiser portal | `server-ts/src` | campaigns in memory and in a JSON file | create, creative, approve, auction |
| web client | `web/src` | token, user | `useAuth` |
| metadata inspector, installers, pages | `crates/spnr-meta`, `install/`, `server-ts/src/admin.ts` | none | pure or presentation |

How they interact. The host runs a hook binary for each turn and a status-line
binary about once a second; both send one datagram to the daemon's Unix socket
and ignore the outcome. The daemon stamps each datagram with its own wall clock
when it receives it and passes it to the session's engine. A `Stop` that earned
something becomes a signed, hash-chained event, is appended to `queue.log` and
put on an unbounded channel; `flush_loop` posts what the channel holds, one
blocking request at a time, without looking at the answers. The backend checks
signature, chain, counter and id, adds two ledger rows, and writes its view
through to SQLite statement by statement while it holds the mutex.

What is hard, and what makes each part correct:

* **Engine.** Hooks are lost, late and out of order; the clock is the wall
  clock; seconds are partial. Correct: nobody is paid for time that was not
  waited, or that no heartbeat attests, or twice.
* **Daemon.** Sessions come and go while the pause switch changes, and a restart
  forgets everything but makes a new key. Correct: the switch reaches every
  session, one key signs one chain, sessions do not attest each other.
* **Queue.** Short writes, errors nobody looks at, crashes and power loss, and a
  reader beside the writer. Correct: what was synced is read back and nothing
  half-written is.
* **Path to the backend.** Two independent tasks, requests lost or late, runs of
  the daemon overlapping on the network. Correct: credit is an in-order prefix
  of what was made, and complete if nothing is lost.
* **Backend.** Re-registration, forks, replays and restarts; many autocommitted
  statements per request. Correct: an event is credited at most once, balances
  are what the ledger adds up to and never negative, view and tables agree.
* **Settings.** Programs of spnr, the host and the user read, change and replace
  one file without a lock, and may die half way. Correct: what is not spnr's
  stays, and a restore returns the host to stock.
* **Creative pool.** A table and its copy in memory, across failed statements,
  crashes and restarts. Correct: they agree, what is taken down stays down, the
  order survives, every ad gets its turn.
* **Accounts.** Answers come late and in any order, and a page load forgets what
  was asked. Correct: what the tab shows belongs to the token it holds.
* **Messages.** Hand-written scanners and a hand-written codec. Correct: the
  right member is read and what arrives is what was sent.

`PROJECT.json` lists every hazard with its line.

## 2. Modules

| module | models | state and actions against the code |
|---|---|---|
| `ImpressionEngine` | `engine.rs` | pure operators, one per method of `Session`, on a record with its fields; times in units of `SECOND` to the second |
| `ImpressionEngineProofs` | lemmas about it, and lemmas about sequences and recursion that other proofs share | section 5 |
| `SessionWait` | one session end to end | the host, the socket buffer (`wire`), the daemon's clock and its `Session`; `Receive` is `handle`; histories `waited`, `prompts` and `beats` record what really happened |
| `SessionWaitProofs` | theorems about it and about `Wire` | section 5 |
| `SignedChain` | `spnr-proto` and the checks of `accept_event` | the event record, `Verdict` (the checks in their order), `Advanced` |
| `Daemon` | `Daemon::handle`, `emit_impressions`, `new` | session map as a function whose domain is the known ids; one action per hook, per heartbeat, per command; `Crash`, `Restart` |
| `DaemonProofs` | theorems about it and about `QueueLog` | section 5 |
| `QueueLog` | `queue.rs` | the file as bytes, what of it is durable, the append in progress; its specification is `QueueSpec` |
| `LedgerServer` | register, ingest, accept_event, redeem, `db.rs` | `mem` is AppState, `disk` the tables, `op`/`step` the statement the handler holding the mutex runs next, `batch` the rest of its request; `Book` maps it to `CreditBook` |
| `LedgerServerProofs` | theorems about it | section 5 |
| `CreditBook` | abstract: what the backend promises about money | `Credit`, `Pay` |
| `Pipeline` | `emit_impressions`, channel, `flush_loop`, `post_ingest`, network, server | `call` is the request a blocking call waits for, `wire` what is on its way |
| `PipelineProofs` | theorems about it | section 5 |
| `AttestedCredit` | abstract: what the path promises about each device | `Make`, `Credit` |
| `SettingsFile` | `spnr-settings`, `spnr-adapters`, `do_install`, `do_uninstall`, pause, the daemon's start | `settings` and `backup` are the files; `proc` says which call of its program a process is in and what it has read; one action per step between two system calls; `mine` is the file as it would be without spnr |
| `SettingsFileProofs` | theorems about it | section 5 |
| `CreativePool` | admin create and delete, serve, click, `open`, `load_creatives`; `serve_creatives` and `featured_ad` | `pool` is `AppState.creatives`, `rows` the table; a handler is one step, with variants in which its statement fails or the process dies after it; `ads` and `featured` are the daemon's |
| `CreativePoolProofs` | theorems about it | section 5 |
| `Accounts` | signup, login, me, logout; `useAuth.ts` | tables, `localStorage` and React state of one tab, `calls` not yet returned; `Effect` is the effect on `token` |
| `AccountsProofs` | theorems about it | section 5 |
| `Wire` | `skim_string`, `skim_session`, `value_for_key`, `parse_timings`, `SocketMsg::encode` and `decode`, the receive buffer | operators on tokens and bytes; one action per program that sends, and `RecvFrom`; its specification is `WireSpec` |
| `MCDaemon`, `MCLedger`, `MCQueue`, `MCSettings`, `MCCreatives`, `MCWire` | the instances for TLC | the small sets |

`Daemon` and `SessionWait` compose `ImpressionEngine`; `Daemon`, `LedgerServer`
and `Pipeline` share `SignedChain`, so the chain the daemon builds and the one
the server checks are one definition. Operators named `Bug_...` are broken
variants of the definition that follows them; they are used by no specification
and serve to show that each property can fail.

What is abstracted: signatures hold under the signing key and no other; digests
differ for different events; `heartbeats` is a set, because the code's vector is
only searched for its latest member at or before a tick; an account with no
balances row has balance 0; the event's time, session fingerprint and creative
are left out, because nothing modelled reads them. Requests that change nothing
(a malformed key, an empty batch, a refused redeem) are stutters.

## 3. Runs

| run | asks | result |
|---|---|---|
| `session_timely` | with datagrams handled before time passes and a clock that may step back, is every impression backed by time really waited, and does a Stop with no open interval earn nothing? | holds |
| `session_best_effort` | with hooks dropped, datagrams waiting in the buffer and the clock stepped back, how much can one session earn? at most a gate window of seconds per heartbeat, one more for each step back, and the cap per prompt | holds |
| `daemon` | pause switch, chain per key and attribution of heartbeats over any order of messages of two sessions, a restart and a clock stepped back | holds |
| `ledger` | with restarts between requests, does each device hold what its events earned less what was redeemed from it, do balances match the ledger, tables match the view, tallies match the ids, and does it all implement `CreditBook`? | holds |
| `ledger_crash` | what survives a crash between any two statements: no event paid twice, no balance below zero, both ledger rows of an event sum to the spend | holds |
| `ledger_taken` | db.rs:3-6: a restart never loses data | violated: the id is committed before the money |
| `pipeline` | is credit always an in-order prefix (`AttestedCredit`), are honest events refused only after a loss, is everything credited if nothing is lost? | holds |
| `queue` | is what was synced read back in order, and never half a record? | holds |
| `settings` | is anything of the user's lost outside the windows and cases named, is a hook wired once, is the backup pristine, is the host stock after a restore? | holds |
| `creatives` | do pool and table agree, does a deleted ad stay away, does a restart keep the order of ads not created by a clock that lagged, does the stored click count catch up, is each ad shown as often as any other? | holds |
| `accounts` | does a settled tab show the account of its token, with a session that lives, and does loading end? | holds |
| `wire` | do the scanners find what a parser would, does a datagram arrive whole or not at all, do hook and status line name the same session? | holds |

Bounds, and why they are enough. `session_timely` uses two clock units to the
second, so partial seconds and heartbeats off the tick occur; 8 times, 4 host
moves and 3 heartbeats allow a turn with a tool in the middle, a repeated Stop
and a prompt inside a turn. `session_best_effort` has a buffer of one, so that a
hook meets a full one, and 4 moves so that two prompts can share a Stop. The
daemon run uses one unit per second and two interchangeable sessions; one
restart is enough to meet a second key. The clock may be stepped back twice in
`session_timely` and once in `session_best_effort` and `daemon` (`MaxBacks`), to
any earlier time; without the extra window for it `HeartbeatsAttest` fails
within these bounds. `ledger` has two devices, one key's chain with a fork and a
second key, five requests, enough to register, credit, redeem twice and register
again; `ledger_crash` takes four, as every step splits in up to seven. One
device of each calls itself `house` or `payout`, since `register` takes any
name. `PRICE_PER_IMP_MICROS = 3` makes the 50 % share round. `pipeline` needs
three events (one in flight, one in the channel, one to follow) and two runs.
`queue` has length prefixes of two digits, a payload that looks like a frame of
its own, and four appends: two before and two after the damage. `settings` has
two processes, three programs and two edits, so that an install, a start and the
command that undoes them overlap in every way with an edit in between; two
builds, because a second install directory has another hook command; one hook
event, as the code treats its three alike. `creatives` has two house ads and two
more ids, before and after them in the order; a clock of two seconds that may go
back; two restarts, two clicks, four writes of the cache. `accounts` has two
emails and four things the user does: two sign-ins and a logout that overlap,
and a page load. `wire` has documents of up to three members in any order, each
a string, a number or an object; strings at and beyond the longest a datagram
can carry, cut between and inside characters; all stray datagrams of up to four
bytes, also with more after them than the buffer holds. Bytes have six values
and a length one digit of that base, while the buffer is as long as a length has
values, as in the code (`64 * 1024` against two bytes).

Runs with `CHECK_DEADLOCK FALSE` stop at their bounds.

Fairness is stated where a liveness property needs it. In `Accounts`:
`WF(Effect)` because React runs a due effect, and weak fairness of every call
that the tab waits for, because the browser ends each one, if only with a
network error (`CallGoesOn`). In `Pipeline`:
`WF(Flush)` because `flush_loop` is a task of its own that is woken whenever the
channel holds something; `WF(Return)` because a blocking call ends once its
request was answered or lost with its connection (the client sets no read
timeout, so of a server that keeps the connection and never answers nothing is
claimed); `WF(HandleAny)` because the server handles what reaches it.
Nothing says that the daemon emits, starts again or stays up.

## 4. Findings and other disagreements

The run `ledger_taken` ends in a violation and is a finding, in `PROJECT.json`
with the line it contradicts. Met while modelling and not kept as runs, each
first the part it is in:

*Engine, daemon, queue, path to the backend*

* engine.rs:5-7: a waiting second counts only if the session is "not paused" in
  it; the switch is read when the sub-span closes (engine.rs:114), so pause,
  wait, resume, Stop pays paused seconds.
* docs/04-impression-engine.md:168: "at any tick, at most one session's `WAITING`
  second is countable"; `handle` counts sessions independently.
* docs/03-protocol-SAP1.md:347: "flush backlog oldest-first"; `flush_loop` drops a
  batch whatever became of it, and all later events of that key are refused.
* queue.rs:4-6: a crash "loses at most the in-flight record"; a record appended
  behind a frame cut short is confirmed and cannot be read.
* docs/04-impression-engine.md:24 counts impressions over contiguous waiting;
  the engine adds the sub-spans of an interval up.
* docs/04-impression-engine.md:33, 178-189 close an interval by timeout when its
  Stop is lost; nothing in the engine does.
* docs/04-impression-engine.md:197-203 protect against clock steps; `now_ms` is
  the wall clock. A step forward inside an interval adds time that only the
  heartbeats bound; after a step back the heartbeats an interval holds attest
  the same stamps again, so what n of them permit grows by n windows with each
  step (`Windows`).
* engine.rs:88-101: of tools that run in parallel the second `PreToolUse` is
  ignored and the first `PostToolUse` reopens the interval, so the rest of the
  other tool counts as waiting. The host of `SessionWait` runs one tool at a time.
* docs/03-protocol-SAP1.md:104 speaks of re-registration with another key; the
  server replaces the record without asking.
* db.rs:218 promises that a redemption id is never used again; a crash between
  the ledger row and the redemption row makes it happen.
* `log_err` (db.rs:668) drops a failed statement, after which tables and view
  differ.
* A crash inside redeem after the ledger row leaves the old balance, which can be
  paid again. `redeem` pays from the largest balance, whoever asks.
* `register` (main.rs:574) makes `acct:<device_id>` of any name, so a device may
  share the backend's own `acct:house` or `acct:payout`. Its balance is still its
  own earnings less what was redeemed from it, but no longer what the ledger says
  of that account (`Owed` and `Net` in `BalanceMatchesLedger`).

*Settings*

* lib.rs:141-144: "we never overwrite the original snapshot with an
  already-sponsored file"; `snapshot` looks, reads and writes in three steps, so
  two programs that overlap can (`overlapped` in `BackupIsPristine`).
* lib.rs:311-313: "a user's own hooks [...] are never touched"; a group of
  spnr's that the user put a hook into is removed whole (`lossy`).
* lib.rs:161-163: the daemon "does not clobber a user's existing custom
  statusLine"; spnrd main.rs:386 always passes one. Without a backup, restore
  strips the user's own as well.
* Uninstall ignores a failed restore and deletes the backup. Pause puts back the
  whole snapshot, hooks included, and later edits are lost; resume brings nothing
  back; a daemon start injects after a pause.

*Creative pool*

* db.rs `load_creatives` promises a stable rotation; ads of one second are put in
  order of their random ids, and may change places at a restart. So does an ad
  created while the clock was behind an earlier reading: at the next start it
  moves before ads older than it (`early` in `RestartKeepsRotation`).
* "Unknown codes fall back to the primary" (`click`); they lead to the seeded
  ad's page, while the primary of `serve` is `pool[0]`. A daemon shows a deleted
  ad until it starts again.
* All sessions turn one rotation index, so one of two sessions may keep meeting
  the same ad while the index is even-handed (`ShownEvenly`).

*Accounts*

* A failed `/me`, a network error included, drops a valid token; the comment
  speaks of a stale one. The late answer of an older call can sign the tab in
  again after a logout, or out of a newer login.
* Sessions never expire, and those whose answer was lost remain.

*Messages*

* spnr-hook main.rs:13-15: a prompt "cannot be forwarded even in principle"; a
  string member `session_id` of a nested object that is written first is
  forwarded (`FirstEntry` in `SkimIsLookup`).
* spnr-status promises the "same key-position discipline as spnr-hook", but keeps
  escapes, and sends an empty id (`SameSession`).
* socket.rs:64-67: a string too long is truncated; the datagram then no longer
  fits the daemon's buffer and is never read (`ReadAsSent`).
* socket.rs:135-136: "Trailing bytes after a well-formed message are rejected"; beyond the buffer they
  are cut off by `recv_from` and not seen.

## 5. Proofs

Every theorem holds for all values of the constants that the named assumptions
of its module allow, hence for any number of processes, messages, events and
steps: the bounds of section 3 are in the guards, and no theorem depends on their
size. Each invariant below was checked by TLC on the instance of its run before it
was proved. `PROJECT.json` lists the theorems with the property each states.

| module | proves | assumes of the constants |
|---|---|---|
| `SessionWaitProofs` (on `ImpressionEngineProofs`) | `TypeOK`, `EarnedByWaiting` and `LateStopEarnsNothing` under `SteppedBackSpec`; `TypeOK`, `HeartbeatsAttest` and `CappedPerPrompt` under `BestEffortSpec`; `SkimIsLookup`, `ReadAsSent` and `SameSession` under `WireSpec` | natural numbers; `SECOND` and `IMPRESSION_SECONDS` positive; `WireAssumption`: a base above 5, as bytes 0 to 5 are used, and strings of the four kinds of characters; `NothingAssumption`: None is no message, token or string |
| `DaemonProofs` | under `Spec`: `TypeOK`, `PauseReachesEverySession`, `OneChainPerKey`, `OwnHeartbeatsAttest`; under `QueueSpec`: `QueueTypeOK`, `EarlierRecordsSurvive`, `OnlyWholeRecords` | at least one run; a length prefix of at least one byte, payloads of bytes |
| `LedgerServerProofs` | under `CrashSpec`: `TypeOK`, `CreditedOnce`, `BalancesNonNegative`, `SpendSplit`; under `Spec` also `BalanceMatchesLedger`, `ViewMatchesDisk`, `TalliesMatch`, `RedemptionIdsUnique` and the refinement `ImplementsBook` | a share between 0 and 1; nothing of the names devices register under |
| `PipelineProofs` | `TypeOK`, `NoHonestEventRefused` and the refinement `CreditsInOrder` | at least one run |
| `AccountsProofs` | `SettledTabIsConsistent`, `ShownSessionIsLive` | `None` is neither an email nor a token |
| `CreativePoolProofs` | `PoolMatchesTable`, `TakenDownStaysDown`, `ClickCountHeals`, `ShownEvenly`, and the action property `RestartKeepsRotation` | ids are numbers; there are house ads, seeded in the order of their ids |
| `SettingsFileProofs` | `EditsLostOnlyInWindows`, `WiredOnce`, `BackupIsPristine`, `RestoreReturnsStock` | the user is not a build; a missing file is not a file |

The arguments, and why the properties alone do not carry themselves:

**Waiting is what is paid** (`SessionWait`). `EarnedByWaiting` says nothing about
seconds the engine has counted but not yet paid. `IInv` adds that the session's
fields fit its phase, that engine and host agree on what is going on whenever
the buffer is empty, with the one hook under way accounted for otherwise, and
that what was paid, plus what is counted, plus the part of the open sub-span up
to now is at most `waited`. The lemmas in `ImpressionEngineProofs` bound the
seconds of a sub-span by its length (`CountableSecondsIn`) and say what each engine operation
does to the fields.

**Heartbeats attest** (`SessionWait`, `Daemon`). With late and dropped hooks
`IInv` fails. `LateInv` counts what may still be spent: heartbeats held by the
interval plus those in the buffer, intervals open plus prompts in the buffer.
`GateInv` says why a heartbeat attests no more than a window: counted
seconds are ticks at least a second apart (`Attests`), each within the gate of a
heartbeat the interval holds, and a window has room for that many (`SpacedFew`).
A step back starts this afresh: what was counted before it is only known to be
within what the heartbeats permitted so far (`before`), the ticks after it are
spaced among themselves, and a heartbeat permits one window more (`Permits`,
`GateBack`). The balance of what is earned and still to be spent survives the
larger factor on both sides because what is unspent was at most what was sent
(`WorthMore`).
`Daemon` carries the same balance for each session (`Balanced`), across
sessions that end, a crash, a restart and a clock stepped back.

**The switch and the chain** (`Daemon`). `PauseReachesEverySession` is not
inductive, because a restart clears the switch and touches no session;
`SwitchInv` adds that a daemon that is down knows no session. `OneChainPerKey`
compares an event with the last earlier one of its key. `ChainInv` makes this
local: each event continues the one before it or has a key above all
earlier ones (`Linked`), and the daemon's counter and head continue the last
event when that is its own, and are fresh otherwise (`HeadFollows`). It needs
that a restart's key is above every key that has signed, which is what the
mutant `Bug_SameKey` takes away.

**Money across crashes** (`LedgerServer`). `CreditedOnce` says nothing about the
ids that protect it, and a crash throws away the view they are looked up in.
`IInv` adds `DedupGuards`: what a row pays for is among the seen ids, of
the view and of the tables alike; the ids on disk are among those of the view;
and while an accept is written through, its position says what is on disk
already. With those, each statement keeps the property whether or not the next
one is reached. The proof needs the order of `AcceptStatements`.

**View and tables without crashes** (`LedgerServer`). `ViewMatchesDisk` speaks of
moments when the mutex is free. `Lag` says for every table and every position in a
statement list by how much the table is behind the view, so that each statement
closes exactly its own gap. With `CounterLoads` (the redemption counter is what
a start would load) it gives `CleanInv`, in which a restart changes nothing.
`SumsInv` relates balances and paid amounts to the sums over the ledger; on top
of it each step of the handlers is a credit or a payment of `CreditBook`, or a
stutter.

**Credit in order** (`Pipeline`). What a run makes is determined by how many
events it made (`Chain`); the server's record of a device by how many it has
credited (`ServerState`); a request carries a stretch of its run's chain
(`IsRequest`). `ServerInv` is then about numbers, and a batch is credited exactly
from the first event it continues with, whatever is lost, late or overtaken:
`HandledBatch` gives the state after a batch in closed form. For
`NoHonestEventRefused`, `InOrder` adds that while nothing is lost the one request
under way and the channel hold the events after the credited ones, with no gap.

**Accounts.** `TabInv` ties the tab's state to the stored token and every `me`
under way to it unless the effect is due; `NewTokenInv` says that a token on its
way to the tab is in nobody else's request, so its session is alive when it is stored;
`LiveInv` that only a logout can end the session that was answered for.

**Creative pool.** `Memory` adds the order of the pool, that the table is
never empty (so the house ads are seeded once) and that a deleted ad keeps its
inactive row. A restart sorts (`ActivePoolIs`): the result is the same ads in the
order of their creation seconds. For ads created with the clock at its highest
reading so far (`top`) that is the order they were in; `early` holds the others
until a restart has sorted them. `Turns` splits the rotation index into rounds: `r` ads were
shown once more than the rest; it needs distinct ads and a list that is never
empty, which `Memory` gives.

**Settings.** A program writes back what it read some time ago, so the invariant
is about copies: `CopyOf` says what a file read or backed up when `n` edits had been
made still has in common with the user's file. A copy older than the last edit
promises nothing, and the edit that made it old was lossy if somebody was to
write that copy back (`Window`). For one program at a time, `QuietInv` follows
each call from step to step: who is about to inject has a backup behind it, what
is about to be written back by the others is not sponsored, and without a backup
the file is not sponsored either. `RetainNext` and `RetainAll` say
what `retain` leaves of a list of hooks.

**Queue file** (`QueueLog`). `EarlierRecordsSurvive` compares two lists and says
nothing about bytes, so by itself it is kept by no step. `QueueInv` says where the
records are: the frames of the synced ones stand one behind the other at the
front of the durable bytes, those of the whole ones at the front of the file
(`Begins`), and until a frame is cut short nothing follows them but the written
part of the last frame (`Partly`). A crash or a power cut then takes bytes
only from behind the durable ones. From `Begins` to what a reader finds,
`FramesRead` goes along the frames: at the start of each, the scan yields its
record and continues where it ends, which needs that a length prefix is read
back as it was written (`FoldLeft` over the bytes, unrolled in `FromBytesSteps`).
For `OnlyWholeRecords` the part of a frame at the end must yield nothing
(`PartRead`): a header that is complete states a length beyond the end.

**What a scanner finds** (`Wire`). A scanner knows tokens, a parser members.
The tokens of a document are one piece per member, with the comma or brace
behind it, and each piece is one of two shapes, flat or nested. Of two parts
joined, a scanner finds what it finds in the first, or else in the second
(`SkimJoin`), because a part ends where a key may follow (`Open`) and the last
token of a piece is never a key; the look-up of entries does the same (`LookJoin`).
On one piece both agree (`FlatScan`, `FlatLook`, `DeepScan`, `DeepLook`), hence on
all of them (`DocumentScan`), for any number of members and also for
repeated names, although the documents of `Wire` have at most three members.

**Datagrams** (`Wire`). The lemmas on `encode` give a datagram byte by byte, those
on `take_str` what must stand there for a string to be returned. If an
encoding fits the buffer, `decode` finds its strings again (`HookRead`,
`BeatRead`). If it does not, the buffer holds its front, in which a length points
beyond the end, and nothing is returned (`HookCut`, `BeatCut`). Conversely the
message that `decode` returns determines every byte it was read from
(`HookWritten`, `BeatWritten`), which is what the test in `Framed` is for.
`ReadAsSent` compares `sent` and `got` when the datagram is gone; `WireInv`
adds that what was received is what the buffer kept of a datagram, that this is the
encoding of what one of spnr's programs sent, if one did, and that every string
sent is whole UTF-8, without which `take_str` would refuse it.
`SameSession` needs of two byte strings built character by character that they
are equal only if each character is written alike: `Raw` keeps a
backslash, which `Unescaped` never writes, and without one a wide character
makes `Unescaped` longer (`WrittenAlike`).

What recursive definitions compute for every input (`Net`, `Redeemed`, the batch the
server ingests, `OtherGroups`, the scan of the queue, `FlattenSeq` and `FoldLeft`
of the community modules) is proved about recursive functions, by a least
counterexample (`LeastOf`) or an induction over the set of the numbers at which
the claim holds (`UpTo`, `Iterates`), since the induction theorems
of the library take an operator as a parameter. That they exist is
proved in the same way (`Recursion`). Lists the code sorts are a
choice of the sorted list, so that their properties are proved from it.

Every invariant, action property and refinement of a passing run is stated by a
theorem. Only model-checked are `EveryEventCredited` and `LoadingEnds`: liveness
under fairness is out of the prover's reach.

## 6. Plan

Done, in this order: `ImpressionEngine`, `SessionWait`, its proofs,
`SignedChain`, `Daemon`, `LedgerServer` with `CreditBook`, `Pipeline` with
`AttestedCredit`, `QueueLog`, `LedgerServerProofs`, `SettingsFile`,
`CreativePool`, `Accounts`, `Wire`, `DaemonProofs`, `PipelineProofs`,
`AccountsProofs`, `CreativePoolProofs`, `SettingsFileProofs`, the refinements,
the theorems about `QueueLog` and `Wire`.

Next: the metadata of devices in `LedgerServer`; the text and
the reader of `status.cache`; the file that stores the campaigns of the portal.

## 7. Not modelled

* The advertiser portal (`server-ts`): a prototype of campaigns and an auction
  over one JSON file that no other part calls. Its handlers are synchronous.
* The admin page, the installers and the web pages other than `useAuth`:
  presentation and copying of files.
* Of the backend: stats, balance and dashboard, which only read, and the device
  metadata that `register` stores for the admin page. Password hashing.
* Of the command line: the symlinks of install; of the status line: the text it
  prints and the reader of `status.cache`.
