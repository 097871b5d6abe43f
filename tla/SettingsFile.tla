----------------------------- MODULE SettingsFile -----------------------------
(***************************************************************************)
(* The host's settings.json and spnr's backup of it (crates/spnr-settings, *)
(* crates/spnr-adapters, the commands of crates/spnr-cli and the start of  *)
(* crates/spnrd), beside a user and a host that edit the same file.        *)
(*                                                                         *)
(* Nobody locks the file: every call reads it, and later replaces it by an *)
(* atomic rename.  A program is a sequence of calls, a call a sequence of  *)
(* steps, and any program may fail or be killed at any step.               *)
(*                                                                         *)
(* `mine` is a history: the file as it would be had spnr never written it. *)
(***************************************************************************)
EXTENDS Integers, Sequences, FiniteSets

CONSTANTS
  Procs,       \* processes that may run a program of spnr
  Builds,      \* directories spnr is installed from: each has its own hook command
  HookEvents,  \* SPNR_HOOK_EVENTS
  Missing,     \* the file is not there
  MaxRuns,     \* bound: programs started
  MaxEdits     \* bound: edits by the user or the host

(* What settings.json and the backup may hold.  `own` stands for every key  *)
(* spnr does not know, by the number of the edit that wrote it last;        *)
(* statusLine may also be the "user"'s; a hook group is the set of its      *)
(* commands.                                                                *)
Group == (SUBSET (Builds \cup {"user"})) \ {{}}
File == [parses : BOOLEAN, own : Nat, spinnerVerbs : {"none", "ours"},
         statusLine : {"none", "user", "ours"}, hooks : [HookEvents -> Seq(Group)]]

ASSUME SettingsAssumption ==
  /\ MaxRuns \in Nat /\ MaxEdits \in Nat
  /\ "user" \notin Builds /\ Missing \notin File

VARIABLES
  settings,    \* settings.json
  backup,      \* backup.json
  home,        \* spnr's home directory exists
  proc,        \* what each process is running
  mine,        \* history: settings.json without spnr
  runs, edits, \* programs started, edits made
  overlapped,  \* history: two programs ran at once, or a restore failed
  lossy,       \* history: an edit met a window in which it may be lost
  restored     \* history: a restore succeeded and nothing was started to sponsor since

vars == <<settings, backup, home, proc, mine, runs, edits, overlapped, lossy, restored>>

EmptyObject == [parses |-> TRUE, own |-> 0, spinnerVerbs |-> "none",
                statusLine |-> "none", hooks |-> [e \in HookEvents |-> <<>>]]

\* read_object: a missing file reads as {}, one that does not parse is refused.
Readable(file) == file = Missing \/ file.parses
ReadObject(file) == IF file = Missing THEN EmptyObject ELSE file

HasExactCommand(group, build) == build \in group
IsSpnrHook(group) == group \cap Builds # {}

Bug_InjectDropsHooks(file) ==
  [EmptyObject EXCEPT !.own = file.own, !.spinnerVerbs = "ours", !.statusLine = "ours"]
Injected(file) == [file EXCEPT !.spinnerVerbs = "ours", !.statusLine = "ours"]
Bug_AppendAgain(file, build) ==
  [file EXCEPT !.hooks = [e \in HookEvents |-> Append(@[e], {build})]]
WithHooks(file, build) ==
  [file EXCEPT !.hooks = [e \in HookEvents |->
     IF \E i \in DOMAIN @[e] : HasExactCommand(@[e][i], build) THEN @[e]
     ELSE Append(@[e], {build})]]
\* retain: the groups that are not spnr's, in the order they are in.
OtherGroups(groups) ==
  LET kept[n \in 0..Len(groups)] ==
        IF n = 0 THEN <<>>
        ELSE IF IsSpnrHook(groups[n]) THEN kept[n - 1] ELSE Append(kept[n - 1], groups[n])
  IN  kept[Len(groups)]
WithoutHooks(file) ==
  [file EXCEPT !.hooks = [e \in HookEvents |-> OtherGroups(@[e])]]
Stripped(file) == [file EXCEPT !.spinnerVerbs = "none", !.statusLine = "none"]

-----------------------------------------------------------------------------
(* Programs: the calls each one makes, and whether it goes on after a call  *)
(* that failed.                                                             *)
Bug_HooksBeforeSnapshot ==
  [Install     |-> <<"make_home", "inject_hooks", "snapshot">>,
   DaemonStart |-> <<"make_home", "snapshot", "inject">>,
   Pause       |-> <<"restore">>,
   Uninstall   |-> <<"restore", "remove_hooks", "remove_home">>]
Programs ==
  [Install     |-> <<"make_home", "snapshot", "inject_hooks">>,
   DaemonStart |-> <<"make_home", "snapshot", "inject">>,
   Pause       |-> <<"restore">>,
   Uninstall   |-> <<"restore", "remove_hooks", "remove_home">>]
IgnoresErrors == {"Pause", "Uninstall"}
Sponsors == {"Install", "DaemonStart"}

Idle == [program |-> "none", build |-> "none", calls |-> <<>>, at |-> "begin", buf |-> Missing]
Running(p) == proc[p].calls # <<>>
At(p, call, step) == Running(p) /\ Head(proc[p].calls) = call /\ proc[p].at = step

\* Where a process goes: to the next step of its call, or past the call.
Goto(p, step, buf) == proc' = [proc EXCEPT ![p].at = step, ![p].buf = buf]
PastCall(s) ==
  IF Len(s.calls) = 1 THEN Idle ELSE [s EXCEPT !.calls = Tail(@), !.at = "begin", !.buf = Missing]
Returns(p) == proc' = [proc EXCEPT ![p] = PastCall(@)]
Errs(p) ==
  proc' = [proc EXCEPT ![p] = IF @.program \in IgnoresErrors THEN PastCall(@) ELSE Idle]

\* A process holds a copy of the file that it will write back.
WindowOpen ==
  \E p \in Procs : \/ At(p, "inject", "write") \/ At(p, "inject_hooks", "write")
                   \/ At(p, "restore", "strip") \/ At(p, "remove_hooks", "write")

Init ==
  /\ settings \in {Missing, EmptyObject, [EmptyObject EXCEPT !.statusLine = "user"]}
  /\ backup = Missing /\ home = FALSE
  /\ proc = [p \in Procs |-> Idle]
  /\ mine = settings
  /\ runs = 0 /\ edits = 0
  /\ overlapped = FALSE /\ lossy = FALSE /\ restored = FALSE

Start(p, program, build) ==
  /\ runs < MaxRuns /\ ~Running(p)
  /\ proc' = [proc EXCEPT ![p] = [Idle EXCEPT !.program = program, !.build = build,
                                              !.calls = Programs[program]]]
  /\ runs' = runs + 1
  /\ overlapped' = (overlapped \/ \E q \in Procs : Running(q))
  /\ restored' = (restored /\ program \notin Sponsors)
  /\ UNCHANGED <<settings, backup, home, mine, edits, lossy>>

MakeHome(p) ==
  /\ At(p, "make_home", "begin")
  /\ home' = TRUE /\ Returns(p)
  /\ UNCHANGED <<settings, backup, mine, runs, edits, overlapped, lossy, restored>>

(* snapshot: the first backup is kept. *)
Files == <<settings, backup, home>>
History == <<mine, runs, edits, overlapped, lossy, restored>>

Bug_KeepNoBackup(p) == Goto(p, "read", Missing)
SnapshotChecked(p) == IF backup # Missing THEN Returns(p) ELSE Goto(p, "read", Missing)
SnapshotExists(p) ==
  /\ At(p, "snapshot", "begin")
  /\ SnapshotChecked(p)
  /\ UNCHANGED <<Files, History>>
SnapshotRead(p) ==
  /\ At(p, "snapshot", "read")
  /\ IF Readable(settings) THEN Goto(p, "write", ReadObject(settings)) ELSE Errs(p)
  /\ UNCHANGED <<Files, History>>
SnapshotWrite(p) ==
  /\ At(p, "snapshot", "write")
  /\ IF home THEN backup' = proc[p].buf /\ Returns(p) ELSE UNCHANGED backup /\ Errs(p)
  /\ UNCHANGED <<settings, home, History>>

(* inject and inject_hooks: read, change, replace. *)
ReadBack(p, call) ==
  /\ At(p, call, "begin")
  /\ IF Readable(settings) THEN Goto(p, "write", ReadObject(settings)) ELSE Errs(p)
  /\ UNCHANGED <<Files, History>>
InjectWrite(p) ==
  /\ At(p, "inject", "write")
  /\ settings' = Injected(proc[p].buf) /\ Returns(p)
  /\ UNCHANGED <<backup, home, History>>
InjectHooksWrite(p) ==
  /\ At(p, "inject_hooks", "write")
  /\ settings' = WithHooks(proc[p].buf, proc[p].build) /\ Returns(p)
  /\ UNCHANGED <<backup, home, History>>

(* restore: the backup verbatim or, without one, the known keys stripped. *)
RestoreBackup(p) ==
  /\ At(p, "restore", "begin")
  /\ Goto(p, IF backup # Missing THEN "write" ELSE "read", backup)
  /\ UNCHANGED <<Files, History>>
RestoreWrite(p) ==
  /\ At(p, "restore", "write")
  /\ settings' = proc[p].buf /\ Returns(p)
  /\ restored' = TRUE
  /\ lossy' = (lossy \/ proc[p].buf.own # edits)
  /\ UNCHANGED <<backup, home, mine, runs, edits, overlapped>>
HasOwnedKey(file) == file.spinnerVerbs # "none" \/ file.statusLine # "none"
RestoreRead(p) ==
  /\ At(p, "restore", "read")
  /\ LET strips == Readable(settings) /\ HasOwnedKey(ReadObject(settings))
     IN  /\ IF strips THEN Goto(p, "strip", settings) ELSE Errs(p)
         /\ restored' = (restored \/ (Readable(settings) /\ ~strips))
  /\ UNCHANGED <<Files, mine, runs, edits, overlapped, lossy>>
RestoreStrip(p) ==
  /\ At(p, "restore", "strip")
  /\ settings' = Stripped(proc[p].buf) /\ Errs(p)
  /\ restored' = TRUE
  /\ lossy' = (lossy \/ proc[p].buf.statusLine = "user")
  /\ UNCHANGED <<backup, home, mine, runs, edits, overlapped>>

(* remove_hooks: nothing is written when the file has no hooks object.  One *)
(* may be there without spnr's arrays, for events spnr does not know; then  *)
(* the file is written back all the same.                                   *)
NoArrays(file) == \A e \in HookEvents : file.hooks[e] = <<>>
RemoveHooksRead(p) ==
  /\ At(p, "remove_hooks", "begin")
  /\ IF ~Readable(settings) THEN Errs(p)
     ELSE \/ NoArrays(ReadObject(settings)) /\ Returns(p)
          \/ settings # Missing /\ Goto(p, "write", settings)
  /\ UNCHANGED <<Files, History>>
RemoveHooksWrite(p) ==
  /\ At(p, "remove_hooks", "write")
  /\ settings' = WithoutHooks(proc[p].buf) /\ Returns(p)
  /\ UNCHANGED <<backup, home, History>>

RemoveHome(p) ==
  /\ At(p, "remove_home", "begin")
  /\ home' = FALSE /\ backup' = Missing /\ Returns(p)
  /\ UNCHANGED <<settings, History>>

\* A step fails (no permission, no space): the call ends with an error.
Fail(p) ==
  /\ Running(p)
  /\ Errs(p)
  /\ overlapped' = (overlapped \/ Head(proc[p].calls) = "restore")
  /\ UNCHANGED <<Files, mine, runs, edits, lossy, restored>>
Kill(p) ==
  /\ Running(p)
  /\ proc' = [proc EXCEPT ![p] = Idle]
  /\ UNCHANGED <<Files, History>>

-----------------------------------------------------------------------------
(* The user and the host. *)
Edited(f, g) ==
  /\ edits < MaxEdits
  /\ edits' = edits + 1
  /\ settings' = [f EXCEPT !.own = edits'] /\ mine' = [g EXCEPT !.own = edits']
  /\ lossy' = (lossy \/ WindowOpen
                     \/ \E e \in HookEvents : \E i \in DOMAIN settings'.hooks[e] :
                          LET group == settings'.hooks[e][i]
                          IN  "user" \in group /\ IsSpnrHook(group))
  /\ UNCHANGED <<backup, home, proc, runs, overlapped, restored>>
EditBoth(Change(_)) == Edited(Change(ReadObject(settings)), Change(ReadObject(mine)))

EditKeys == EditBoth(LAMBDA f : f)
EditStatusLine == EditBoth(LAMBDA f : [f EXCEPT !.statusLine = "user"])
BreakOrRepair == EditBoth(LAMBDA f : [f EXCEPT !.parses = ~ReadObject(settings).parses])
AddHook(e) == EditBoth(LAMBDA f : [f EXCEPT !.hooks[e] = Append(@, {"user"})])
\* The user puts a hook of their own into a group spnr made.
JoinGroup(e) ==
  \E i \in DOMAIN ReadObject(settings).hooks[e] :
    /\ "user" \notin settings.hooks[e][i]
    /\ Edited([settings EXCEPT !.hooks[e][i] = @ \cup {"user"}],
              [ReadObject(mine) EXCEPT !.hooks[e] = Append(@, {"user"})])

Edit == EditKeys \/ EditStatusLine \/ BreakOrRepair \/ \E e \in HookEvents : AddHook(e) \/ JoinGroup(e)

Step(p) ==
  \/ \E b \in Builds : Start(p, "Install", b)
  \/ \E prog \in DOMAIN Programs \ {"Install"} : Start(p, prog, "none")
  \/ MakeHome(p) \/ SnapshotExists(p) \/ SnapshotRead(p) \/ SnapshotWrite(p)
  \/ ReadBack(p, "inject") \/ InjectWrite(p)
  \/ ReadBack(p, "inject_hooks") \/ InjectHooksWrite(p)
  \/ RestoreBackup(p) \/ RestoreWrite(p) \/ RestoreRead(p) \/ RestoreStrip(p)
  \/ RemoveHooksRead(p) \/ RemoveHooksWrite(p) \/ RemoveHome(p)
  \/ Fail(p) \/ Kill(p)

Next == (\E p \in Procs : Step(p)) \/ Edit
Spec == Init /\ [][Next]_vars

-----------------------------------------------------------------------------
(* PROPERTIES *)

\* What spnr may not touch in a file: whether it parses, the keys it does not
\* know, and the hooks that are not its own.
Foreign(file) ==
  [parses |-> ReadObject(file).parses, own |-> ReadObject(file).own,
   hooks |-> [e \in HookEvents |-> OtherGroups(ReadObject(file).hooks[e])]]

\* Whatever programs run, overlap, fail or are killed, the file holds all that
\* the user put there, unless an edit fell between a program's read and its
\* write, a restore put back a snapshot older than the last edit, or a hook was
\* put into one of spnr's own groups (spnr-settings lib.rs:164-339).
EditsLostOnlyInWindows == ~lossy => Foreign(settings) = Foreign(mine)

\* spnr is wired into an event at most once per installed build, however often
\* and however concurrently it is installed (lib.rs inject_hooks).
WiredOnce ==
  settings # Missing => \A e \in HookEvents, b \in Builds :
    Cardinality({i \in DOMAIN settings.hooks[e] : b \in settings.hooks[e][i]}) <= 1

Sponsored(file) ==
  /\ file # Missing
  /\ \/ file.spinnerVerbs = "ours" \/ file.statusLine = "ours"
     \/ \E e \in HookEvents : \E i \in DOMAIN file.hooks[e] : IsSpnrHook(file.hooks[e][i])

\* While programs do not overlap and no restore fails, the backup never holds
\* anything of spnr's, over any number of installs, starts, pauses, uninstalls
\* and kills (lib.rs snapshot, "pristine-preserving").  It always is an object
\* that can be put back, and is never left behind by the home directory.
BackupIsPristine ==
  /\ ~overlapped => ~Sponsored(backup)
  /\ backup # Missing => home /\ backup.parses

\* Under the same condition a pause or an uninstall leaves the host stock until
\* spnr is started again, also when it was killed later on or installed only in
\* part; and if no edit was lost the file is the user's own, as an object
\* (lib.rs restore, remove_hooks; spnr-cli do_uninstall).
RestoreReturnsStock ==
  restored /\ ~overlapped => /\ ~Sponsored(settings)
                             /\ ~lossy => ReadObject(settings) = ReadObject(mine)
=============================================================================
