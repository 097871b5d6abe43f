-------------------------- MODULE SettingsFileProofs --------------------------
(***************************************************************************)
(* Proofs about SettingsFile, for any processes, builds and hook events,   *)
(* any programs in any overlap, and any failures, kills and edits: what    *)
(* the user wrote is lost in the named windows only, a hook is wired once, *)
(* the backup is pristine, and a restore leaves the host stock.            *)
(***************************************************************************)
EXTENDS SettingsFile, FiniteSetTheorems, NaturalsInduction, TLAPS

-----------------------------------------------------------------------------
(* Induction by a least counterexample, and the recursion of OtherGroups. *)

LEMMA LeastOf ==
  ASSUME NEW T \in SUBSET Nat, T # {}
  PROVE  \E x \in T : \A y \in T : x <= y
<1> DEFINE R == OpToRel(<, Nat)
<1>1. IsWellFoundedOn(R, Nat) BY NatLessThanWellFounded
<1>2. PICK x \in T : \A y \in T : ~ (<<y, x>> \in R)
  <2> HIDE DEF R
  <2> QED BY <1>1, WFMin
<1>3. \A y \in T : ~(y < x) BY <1>2 DEF OpToRel
<1> QED BY <1>3

\* Induction up to n, for a property given as the set of numbers that have it.
LEMMA UpTo ==
  ASSUME NEW n \in Nat, NEW T, 0 \in T,
         \A i \in 0..(n - 1) : i \in T => i + 1 \in T
  PROVE  \A i \in 0..n : i \in T
<1> SUFFICES ASSUME (0..n) \ T # {} PROVE FALSE
  OBVIOUS
<1>1. (0..n) \ T \in SUBSET Nat OBVIOUS
<1>2. PICK x \in (0..n) \ T : \A y \in (0..n) \ T : x <= y BY <1>1, LeastOf
<1>3. x # 0 /\ x - 1 \in 0..(n - 1) BY <1>2
<1>4. x - 1 \in T BY <1>2, <1>3
<1> QED BY <1>2, <1>3, <1>4

\* What retain has kept after each group it has looked at.
KeptNext(kept, group) == IF IsSpnrHook(group) THEN kept ELSE Append(kept, group)

LEMMA RetainSteps ==
  ASSUME NEW groups, Len(groups) \in Nat
  PROVE  \E kept :
           /\ kept[0] = <<>>
           /\ \A i \in 1..Len(groups) : kept[i] = KeptNext(kept[i - 1], groups[i])
           /\ OtherGroups(groups) = kept[Len(groups)]
<1> DEFINE N == Len(groups)
           Def(f, n) == [i \in 0..n |-> IF i = 0 THEN <<>>
                                        ELSE KeptNext(f[i - 1], groups[i])]
           T == {n \in 0..N : \E f : f = Def(f, n)}
<1>1. N \in Nat OBVIOUS
<1>2. 0 \in T
  <2> DEFINE g == [i \in 0..0 |-> <<>>]
  <2>1. \A i \in 0..0 : i = 0 OBVIOUS
  <2>2. g = Def(g, 0) BY <2>1
  <2>3. 0 \in 0..N OBVIOUS
  <2> HIDE DEF g, Def, N
  <2> QED BY <2>2, <2>3
<1>3. ASSUME NEW n \in 0..(N - 1), n \in T PROVE n + 1 \in T
  <2>1. PICK f : f = Def(f, n) BY <1>3
  <2> DEFINE g == [i \in 0..(n + 1) |-> IF i <= n THEN f[i] ELSE KeptNext(f[n], groups[n + 1])]
  <2>2. \A i \in 0..(n + 1) :
          g[i] = IF i = 0 THEN <<>> ELSE KeptNext(g[i - 1], groups[i])
    <3> TAKE i \in 0..(n + 1)
    <3>1. CASE i = 0 BY <2>1, <3>1
    <3>2. CASE i # 0 /\ i <= n
      <4>1. g[i] = f[i] /\ g[i - 1] = f[i - 1] BY <3>2
      <4>2. f[i] = KeptNext(f[i - 1], groups[i]) BY <2>1, <3>2
      <4> HIDE DEF g
      <4> QED BY <3>2, <4>1, <4>2
    <3>3. CASE i = n + 1
      <4>1. g[i] = KeptNext(f[n], groups[n + 1]) /\ g[i - 1] = f[n] BY <3>3
      <4> HIDE DEF g
      <4> QED BY <3>3, <4>1
    <3> QED BY <3>1, <3>2, <3>3
  <2>3. g = Def(g, n + 1)
    <3>1. g = [i \in 0..(n + 1) |-> g[i]] OBVIOUS
    <3> HIDE DEF g
    <3> QED BY <2>2, <3>1
  <2>4. n + 1 \in 0..N BY <1>1, <1>3
  <2> HIDE DEF g
  <2> QED BY <2>3, <2>4
<1>4. N \in T
  <2> HIDE DEF T, N
  <2>1. \A n \in 0..(N - 1) : n \in T => n + 1 \in T BY <1>3
  <2>2. \A n \in 0..N : n \in T BY <1>1, <1>2, <2>1, UpTo
  <2> QED BY <1>1, <2>2
<1> DEFINE kept == CHOOSE f : f = Def(f, N)
<1>5. kept = Def(kept, N) BY <1>4
<1>6. OtherGroups(groups) = kept[N] BY DEF OtherGroups, KeptNext
<1> HIDE DEF kept
<1> QED BY <1>1, <1>5, <1>6

LEMMA RetainNone == OtherGroups(<<>>) = <<>>
<1>1. Len(<<>>) = 0 OBVIOUS
<1>2. PICK kept : kept[0] = <<>> /\ OtherGroups(<<>>) = kept[0] BY <1>1, RetainSteps
<1> QED BY <1>2

\* One more group at the end.
LEMMA RetainNext ==
  ASSUME NEW groups \in Seq(Group), NEW g \in Group
  PROVE  OtherGroups(Append(groups, g)) = KeptNext(OtherGroups(groups), g)
<1> DEFINE N == Len(groups)
           longer == Append(groups, g)
<1>1. N \in Nat /\ Len(longer) = N + 1 /\ longer[N + 1] = g
      /\ \A i \in 1..N : longer[i] = groups[i]
  OBVIOUS
<1>2. PICK f : /\ f[0] = <<>>
               /\ \A i \in 1..Len(groups) : f[i] = KeptNext(f[i - 1], groups[i])
               /\ OtherGroups(groups) = f[Len(groups)]
  BY <1>1, RetainSteps
<1> HIDE DEF longer
<1>3. Len(longer) \in Nat BY <1>1
<1>4. PICK h : /\ h[0] = <<>>
               /\ \A i \in 1..Len(longer) : h[i] = KeptNext(h[i - 1], longer[i])
               /\ OtherGroups(longer) = h[Len(longer)]
  BY <1>3, RetainSteps
<1> DEFINE T == {i \in 0..N : f[i] = h[i]}
<1>5. 0 \in T BY <1>1, <1>2, <1>4
<1>6. ASSUME NEW i \in 0..(N - 1), i \in T PROVE i + 1 \in T
  <2>1. i + 1 \in 1..N /\ i + 1 \in 1..(N + 1) /\ (i + 1) - 1 = i /\ i + 1 \in 0..N
    BY <1>1
  <2>2. f[i + 1] = KeptNext(f[i], groups[i + 1]) BY <1>2, <2>1
  <2>3. h[i + 1] = KeptNext(h[i], longer[i + 1]) BY <1>1, <1>4, <2>1
  <2> QED BY <1>1, <1>6, <2>1, <2>2, <2>3
<1>7. f[N] = h[N]
  <2> HIDE DEF T, N
  <2>1. \A i \in 0..(N - 1) : i \in T => i + 1 \in T BY <1>6
  <2>2. \A i \in 0..N : i \in T BY <1>1, <1>5, <2>1, UpTo
  <2>3. N \in T BY <1>1, <2>2
  <2> QED BY <2>3 DEF T
<1>8. N + 1 \in 1..Len(longer) /\ (N + 1) - 1 = N BY <1>1
<1>9. h[N + 1] = KeptNext(h[N], g) BY <1>1, <1>4, <1>8
<1> QED BY <1>1, <1>2, <1>4, <1>7, <1>9 DEF longer

\* What retain leaves: groups, none of them spnr's.
LEMMA RetainKeepsOthers ==
  ASSUME NEW groups \in Seq(Group)
  PROVE  /\ OtherGroups(groups) \in Seq(Group)
         /\ \A i \in 1..Len(OtherGroups(groups)) : ~IsSpnrHook(OtherGroups(groups)[i])
<1> DEFINE N == Len(groups)
           Others(s) == s \in Seq(Group) /\ \A i \in 1..Len(s) : ~IsSpnrHook(s[i])
<1>1. N \in Nat /\ \A i \in 1..N : groups[i] \in Group OBVIOUS
<1>2. PICK f : /\ f[0] = <<>>
               /\ \A i \in 1..N : f[i] = KeptNext(f[i - 1], groups[i])
               /\ OtherGroups(groups) = f[N]
  BY <1>1, RetainSteps
<1> DEFINE T == {i \in 0..N : Others(f[i])}
<1>3. 0 \in T
  <2>1. Others(<<>>) /\ 0 \in 0..N BY <1>1
  <2> HIDE DEF Others, N
  <2> QED BY <1>2, <2>1
<1>4. ASSUME NEW i \in 0..(N - 1), i \in T PROVE i + 1 \in T
  <2>1. i + 1 \in 1..N /\ (i + 1) - 1 = i /\ i + 1 \in 0..N BY <1>1
  <2>2. f[i + 1] = KeptNext(f[i], groups[i + 1]) BY <1>2, <2>1
  <2>3. Others(f[i]) BY <1>4
  <2>4. CASE IsSpnrHook(groups[i + 1]) BY <2>1, <2>2, <2>3, <2>4 DEF KeptNext
  <2>5. CASE ~IsSpnrHook(groups[i + 1])
    <3> DEFINE s == f[i]
               g == groups[i + 1]
    <3>1. f[i + 1] = Append(s, g) BY <2>2, <2>5 DEF KeptNext
    <3>2. g \in Group /\ ~IsSpnrHook(g) BY <1>1, <2>1, <2>5
    <3>3. s \in Seq(Group) /\ \A j \in 1..Len(s) : ~IsSpnrHook(s[j]) BY <2>3
    <3> HIDE DEF s, g
    <3>4. Append(s, g) \in Seq(Group) /\ Len(Append(s, g)) = Len(s) + 1 /\ Len(s) \in Nat
          /\ Append(s, g)[Len(s) + 1] = g /\ \A j \in 1..Len(s) : Append(s, g)[j] = s[j]
      BY <3>2, <3>3
    <3>5. \A j \in 1..(Len(s) + 1) : ~IsSpnrHook(Append(s, g)[j])
      <4> TAKE j \in 1..(Len(s) + 1)
      <4>1. j = Len(s) + 1 \/ j \in 1..Len(s) BY <3>4
      <4> QED BY <3>2, <3>3, <3>4, <4>1
    <3>6. Others(f[i + 1]) BY <3>1, <3>4, <3>5
    <3> QED BY <2>1, <3>6
  <2> QED BY <2>4, <2>5
<1>5. Others(f[N])
  <2> HIDE DEF T, N
  <2>1. \A i \in 0..(N - 1) : i \in T => i + 1 \in T BY <1>4
  <2>2. \A i \in 0..N : i \in T BY <1>1, <1>3, <2>1, UpTo
  <2>3. N \in T BY <1>1, <2>2
  <2> QED BY <2>3 DEF T
<1> QED BY <1>2, <1>5

\* Where no group is spnr's, retain changes nothing.
LEMMA RetainAll ==
  ASSUME NEW groups \in Seq(Group), \A i \in 1..Len(groups) : ~IsSpnrHook(groups[i])
  PROVE  OtherGroups(groups) = groups
<1> DEFINE N == Len(groups)
           Prefix(s, n) == s \in Seq(Group) /\ Len(s) = n /\ \A j \in 1..n : s[j] = groups[j]
<1>1. N \in Nat /\ \A i \in 1..N : groups[i] \in Group OBVIOUS
<1>2. PICK f : /\ f[0] = <<>>
               /\ \A i \in 1..N : f[i] = KeptNext(f[i - 1], groups[i])
               /\ OtherGroups(groups) = f[N]
  BY <1>1, RetainSteps
<1> DEFINE T == {i \in 0..N : Prefix(f[i], i)}
<1>3. 0 \in T
  <2>1. Prefix(<<>>, 0) /\ 0 \in 0..N BY <1>1
  <2> HIDE DEF Prefix, N
  <2> QED BY <1>2, <2>1
<1>4. ASSUME NEW i \in 0..(N - 1), i \in T PROVE i + 1 \in T
  <2> DEFINE s == f[i]
             g == groups[i + 1]
  <2>1. i + 1 \in 1..N /\ (i + 1) - 1 = i /\ i + 1 \in 0..N /\ i \in Nat BY <1>1
  <2>2. f[i + 1] = Append(s, g) BY <1>2, <2>1 DEF KeptNext
  <2>3. Prefix(s, i) /\ g \in Group BY <1>1, <1>4, <2>1
  <2> HIDE DEF s, g
  <2>4. Append(s, g) \in Seq(Group) /\ Len(Append(s, g)) = i + 1
        /\ Append(s, g)[i + 1] = g /\ \A j \in 1..i : Append(s, g)[j] = groups[j]
    BY <2>1, <2>3
  <2>5. \A j \in 1..(i + 1) : j = i + 1 \/ j \in 1..i BY <2>1
  <2>6. Prefix(f[i + 1], i + 1) BY <2>2, <2>4, <2>5 DEF g
  <2> QED BY <2>1, <2>6
<1>5. Prefix(f[N], N)
  <2> HIDE DEF T, N
  <2>1. \A i \in 0..(N - 1) : i \in T => i + 1 \in T BY <1>4
  <2>2. \A i \in 0..N : i \in T BY <1>1, <1>3, <2>1, UpTo
  <2>3. N \in T BY <1>1, <2>2
  <2> QED BY <2>3 DEF T
<1>6. f[N] = groups BY <1>1, <1>5
<1> QED BY <1>2, <1>6

-----------------------------------------------------------------------------
(* The inductive invariant. *)

\* A file somebody may hold: sponsored keys are set together, and no build is
\* wired twice into an event.
WiredIn(file) ==
  \A e \in HookEvents, b \in Builds : \A i, j \in 1..Len(file.hooks[e]) :
    b \in file.hooks[e][i] /\ b \in file.hooks[e][j] => i = j
Sane(file) ==
  /\ file \in File /\ (file.statusLine = "ours" => file.spinnerVerbs = "ours")
  /\ WiredIn(file)

\* A file that was read, or backed up, when `n` or fewer edits had been made: if
\* none was made since, it has all that the user's file `own` has, and is it,
\* unless it is sponsored.
CopyOf(file, n, own, lost, over) ==
  /\ Sane(file) /\ file.own <= n
  /\ ~lost /\ file.own = n => Foreign(file) = Foreign(own)
  /\ ~lost /\ ~over /\ file.own = n /\ ~Sponsored(file) => file = ReadObject(own)

FilesInv ==
  /\ settings \in File \cup {Missing} /\ mine \in File \cup {Missing}
  /\ home \in BOOLEAN /\ edits \in Nat
  /\ overlapped \in BOOLEAN /\ lossy \in BOOLEAN /\ restored \in BOOLEAN
  /\ CopyOf(ReadObject(settings), edits, mine, lossy, overlapped)
  /\ ~lossy => ReadObject(settings).own = edits
  /\ ReadObject(mine).own = edits
  /\ backup # Missing => /\ CopyOf(backup, edits, mine, lossy, overlapped)
                         /\ backup.parses /\ home

\* What a process has ahead of it, and the steps of a call.
Ahead(program, calls) ==
  \/ /\ program = "Install"
     /\ calls \in {<<"make_home", "snapshot", "inject_hooks">>, <<"snapshot", "inject_hooks">>,
                   <<"inject_hooks">>}
  \/ /\ program = "DaemonStart"
     /\ calls \in {<<"make_home", "snapshot", "inject">>, <<"snapshot", "inject">>, <<"inject">>}
  \/ program = "Pause" /\ calls = <<"restore">>
  \/ /\ program = "Uninstall"
     /\ calls \in {<<"restore", "remove_hooks", "remove_home">>,
                   <<"remove_hooks", "remove_home">>, <<"remove_home">>}
StepOf(call, at) ==
  \/ at = "begin"
  \/ call = "snapshot" /\ at \in {"read", "write"}
  \/ call = "restore" /\ at \in {"read", "write", "strip"}
  \/ call \in {"inject", "inject_hooks", "remove_hooks"} /\ at = "write"
Holds(at) == at \in {"write", "strip"}

Job(s) ==
  /\ s = [program |-> s.program, build |-> s.build, calls |-> s.calls, at |-> s.at,
          buf |-> s.buf]
  /\ \/ s = Idle
     \/ /\ Ahead(s.program, s.calls) /\ StepOf(Head(s.calls), s.at)
        /\ s.program = "Install" => s.build \in Builds

\* A process holds what it read from settings.json, to write it back there.
Window(s) ==
  Holds(s.at) /\ Head(s.calls) # "snapshot" /\ ~(Head(s.calls) = "restore" /\ s.at = "write")

\* What a process will write: in a window nothing was edited since, or it counts
\* as a loss.
BufOK(s, n, own, lost, over) ==
  /\ Holds(s.at) => CopyOf(s.buf, n, own, lost, over) /\ s.buf.parses
  /\ Window(s) /\ ~lost => s.buf.own = n

ProcInv ==
  \A p \in Procs : Job(proc[p]) /\ BufOK(proc[p], edits, mine, lossy, overlapped)

\* A process while programs do not overlap and no restore failed.
QuietOK(s, file, saved, done) ==
  LET call == Head(s.calls)
  IN  s.calls # <<>> =>
        /\ call \in {"inject", "inject_hooks"} => saved # Missing
        /\ call = "snapshot" /\ s.at # "begin" => saved = Missing
        /\ call = "restore" /\ s.at = "write" => saved # Missing /\ s.buf = saved
        /\ call = "restore" /\ s.at \in {"read", "strip"} => saved = Missing
        /\ call \in {"remove_hooks", "remove_home"} => ~Sponsored(file)
        /\ Holds(s.at) /\ call \notin {"inject", "inject_hooks"} => ~Sponsored(s.buf)
        /\ done => s.program \notin Sponsors

QuietInv ==
  /\ \A p, q \in Procs : Running(p) /\ Running(q) => p = q
  /\ ~Sponsored(backup)
  /\ backup = Missing => ~Sponsored(settings)
  /\ restored => ~Sponsored(settings)
  /\ \A p \in Procs : QuietOK(proc[p], settings, backup, restored)

IInv ==
  /\ FilesInv
  /\ DOMAIN proc = Procs /\ ProcInv
  /\ ~overlapped => QuietInv

-----------------------------------------------------------------------------
(* Programs. *)

LEMMA PastCallIs ==
  ASSUME NEW s, Job(s), s.calls # <<>>, NEW t, t = PastCall(s)
  PROVE  /\ Job(t) /\ t.at = "begin"
         /\ t.calls # <<>> =>
              /\ t.program = s.program
              /\ \/ Head(s.calls) = "make_home" /\ Head(t.calls) = "snapshot"
                 \/ Head(s.calls) = "snapshot" /\ Head(t.calls) \in {"inject", "inject_hooks"}
                 \/ Head(s.calls) = "restore" /\ Head(t.calls) = "remove_hooks"
                 \/ Head(s.calls) = "remove_hooks" /\ Head(t.calls) = "remove_home"
<1>1. Ahead(s.program, s.calls) /\ (s.program = "Install" => s.build \in Builds)
      /\ s = [program |-> s.program, build |-> s.build, calls |-> s.calls, at |-> s.at,
              buf |-> s.buf]
  BY DEF Job, Idle
<1>2. Job(Idle) /\ Idle.at = "begin" /\ Idle.calls = <<>> BY DEF Job, Idle
<1>3. ASSUME Len(s.calls) = 1 PROVE t = Idle BY <1>3 DEF PastCall
<1>4. ASSUME Len(s.calls) # 1
      PROVE  t = [program |-> s.program, build |-> s.build, calls |-> Tail(s.calls),
                  at |-> "begin", buf |-> Missing]
  BY <1>1, <1>4 DEF PastCall
<1>5. ASSUME Len(s.calls) # 1, Ahead(s.program, Tail(s.calls))
      PROVE  Job(t) /\ t.at = "begin" /\ t.calls = Tail(s.calls) /\ t.program = s.program
  <2>0. t = [program |-> s.program, build |-> s.build, calls |-> Tail(s.calls),
             at |-> "begin", buf |-> Missing]
    BY <1>4, <1>5
  <2>1. /\ t.program = s.program /\ t.build = s.build /\ t.calls = Tail(s.calls)
        /\ t.at = "begin"
    BY <2>0
  <2>2. t = [program |-> t.program, build |-> t.build, calls |-> t.calls, at |-> t.at,
             buf |-> t.buf]
    BY <2>0
  <2>3. StepOf(Head(t.calls), t.at) BY <2>1 DEF StepOf
  <2> QED BY <1>1, <1>5, <2>1, <2>2, <2>3 DEF Job
<1>6. ASSUME Len(s.calls) = 1
      PROVE  Job(t) /\ t.at = "begin" /\ t.calls = <<>>
  BY <1>2, <1>3, <1>6
<1>7. CASE s.calls \in {<<"inject_hooks">>, <<"inject">>, <<"restore">>, <<"remove_home">>}
  <2>1. Len(s.calls) = 1 BY <1>7
  <2> QED BY <1>6, <2>1
<1>8. CASE s.calls = <<"make_home", "snapshot", "inject_hooks">>
  <2>1. Tail(s.calls) = <<"snapshot", "inject_hooks">> /\ Len(s.calls) = 3
        /\ Head(s.calls) = "make_home" /\ s.program = "Install"
    BY <1>1, <1>8 DEF Ahead
  <2>2. Ahead(s.program, Tail(s.calls)) BY <2>1 DEF Ahead
  <2>3. Head(Tail(s.calls)) = "snapshot" BY <1>8
  <2>4. Len(s.calls) # 1 BY <2>1
  <2>5. Job(t) /\ t.at = "begin" /\ t.calls = Tail(s.calls) /\ t.program = s.program
    BY <1>5, <2>2, <2>4
  <2> QED BY <2>1, <2>3, <2>5
<1>9. CASE s.calls = <<"snapshot", "inject_hooks">>
  <2>1. Tail(s.calls) = <<"inject_hooks">> /\ Len(s.calls) = 2
        /\ Head(s.calls) = "snapshot" /\ s.program = "Install"
    BY <1>1, <1>9 DEF Ahead
  <2>2. Ahead(s.program, Tail(s.calls)) BY <2>1 DEF Ahead
  <2>3. Head(Tail(s.calls)) = "inject_hooks" BY <1>9
  <2>4. Len(s.calls) # 1 BY <2>1
  <2>5. Job(t) /\ t.at = "begin" /\ t.calls = Tail(s.calls) /\ t.program = s.program
    BY <1>5, <2>2, <2>4
  <2> QED BY <2>1, <2>3, <2>5
<1>10. CASE s.calls = <<"make_home", "snapshot", "inject">>
  <2>1. Tail(s.calls) = <<"snapshot", "inject">> /\ Len(s.calls) = 3
        /\ Head(s.calls) = "make_home" /\ s.program = "DaemonStart"
    BY <1>1, <1>10 DEF Ahead
  <2>2. Ahead(s.program, Tail(s.calls)) BY <2>1 DEF Ahead
  <2>3. Head(Tail(s.calls)) = "snapshot" BY <1>10
  <2>4. Len(s.calls) # 1 BY <2>1
  <2>5. Job(t) /\ t.at = "begin" /\ t.calls = Tail(s.calls) /\ t.program = s.program
    BY <1>5, <2>2, <2>4
  <2> QED BY <2>1, <2>3, <2>5
<1>11. CASE s.calls = <<"snapshot", "inject">>
  <2>1. Tail(s.calls) = <<"inject">> /\ Len(s.calls) = 2
        /\ Head(s.calls) = "snapshot" /\ s.program = "DaemonStart"
    BY <1>1, <1>11 DEF Ahead
  <2>2. Ahead(s.program, Tail(s.calls)) BY <2>1 DEF Ahead
  <2>3. Head(Tail(s.calls)) = "inject" BY <1>11
  <2>4. Len(s.calls) # 1 BY <2>1
  <2>5. Job(t) /\ t.at = "begin" /\ t.calls = Tail(s.calls) /\ t.program = s.program
    BY <1>5, <2>2, <2>4
  <2> QED BY <2>1, <2>3, <2>5
<1>12. CASE s.calls = <<"restore", "remove_hooks", "remove_home">>
  <2>1. Tail(s.calls) = <<"remove_hooks", "remove_home">> /\ Len(s.calls) = 3
        /\ Head(s.calls) = "restore" /\ s.program = "Uninstall"
    BY <1>1, <1>12 DEF Ahead
  <2>2. Ahead(s.program, Tail(s.calls)) BY <2>1 DEF Ahead
  <2>3. Head(Tail(s.calls)) = "remove_hooks" BY <1>12
  <2>4. Len(s.calls) # 1 BY <2>1
  <2>5. Job(t) /\ t.at = "begin" /\ t.calls = Tail(s.calls) /\ t.program = s.program
    BY <1>5, <2>2, <2>4
  <2> QED BY <2>1, <2>3, <2>5
<1>13. CASE s.calls = <<"remove_hooks", "remove_home">>
  <2>1. Tail(s.calls) = <<"remove_home">> /\ Len(s.calls) = 2
        /\ Head(s.calls) = "remove_hooks" /\ s.program = "Uninstall"
    BY <1>1, <1>13 DEF Ahead
  <2>2. Ahead(s.program, Tail(s.calls)) BY <2>1 DEF Ahead
  <2>3. Head(Tail(s.calls)) = "remove_home" BY <1>13
  <2>4. Len(s.calls) # 1 BY <2>1
  <2>5. Job(t) /\ t.at = "begin" /\ t.calls = Tail(s.calls) /\ t.program = s.program
    BY <1>5, <2>2, <2>4
  <2> QED BY <2>1, <2>3, <2>5
<1> QED BY <1>1, <1>7, <1>8, <1>9, <1>10, <1>11, <1>12, <1>13 DEF Ahead

\* What a call is a part of.
LEMMA CallIn ==
  ASSUME NEW s, Job(s), s.calls # <<>>
  PROVE  /\ Ahead(s.program, s.calls) /\ StepOf(Head(s.calls), s.at)
         /\ Head(s.calls) \in {"make_home", "snapshot", "inject", "inject_hooks"}
              => s.program \in Sponsors /\ s.program \notin IgnoresErrors
         /\ Head(s.calls) \in {"restore", "remove_hooks", "remove_home"}
              => s.program \in IgnoresErrors /\ s.program \notin Sponsors
         /\ Head(s.calls) \in {"make_home", "snapshot", "inject", "inject_hooks", "restore",
                               "remove_hooks", "remove_home"}
         /\ Head(s.calls) = "inject_hooks" => s.build \in Builds
<1>1. Ahead(s.program, s.calls) /\ StepOf(Head(s.calls), s.at)
      /\ (s.program = "Install" => s.build \in Builds)
  BY DEF Job, Idle
<1>2. CASE s.program = "Install" BY <1>1, <1>2 DEF Ahead, IgnoresErrors, Sponsors
<1>3. CASE s.program = "DaemonStart" BY <1>1, <1>3 DEF Ahead, IgnoresErrors, Sponsors
<1>4. CASE s.program = "Pause" BY <1>1, <1>4 DEF Ahead, IgnoresErrors, Sponsors
<1>5. CASE s.program = "Uninstall" BY <1>1, <1>5 DEF Ahead, IgnoresErrors, Sponsors
<1> QED BY <1>1, <1>2, <1>3, <1>4, <1>5 DEF Ahead
-----------------------------------------------------------------------------
(* What each program makes of a file. *)

LEMMA FileParts ==
  ASSUME NEW file \in File
  PROVE  /\ file # Missing /\ ReadObject(file) = file
         /\ file = [parses |-> file.parses, own |-> file.own,
                    spinnerVerbs |-> file.spinnerVerbs, statusLine |-> file.statusLine,
                    hooks |-> file.hooks]
         /\ file.parses \in BOOLEAN /\ file.own \in Nat
         /\ file.spinnerVerbs \in {"none", "ours"}
         /\ file.statusLine \in {"none", "user", "ours"}
         /\ file.hooks \in [HookEvents -> Seq(Group)]
         /\ \A e \in HookEvents : file.hooks[e] \in Seq(Group)
<1>1. file # Missing BY SettingsAssumption
<1> QED BY <1>1 DEF ReadObject, File

\* Foreign, part by part.
LEMMA ForeignParts ==
  ASSUME NEW f \in File, NEW g \in File
  PROVE  Foreign(f) = Foreign(g) <=>
           /\ f.parses = g.parses /\ f.own = g.own
           /\ \A e \in HookEvents : OtherGroups(f.hooks[e]) = OtherGroups(g.hooks[e])
<1> DEFINE F == [e \in HookEvents |-> OtherGroups(f.hooks[e])]
           G == [e \in HookEvents |-> OtherGroups(g.hooks[e])]
<1>1. /\ Foreign(f) = [parses |-> f.parses, own |-> f.own, hooks |-> F]
      /\ Foreign(g) = [parses |-> g.parses, own |-> g.own, hooks |-> G]
  BY FileParts DEF Foreign
<1>2. F = G <=> \A e \in HookEvents : OtherGroups(f.hooks[e]) = OtherGroups(g.hooks[e])
  <2>1. ASSUME F = G, NEW e \in HookEvents
        PROVE  OtherGroups(f.hooks[e]) = OtherGroups(g.hooks[e])
    <3>1. F[e] = OtherGroups(f.hooks[e]) /\ G[e] = OtherGroups(g.hooks[e]) OBVIOUS
    <3> HIDE DEF F, G
    <3> QED BY <2>1, <3>1
  <2> QED BY <2>1
<1> HIDE DEF F, G
<1>3. Foreign(f) = Foreign(g) <=> f.parses = g.parses /\ f.own = g.own /\ F = G BY <1>1
<1> QED BY <1>2, <1>3

LEMMA ForeignRead ==
  ASSUME NEW file \in File \cup {Missing}
  PROVE  Foreign(ReadObject(file)) = Foreign(file)
<1>1. CASE file = Missing
  <2>1. ReadObject(file) = EmptyObject BY <1>1 DEF ReadObject
  <2>2. ReadObject(ReadObject(file)) = ReadObject(file) BY <2>1 DEF ReadObject
  <2> QED BY <2>2 DEF Foreign
<1>2. CASE file \in File BY <1>2, FileParts
<1> QED BY <1>1, <1>2

LEMMA SponsoredParts ==
  ASSUME NEW file \in File
  PROVE  ~Sponsored(file) <=>
           /\ file.spinnerVerbs = "none" /\ file.statusLine # "ours"
           /\ \A e \in HookEvents : \A i \in 1..Len(file.hooks[e]) :
                ~IsSpnrHook(file.hooks[e][i])
<1>1. file # Missing /\ file.spinnerVerbs \in {"none", "ours"} BY FileParts
<1>2. \A e \in HookEvents : DOMAIN file.hooks[e] = 1..Len(file.hooks[e])
  <2> TAKE e \in HookEvents
  <2>1. file.hooks[e] \in Seq(Group) BY FileParts
  <2> QED BY <2>1
<1> QED BY <1>1, <1>2 DEF Sponsored

LEMMA EmptyIs ==
  /\ EmptyObject \in File /\ Sane(EmptyObject) /\ ~Sponsored(EmptyObject)
  /\ EmptyObject.own = 0 /\ EmptyObject.parses = TRUE
  /\ ~Sponsored(Missing) /\ ReadObject(Missing) = EmptyObject
<1>1. EmptyObject \in File
  <2>1. <<>> \in Seq(Group) OBVIOUS
  <2>2. [e \in HookEvents |-> <<>>] \in [HookEvents -> Seq(Group)] BY <2>1
  <2> QED BY <2>2 DEF EmptyObject, File
<1>2. \A e \in HookEvents : EmptyObject.hooks[e] = <<>> /\ Len(EmptyObject.hooks[e]) = 0
  BY DEF EmptyObject
<1>3. EmptyObject.statusLine = "none" /\ EmptyObject.spinnerVerbs = "none" BY DEF EmptyObject
<1>4. ~Sponsored(EmptyObject) BY <1>1, <1>2, <1>3, SponsoredParts
<1>5. Sane(EmptyObject) BY <1>1, <1>2, <1>3 DEF Sane, WiredIn
<1> QED BY <1>1, <1>4, <1>5 DEF EmptyObject, Sponsored, ReadObject

LEMMA ReadIs ==
  ASSUME NEW file \in File \cup {Missing}
  PROVE  /\ ReadObject(file) \in File
         /\ Sponsored(ReadObject(file)) <=> Sponsored(file)
         /\ Readable(file) => ReadObject(file).parses
<1>1. CASE file = Missing BY <1>1, EmptyIs
<1>2. CASE file \in File BY <1>2, FileParts DEF Readable
<1> QED BY <1>1, <1>2

LEMMA InjectedIs ==
  ASSUME NEW f, Sane(f)
  PROVE  /\ Sane(Injected(f)) /\ Injected(f).own = f.own
         /\ Foreign(Injected(f)) = Foreign(f) /\ Sponsored(Injected(f))
<1> DEFINE g == Injected(f)
<1>1. f \in File /\ WiredIn(f) BY DEF Sane
<1>2. g = [parses |-> f.parses, own |-> f.own, spinnerVerbs |-> "ours", statusLine |-> "ours",
           hooks |-> f.hooks]
  <2>1. f = [parses |-> f.parses, own |-> f.own, spinnerVerbs |-> f.spinnerVerbs,
             statusLine |-> f.statusLine, hooks |-> f.hooks]
    BY <1>1, FileParts
  <2>2. g = [f EXCEPT !.spinnerVerbs = "ours", !.statusLine = "ours"] BY DEF Injected
  <2> HIDE DEF g
  <2> QED BY <2>1, <2>2
<1>3. f.parses \in BOOLEAN /\ f.own \in Nat /\ f.hooks \in [HookEvents -> Seq(Group)]
  BY <1>1, FileParts
<1> HIDE DEF g
<1>4. g \in File BY <1>2, <1>3 DEF File
<1>5. /\ g.own = f.own /\ g.parses = f.parses /\ g.spinnerVerbs = "ours" /\ g.hooks = f.hooks
  BY <1>2
<1>6. Sane(g) BY <1>1, <1>4, <1>5 DEF Sane, WiredIn
<1>7. Foreign(g) = Foreign(f) BY <1>1, <1>4, <1>5, ForeignParts
<1>8. Sponsored(g) BY <1>4, <1>5, SponsoredParts
<1> QED BY <1>5, <1>6, <1>7, <1>8 DEF g

LEMMA StrippedIs ==
  ASSUME NEW f, Sane(f)
  PROVE  /\ Sane(Stripped(f)) /\ Stripped(f).own = f.own
         /\ Foreign(Stripped(f)) = Foreign(f)
         /\ ~Sponsored(f) => /\ ~Sponsored(Stripped(f))
                             /\ f.statusLine # "user" => Stripped(f) = f
<1> DEFINE g == Stripped(f)
<1>1. f \in File /\ WiredIn(f) BY DEF Sane
<1>2. g = [parses |-> f.parses, own |-> f.own, spinnerVerbs |-> "none", statusLine |-> "none",
           hooks |-> f.hooks]
  <2>1. f = [parses |-> f.parses, own |-> f.own, spinnerVerbs |-> f.spinnerVerbs,
             statusLine |-> f.statusLine, hooks |-> f.hooks]
    BY <1>1, FileParts
  <2>2. g = [f EXCEPT !.spinnerVerbs = "none", !.statusLine = "none"] BY DEF Stripped
  <2> HIDE DEF g
  <2> QED BY <2>1, <2>2
<1>3. f.parses \in BOOLEAN /\ f.own \in Nat /\ f.hooks \in [HookEvents -> Seq(Group)]
      /\ f.statusLine \in {"none", "user", "ours"}
      /\ f = [parses |-> f.parses, own |-> f.own, spinnerVerbs |-> f.spinnerVerbs,
              statusLine |-> f.statusLine, hooks |-> f.hooks]
  BY <1>1, FileParts
<1> HIDE DEF g
<1>4. g \in File BY <1>2, <1>3 DEF File
<1>5. /\ g.own = f.own /\ g.parses = f.parses /\ g.hooks = f.hooks
      /\ g.spinnerVerbs = "none" /\ g.statusLine = "none"
  BY <1>2
<1>6. Sane(g) BY <1>1, <1>4, <1>5 DEF Sane, WiredIn
<1>7. Foreign(g) = Foreign(f) BY <1>1, <1>4, <1>5, ForeignParts
<1>8. ASSUME ~Sponsored(f) PROVE ~Sponsored(g) /\ (f.statusLine # "user" => g = f)
  <2>1. f.spinnerVerbs = "none" /\ f.statusLine # "ours"
        /\ \A e \in HookEvents : \A i \in 1..Len(f.hooks[e]) : ~IsSpnrHook(f.hooks[e][i])
    BY <1>1, <1>8, SponsoredParts
  <2>2. ~Sponsored(g) BY <1>4, <1>5, <2>1, SponsoredParts
  <2>3. ASSUME f.statusLine # "user" PROVE g = f
    <3>1. f.statusLine = "none" BY <1>3, <2>1, <2>3
    <3> QED BY <1>2, <1>3, <2>1, <3>1
  <2> QED BY <2>2, <2>3
<1> QED BY <1>5, <1>6, <1>7, <1>8 DEF g
\* A file whose hooks alone are changed.
LEMMA HooksChanged ==
  ASSUME NEW f, Sane(f), NEW h \in [HookEvents -> Seq(Group)],
         NEW g, g = [f EXCEPT !.hooks = h]
  PROVE  /\ g \in File /\ g.hooks = h /\ g.own = f.own /\ g.parses = f.parses
         /\ g.spinnerVerbs = f.spinnerVerbs /\ g.statusLine = f.statusLine
         /\ h = f.hooks => g = f
         /\ WiredIn(g) => Sane(g)
<1>1. f \in File BY DEF Sane
<1>2. f = [parses |-> f.parses, own |-> f.own, spinnerVerbs |-> f.spinnerVerbs,
           statusLine |-> f.statusLine, hooks |-> f.hooks]
  BY <1>1, FileParts
<1>3. g = [parses |-> f.parses, own |-> f.own, spinnerVerbs |-> f.spinnerVerbs,
           statusLine |-> f.statusLine, hooks |-> h]
  BY <1>2
<1>4. /\ f.parses \in BOOLEAN /\ f.own \in Nat /\ f.spinnerVerbs \in {"none", "ours"}
      /\ f.statusLine \in {"none", "user", "ours"}
  BY <1>1, FileParts
<1>5. g \in File BY <1>3, <1>4 DEF File
<1>6. /\ g.hooks = h /\ g.own = f.own /\ g.parses = f.parses
      /\ g.spinnerVerbs = f.spinnerVerbs /\ g.statusLine = f.statusLine
  BY <1>3
<1>7. h = f.hooks => g = f BY <1>2, <1>3
<1> QED BY <1>5, <1>6, <1>7 DEF Sane

\* A group at the end of a list.
LEMMA OneMore ==
  ASSUME NEW groups \in Seq(Group), NEW g \in Group
  PROVE  /\ Append(groups, g) \in Seq(Group) /\ Len(groups) \in Nat
         /\ Len(Append(groups, g)) = Len(groups) + 1 /\ Append(groups, g)[Len(groups) + 1] = g
         /\ \A i \in 1..Len(groups) : Append(groups, g)[i] = groups[i]
         /\ \A i \in 1..(Len(groups) + 1) : i \in 1..Len(groups) \/ i = Len(groups) + 1
  OBVIOUS

LEMMA WithHooksIs ==
  ASSUME NEW f, Sane(f), NEW build \in Builds
  PROVE  /\ Sane(WithHooks(f, build)) /\ WithHooks(f, build).own = f.own
         /\ Foreign(WithHooks(f, build)) = Foreign(f)
         /\ ~Sponsored(WithHooks(f, build)) => ~Sponsored(f) /\ WithHooks(f, build) = f
<1> DEFINE has(e) == \E i \in DOMAIN f.hooks[e] : build \in f.hooks[e][i]
           h == [e \in HookEvents |-> IF has(e) THEN f.hooks[e] ELSE Append(f.hooks[e], {build})]
           g == WithHooks(f, build)
<1>1. f \in File /\ WiredIn(f) /\ f.hooks \in [HookEvents -> Seq(Group)]
      /\ \A e \in HookEvents : f.hooks[e] \in Seq(Group)
  BY FileParts DEF Sane
<1>2. g = [f EXCEPT !.hooks = h] BY DEF WithHooks, HasExactCommand
<1>3. {build} \in Group /\ IsSpnrHook({build})
  <2>1. {build} \in SUBSET (Builds \cup {"user"}) OBVIOUS
  <2>2. build \in {build} \cap Builds OBVIOUS
  <2>3. IsSpnrHook({build}) BY <2>2 DEF IsSpnrHook
  <2>4. {build} # {} OBVIOUS
  <2>5. {build} \in Group BY <2>1, <2>4 DEF Group
  <2> QED BY <2>3, <2>5
<1>4. \A e \in HookEvents : h[e] \in Seq(Group) BY <1>1, <1>3, OneMore
<1>5. h \in [HookEvents -> Seq(Group)] BY <1>4
<1>6. \A e \in HookEvents : DOMAIN f.hooks[e] = 1..Len(f.hooks[e])
  <2> TAKE e \in HookEvents
  <2>1. f.hooks[e] \in Seq(Group) BY <1>1
  <2> QED BY <2>1
<1>7. \A e \in HookEvents :
        /\ has(e) => h[e] = f.hooks[e]
        /\ ~has(e) => h[e] = Append(f.hooks[e], {build})
  OBVIOUS
<1> HIDE DEF h, g
<1>8. g \in File /\ g.hooks = h /\ g.own = f.own /\ g.parses = f.parses
      /\ (h = f.hooks => g = f) /\ (WiredIn(g) => Sane(g))
  BY <1>2, <1>5, HooksChanged
<1>9. WiredIn(g)
  <2> SUFFICES ASSUME NEW e \in HookEvents, NEW b \in Builds, NEW i \in 1..Len(h[e]),
                      NEW j \in 1..Len(h[e]), b \in h[e][i], b \in h[e][j]
               PROVE  i = j
    BY <1>8 DEF WiredIn
  <2>1. CASE has(e) BY <1>1, <1>7, <2>1 DEF WiredIn
  <2>2. CASE ~has(e)
    <3> DEFINE s == f.hooks[e]
    <3>1. s \in Seq(Group) BY <1>1
    <3>2. h[e] = Append(s, {build}) BY <1>7, <2>2
    <3>3. \A k \in 1..Len(s) : build \notin s[k] BY <1>6, <2>2
    <3>4. \A k, l \in 1..Len(s) : b \in s[k] /\ b \in s[l] => k = l BY <1>1 DEF WiredIn
    <3> HIDE DEF s
    <3>5. /\ Len(h[e]) = Len(s) + 1 /\ h[e][Len(s) + 1] = {build} /\ Len(s) \in Nat
          /\ \A k \in 1..Len(s) : h[e][k] = s[k]
          /\ \A k \in 1..(Len(s) + 1) : k \in 1..Len(s) \/ k = Len(s) + 1
      BY <1>3, <3>1, <3>2, OneMore
    <3>6. i \in 1..Len(s) \/ i = Len(s) + 1 BY <3>5
    <3>7. j \in 1..Len(s) \/ j = Len(s) + 1 BY <3>5
    <3>8. CASE i \in 1..Len(s) /\ j \in 1..Len(s) BY <3>4, <3>5, <3>8
    <3>9. CASE i \in 1..Len(s) /\ j = Len(s) + 1 BY <3>3, <3>5, <3>9
    <3>10. CASE j \in 1..Len(s) /\ i = Len(s) + 1 BY <3>3, <3>5, <3>10
    <3> QED BY <3>6, <3>7, <3>8, <3>9, <3>10
  <2> QED BY <2>1, <2>2
<1>10. Foreign(g) = Foreign(f)
  <2>1. \A e \in HookEvents : OtherGroups(h[e]) = OtherGroups(f.hooks[e])
    <3> TAKE e \in HookEvents
    <3>1. CASE has(e) BY <1>7, <3>1
    <3>2. CASE ~has(e)
      <4>1. h[e] = Append(f.hooks[e], {build}) /\ f.hooks[e] \in Seq(Group)
        BY <1>1, <1>7, <3>2
      <4> QED BY <1>3, <4>1, RetainNext DEF KeptNext
    <3> QED BY <3>1, <3>2
  <2> QED BY <1>1, <1>8, <2>1, ForeignParts
<1>11. ASSUME ~Sponsored(g) PROVE g = f
  <2>1. \A e \in HookEvents : \A i \in 1..Len(h[e]) : ~IsSpnrHook(h[e][i])
    BY <1>8, <1>11, SponsoredParts
  <2>2. \A e \in HookEvents : h[e] = f.hooks[e]
    <3> SUFFICES ASSUME NEW e \in HookEvents, ~has(e) PROVE FALSE BY <1>7
    <3>1. h[e] = Append(f.hooks[e], {build}) /\ f.hooks[e] \in Seq(Group) BY <1>1, <1>7
    <3>2. /\ Len(h[e]) = Len(f.hooks[e]) + 1 /\ h[e][Len(f.hooks[e]) + 1] = {build}
          /\ Len(f.hooks[e]) \in Nat
      BY <1>3, <3>1, OneMore
    <3>3. Len(f.hooks[e]) + 1 \in 1..Len(h[e]) BY <3>2
    <3> QED BY <1>3, <2>1, <3>2, <3>3
  <2>3. h = f.hooks BY <1>1, <1>5, <2>2
  <2> QED BY <1>8, <2>3
<1> QED BY <1>8, <1>9, <1>10, <1>11 DEF g

LEMMA WithoutHooksIs ==
  ASSUME NEW f, Sane(f)
  PROVE  /\ Sane(WithoutHooks(f)) /\ WithoutHooks(f).own = f.own
         /\ Foreign(WithoutHooks(f)) = Foreign(f)
         /\ ~Sponsored(f) => WithoutHooks(f) = f
<1> DEFINE h == [e \in HookEvents |-> OtherGroups(f.hooks[e])]
           g == WithoutHooks(f)
<1>1. f \in File /\ f.hooks \in [HookEvents -> Seq(Group)]
      /\ \A e \in HookEvents : f.hooks[e] \in Seq(Group)
  BY FileParts DEF Sane
<1>2. g = [f EXCEPT !.hooks = h] BY DEF WithoutHooks
<1>3. \A e \in HookEvents :
        /\ h[e] = OtherGroups(f.hooks[e]) /\ h[e] \in Seq(Group)
        /\ \A i \in 1..Len(h[e]) : ~IsSpnrHook(h[e][i])
  BY <1>1, RetainKeepsOthers
<1>4. h \in [HookEvents -> Seq(Group)] BY <1>3
<1> HIDE DEF h, g
<1>5. g \in File /\ g.hooks = h /\ g.own = f.own /\ g.parses = f.parses
      /\ (h = f.hooks => g = f) /\ (WiredIn(g) => Sane(g))
  BY <1>2, <1>4, HooksChanged
<1>6. WiredIn(g) BY <1>3, <1>5 DEF WiredIn, IsSpnrHook
<1>7. Foreign(g) = Foreign(f)
  <2>1. \A e \in HookEvents : OtherGroups(h[e]) = OtherGroups(f.hooks[e])
    BY <1>3, RetainAll
  <2> QED BY <1>1, <1>5, <2>1, ForeignParts
<1>8. ASSUME ~Sponsored(f) PROVE g = f
  <2>1. \A e \in HookEvents : \A i \in 1..Len(f.hooks[e]) : ~IsSpnrHook(f.hooks[e][i])
    BY <1>1, <1>8, SponsoredParts
  <2>2. \A e \in HookEvents : h[e] = f.hooks[e] BY <1>1, <1>3, <2>1, RetainAll
  <2>3. h = f.hooks BY <1>1, <1>4, <2>2
  <2> QED BY <1>5, <2>3
<1> QED BY <1>5, <1>6, <1>7, <1>8 DEF g

-----------------------------------------------------------------------------
(* What stays true of copies and of the processes that do not move. *)

\* A copy stays one: nothing was edited, or it is older than the last edit.
LEMMA CopyLater ==
  ASSUME NEW f, NEW n \in Nat, NEW own, NEW lost, NEW over, CopyOf(f, n, own, lost, over),
         NEW m \in Nat, NEW own2, NEW lost2, NEW over2,
         lost => lost2, over => over2, (m = n /\ own2 = own) \/ m = n + 1
  PROVE  CopyOf(f, m, own2, lost2, over2)
<1>1. Sane(f) /\ f.own <= n BY DEF CopyOf
<1>2. f.own \in Nat BY <1>1, FileParts DEF Sane
<1>3. CASE m = n /\ own2 = own BY <1>3 DEF CopyOf
<1>4. CASE m = n + 1
  <2>1. f.own # m /\ f.own <= m BY <1>1, <1>2, <1>4
  <2> QED BY <1>1, <2>1 DEF CopyOf
<1> QED BY <1>3, <1>4

\* What a process holds stays good; an edit in its window counts as a loss.
LEMMA BufLater ==
  ASSUME NEW s, NEW n \in Nat, NEW own, NEW lost, NEW over, BufOK(s, n, own, lost, over),
         NEW m \in Nat, NEW own2, NEW lost2, NEW over2,
         lost => lost2, over => over2,
         (m = n /\ own2 = own) \/ (m = n + 1 /\ (Window(s) => lost2))
  PROVE  BufOK(s, m, own2, lost2, over2)
<1>1. ASSUME Holds(s.at) PROVE CopyOf(s.buf, m, own2, lost2, over2) /\ s.buf.parses
  <2>1. CopyOf(s.buf, n, own, lost, over) /\ s.buf.parses BY <1>1 DEF BufOK
  <2> QED BY <2>1, CopyLater
<1>2. ASSUME Window(s), ~lost2 PROVE s.buf.own = m BY <1>2 DEF BufOK
<1> QED BY <1>1, <1>2 DEF BufOK

\* One process moves, and the others see no edit.
LEMMA Moves ==
  ASSUME IInv, NEW p \in Procs, NEW t, FilesInv',
         DOMAIN proc' = Procs, proc'[p] = t, \A q \in Procs \ {p} : proc'[q] = proc[q],
         edits' = edits, mine' = mine, lossy => lossy', overlapped => overlapped',
         Job(t), BufOK(t, edits, mine, lossy', overlapped'),
         ~overlapped' =>
           /\ \A q \in Procs : Running(q) => q = p
           /\ ~Sponsored(backup') /\ (backup' = Missing => ~Sponsored(settings'))
           /\ restored' => ~Sponsored(settings')
           /\ QuietOK(t, settings', backup', restored')
  PROVE  IInv'
<1>1. edits \in Nat BY DEF IInv, FilesInv
<1>2. ProcInv'
  <2> SUFFICES ASSUME NEW q \in Procs
               PROVE  Job(proc'[q]) /\ BufOK(proc'[q], edits', mine', lossy', overlapped')
    BY DEF ProcInv
  <2>1. CASE q = p BY <2>1
  <2>2. CASE q # p
    <3>1. Job(proc[q]) /\ BufOK(proc[q], edits, mine, lossy, overlapped) /\ proc'[q] = proc[q]
      BY <2>2 DEF IInv, ProcInv
    <3>2. BufOK(proc[q], edits, mine, lossy', overlapped') BY <1>1, <3>1, BufLater
    <3> QED BY <3>1, <3>2
  <2> QED BY <2>1, <2>2
<1>3. ASSUME ~overlapped' PROVE QuietInv'
  <2>1. \A q \in Procs : q # p => proc'[q].calls = <<>> BY <1>3 DEF Running
  <2>2. \A q \in Procs : Running(q)' => q = p BY <2>1 DEF Running
  <2>3. \A q \in Procs : QuietOK(proc'[q], settings', backup', restored')
    BY <1>3, <2>1 DEF QuietOK
  <2> QED BY <1>3, <2>2, <2>3 DEF QuietInv
<1> QED BY <1>2, <1>3 DEF IInv

\* The files are as they were.
LEMMA FilesKept ==
  ASSUME FilesInv, settings' = settings, backup' = backup, home' = home,
         mine' = mine, edits' = edits, lossy => lossy', overlapped => overlapped',
         lossy' \in BOOLEAN, overlapped' \in BOOLEAN, restored' \in BOOLEAN
  PROVE  FilesInv'
<1>1. edits \in Nat BY DEF FilesInv
<1>2. CopyOf(ReadObject(settings), edits, mine, lossy', overlapped')
  BY <1>1, CopyLater DEF FilesInv
<1>3. backup # Missing => CopyOf(backup, edits, mine, lossy', overlapped')
  BY <1>1, CopyLater DEF FilesInv
<1> QED BY <1>2, <1>3 DEF FilesInv

\* settings.json is replaced.
LEMMA FileReplaced ==
  ASSUME FilesInv, NEW f, settings' = f, f \in File,
         backup' = backup, home' = home,
         mine' = mine, edits' = edits, lossy => lossy', overlapped' = overlapped,
         lossy' \in BOOLEAN, restored' \in BOOLEAN,
         CopyOf(f, edits, mine, lossy', overlapped), ~lossy' => f.own = edits
  PROVE  FilesInv'
<1>1. edits \in Nat BY DEF FilesInv
<1>2. ReadObject(settings') = f BY FileParts
<1>3. backup # Missing => CopyOf(backup, edits, mine, lossy', overlapped)
  BY <1>1, CopyLater DEF FilesInv
<1> QED BY <1>2, <1>3 DEF FilesInv

\* A process about to take a step of a call.
LEMMA AtIs ==
  ASSUME IInv, NEW p \in Procs, NEW call, NEW step, At(p, call, step), NEW s, s = proc[p]
  PROVE  /\ FilesInv /\ s.calls # <<>> /\ Head(s.calls) = call /\ s.at = step
         /\ Job(s) /\ BufOK(s, edits, mine, lossy, overlapped)
         /\ ~overlapped => /\ QuietInv /\ QuietOK(s, settings, backup, restored)
                           /\ \A q \in Procs : Running(q) => q = p
  BY DEF IInv, ProcInv, QuietInv, At, Running

LEMMA GotoIs ==
  ASSUME IInv, NEW p \in Procs, NEW step, NEW buf, Goto(p, step, buf),
         NEW s, s = proc[p], s.calls # <<>>, StepOf(Head(s.calls), step)
  PROVE  \E t : /\ DOMAIN proc' = Procs /\ proc'[p] = t
                /\ \A q \in Procs \ {p} : proc'[q] = proc[q]
                /\ Job(t) /\ t.at = step /\ t.buf = buf /\ t.calls = s.calls
                /\ t.program = s.program /\ t.build = s.build
<1> DEFINE t == [s EXCEPT !.at = step, !.buf = buf]
<1>1. DOMAIN proc = Procs /\ Job(s) BY DEF IInv, ProcInv
<1>2. /\ DOMAIN proc' = Procs /\ proc'[p] = t
      /\ \A q \in Procs \ {p} : proc'[q] = proc[q]
  BY <1>1 DEF Goto
<1> HIDE DEF t
<1>3. s = [program |-> s.program, build |-> s.build, calls |-> s.calls, at |-> s.at,
           buf |-> s.buf]
  BY <1>1 DEF Job
<1>4. t = [program |-> s.program, build |-> s.build, calls |-> s.calls, at |-> step,
           buf |-> buf]
  <2>1. t = [s EXCEPT !.at = step, !.buf = buf] BY DEF t
  <2> QED BY <1>3, <2>1
<1>5. s # Idle BY DEF Idle
<1>6. Ahead(s.program, s.calls) /\ (s.program = "Install" => s.build \in Builds)
  BY <1>1, <1>5 DEF Job
<1>7. /\ t.at = step /\ t.buf = buf /\ t.calls = s.calls /\ t.program = s.program
      /\ t.build = s.build
  BY <1>4
<1>8. t = [program |-> t.program, build |-> t.build, calls |-> t.calls, at |-> t.at,
           buf |-> t.buf]
  BY <1>4, <1>7
<1>9. Job(t) BY <1>6, <1>7, <1>8 DEF Job
<1> QED BY <1>2, <1>7, <1>9

\* A process that is done with its call, or stops; a snapshot that fails stops it.
Quits(p) == Errs(p) \/ proc' = [proc EXCEPT ![p] = Idle]

LEMMA PastIs ==
  ASSUME IInv, NEW p \in Procs, NEW s, s = proc[p], s.calls # <<>>,
         Returns(p) \/ Quits(p), NEW t, t = proc'[p]
  PROVE  /\ DOMAIN proc' = Procs /\ \A q \in Procs \ {p} : proc'[q] = proc[q]
         /\ Job(t) /\ t.at = "begin"
         /\ t.calls # <<>> =>
              /\ t.program = s.program
              /\ \/ Head(s.calls) = "make_home" /\ Head(t.calls) = "snapshot"
                 \/ /\ Head(s.calls) = "snapshot" /\ ~Quits(p)
                    /\ Head(t.calls) \in {"inject", "inject_hooks"}
                 \/ Head(s.calls) = "restore" /\ Head(t.calls) = "remove_hooks"
                 \/ Head(s.calls) = "remove_hooks" /\ Head(t.calls) = "remove_home"
<1>1. DOMAIN proc = Procs /\ Job(s) BY DEF IInv, ProcInv
<1>2. Job(Idle) /\ Idle.at = "begin" /\ Idle.calls = <<>> BY DEF Job, Idle
<1>3. Head(s.calls) \in {"make_home", "snapshot", "inject", "inject_hooks"}
        => s.program \notin IgnoresErrors
  BY <1>1, CallIn
<1>4. /\ DOMAIN proc' = Procs /\ \A q \in Procs \ {p} : proc'[q] = proc[q]
      /\ Errs(p) => t = IF s.program \in IgnoresErrors THEN PastCall(s) ELSE Idle
      /\ ~Errs(p) => (~Quits(p) /\ t = PastCall(s)) \/ t = Idle
  BY <1>1 DEF Quits, Errs, Returns
<1>5. CASE t = Idle BY <1>2, <1>4, <1>5
<1>6. CASE t # Idle
  <2>1. t = PastCall(s) /\ (Head(s.calls) = "snapshot" => ~Quits(p))
    BY <1>3, <1>4, <1>6
  <2>2. /\ Job(t) /\ t.at = "begin"
        /\ t.calls # <<>> =>
             /\ t.program = s.program
             /\ \/ Head(s.calls) = "make_home" /\ Head(t.calls) = "snapshot"
                \/ Head(s.calls) = "snapshot" /\ Head(t.calls) \in {"inject", "inject_hooks"}
                \/ Head(s.calls) = "restore" /\ Head(t.calls) = "remove_hooks"
                \/ Head(s.calls) = "remove_hooks" /\ Head(t.calls) = "remove_home"
    BY <1>1, <2>1, PastCallIs
  <2> QED BY <1>4, <2>1, <2>2
<1> QED BY <1>5, <1>6

-----------------------------------------------------------------------------
(* Each step of a program keeps the invariant. *)

LEMMA StartStep ==
  ASSUME IInv, NEW p \in Procs, NEW program \in DOMAIN Programs, NEW build,
         program = "Install" => build \in Builds, Start(p, program, build)
  PROVE  IInv'
<1> DEFINE t == [Idle EXCEPT !.program = program, !.build = build, !.calls = Programs[program]]
<1>1. program \in {"Install", "DaemonStart", "Pause", "Uninstall"} BY DEF Programs
<1>2. t = [program |-> program, build |-> build, calls |-> Programs[program], at |-> "begin",
           buf |-> Missing]
  <2>1. Idle = [program |-> "none", build |-> "none", calls |-> <<>>, at |-> "begin",
                buf |-> Missing]
    BY DEF Idle
  <2>2. t = [Idle EXCEPT !.program = program, !.build = build, !.calls = Programs[program]]
    OBVIOUS
  <2> HIDE DEF t
  <2> QED BY <2>1, <2>2
<1>3. /\ DOMAIN proc = Procs /\ FilesInv
      /\ proc' = [proc EXCEPT ![p] = t]
      /\ overlapped' = (overlapped \/ \E q \in Procs : Running(q))
      /\ restored' = (restored /\ program \notin Sponsors)
      /\ settings' = settings /\ backup' = backup /\ home' = home /\ mine' = mine
      /\ edits' = edits /\ lossy' = lossy
  BY DEF IInv, Start
<1> HIDE DEF t
<1>4. /\ t.program = program /\ t.build = build /\ t.calls = Programs[program]
      /\ t.at = "begin"
      /\ t = [program |-> t.program, build |-> t.build, calls |-> t.calls, at |-> t.at,
              buf |-> t.buf]
  BY <1>2
<1>5. /\ Ahead(program, t.calls) /\ Head(t.calls) \in {"make_home", "restore"}
  BY <1>1, <1>4 DEF Ahead, Programs
<1>6. Job(t) BY <1>4, <1>5 DEF Job, StepOf
<1>7. BufOK(t, edits, mine, lossy', overlapped') BY <1>4 DEF BufOK, Window, Holds
<1>8. FilesInv' BY <1>3, FilesKept DEF FilesInv
<1>9. ASSUME ~overlapped'
      PROVE  /\ \A q \in Procs : Running(q) => q = p
             /\ ~Sponsored(backup') /\ (backup' = Missing => ~Sponsored(settings'))
             /\ restored' => ~Sponsored(settings')
             /\ QuietOK(t, settings', backup', restored')
  <2>1. QuietInv /\ \A q \in Procs : ~Running(q) BY <1>3, <1>9 DEF IInv
  <2>2. restored' => program \notin Sponsors BY <1>3
  <2>3. QuietOK(t, settings', backup', restored') BY <1>4, <1>5, <2>2 DEF QuietOK, Holds
  <2> QED BY <1>3, <2>1, <2>3 DEF QuietInv
<1>10. DOMAIN proc' = Procs /\ proc'[p] = t /\ \A q \in Procs \ {p} : proc'[q] = proc[q]
  BY <1>3
<1> QED BY <1>3, <1>6, <1>7, <1>8, <1>9, <1>10, Moves

\* A step that ends a call, well or not, and what it may have written by then.
LEMMA CallDone ==
  ASSUME IInv, NEW p \in Procs, Running(p), FilesInv', Returns(p) \/ Quits(p),
         mine' = mine, edits' = edits, lossy => lossy', overlapped => overlapped',
         ~overlapped' =>
           /\ ~Sponsored(backup') /\ (backup' = Missing => ~Sponsored(settings'))
           /\ restored' => ~Sponsored(settings') /\ proc[p].program \notin Sponsors
           /\ Head(proc[p].calls) = "snapshot" => backup' # Missing \/ Quits(p)
           /\ Head(proc[p].calls) \in {"restore", "remove_hooks"}
                => ~Sponsored(settings') \/ proc'[p] = Idle
  PROVE  IInv'
<1> DEFINE s == proc[p]
           t == proc'[p]
<1>1. s.calls # <<>> BY DEF Running
<1>2. ~overlapped => \A q \in Procs : Running(q) => q = p BY DEF IInv, QuietInv
<1> HIDE DEF t
<1>3. /\ DOMAIN proc' = Procs /\ \A q \in Procs \ {p} : proc'[q] = proc[q]
      /\ Job(t) /\ t.at = "begin"
      /\ t.calls # <<>> =>
           /\ t.program = s.program
           /\ \/ Head(s.calls) = "make_home" /\ Head(t.calls) = "snapshot"
              \/ /\ Head(s.calls) = "snapshot" /\ ~Quits(p)
                 /\ Head(t.calls) \in {"inject", "inject_hooks"}
              \/ Head(s.calls) = "restore" /\ Head(t.calls) = "remove_hooks"
              \/ Head(s.calls) = "remove_hooks" /\ Head(t.calls) = "remove_home"
  BY <1>1, PastIs DEF t
<1>4. BufOK(t, edits, mine, lossy', overlapped') BY <1>3 DEF BufOK, Window, Holds
<1>5. ASSUME ~overlapped' PROVE QuietOK(t, settings', backup', restored')
  <2>1. t = Idle => t.calls = <<>> BY DEF Idle
  <2> QED BY <1>3, <1>5, <2>1 DEF QuietOK, Holds, t
<1> QED BY <1>2, <1>3, <1>4, <1>5, Moves DEF t

LEMMA CallEnds ==
  ASSUME IInv, NEW p \in Procs, Running(p), UNCHANGED <<Files, mine, runs, edits, lossy>>,
         Returns(p) \/ Quits(p),
         overlapped => overlapped', overlapped' \in BOOLEAN, restored' \in BOOLEAN,
         ~overlapped' =>
           /\ Head(proc[p].calls) = "snapshot" => backup # Missing \/ Quits(p)
           /\ Head(proc[p].calls) = "restore" => ~Sponsored(settings) \/ proc'[p] = Idle
           /\ restored' => restored \/ (/\ ~Sponsored(settings)
                                        /\ proc[p].program \notin Sponsors)
  PROVE  IInv'
<1> DEFINE s == proc[p]
<1>1. /\ FilesInv /\ s.calls # <<>>
      /\ ~overlapped => QuietInv /\ QuietOK(s, settings, backup, restored)
  BY DEF IInv, QuietInv, Running
<1>2. /\ settings' = settings /\ backup' = backup /\ home' = home /\ mine' = mine
      /\ edits' = edits /\ lossy' = lossy
  BY DEF Files
<1>3. FilesInv' BY <1>1, <1>2, FilesKept DEF FilesInv
<1>4. ASSUME ~overlapped'
      PROVE  /\ ~Sponsored(backup') /\ (backup' = Missing => ~Sponsored(settings'))
             /\ restored' => ~Sponsored(settings') /\ s.program \notin Sponsors
             /\ Head(s.calls) = "snapshot" => backup' # Missing \/ Quits(p)
             /\ Head(s.calls) \in {"restore", "remove_hooks"}
                  => ~Sponsored(settings') \/ proc'[p] = Idle
  <2>1. QuietInv /\ QuietOK(s, settings, backup, restored) BY <1>1, <1>4
  <2>2. Head(s.calls) = "remove_hooks" => ~Sponsored(settings)
    BY <1>1, <2>1 DEF QuietOK
  <2>3. restored => s.program \notin Sponsors BY <1>1, <2>1 DEF QuietOK
  <2> QED BY <1>2, <1>4, <2>1, <2>2, <2>3 DEF QuietInv
<1> QED BY <1>2, <1>3, <1>4, CallDone

\* A step that leaves the files alone and goes on with the call, with a copy of
\* settings.json or of the backup, or without one.
LEMMA CallGoesOn ==
  ASSUME IInv, NEW p \in Procs, Running(p), UNCHANGED <<Files, History>>,
         NEW step, NEW buf, Goto(p, step, buf), StepOf(Head(proc[p].calls), step),
         Holds(step) => /\ CopyOf(buf, edits, mine, lossy, overlapped) /\ buf.parses
                        /\ \/ Head(proc[p].calls) = "snapshot"
                           \/ Head(proc[p].calls) = "restore" /\ step = "write"
                           \/ ~lossy => buf.own = edits,
         ~overlapped =>
           LET call == Head(proc[p].calls)
           IN  /\ call = "snapshot" => backup = Missing
               /\ call = "restore" /\ step = "write" => backup # Missing /\ buf = backup
               /\ call = "restore" /\ step \in {"read", "strip"} => backup = Missing
               /\ Holds(step) /\ call \notin {"inject", "inject_hooks"} => ~Sponsored(buf)
  PROVE  IInv'
<1> DEFINE s == proc[p]
<1>1. /\ FilesInv /\ Job(s) /\ s.calls # <<>>
      /\ ~overlapped => /\ QuietInv /\ QuietOK(s, settings, backup, restored)
                        /\ \A q \in Procs : Running(q) => q = p
  BY DEF IInv, ProcInv, QuietInv, Running
<1>2. /\ settings' = settings /\ backup' = backup /\ home' = home /\ mine' = mine
      /\ edits' = edits /\ lossy' = lossy /\ overlapped' = overlapped /\ restored' = restored
  BY DEF Files, History
<1>3. FilesInv' BY <1>1, <1>2, FilesKept DEF FilesInv
<1>4. PICK t :
        /\ DOMAIN proc' = Procs /\ proc'[p] = t
        /\ \A q \in Procs \ {p} : proc'[q] = proc[q]
        /\ Job(t) /\ t.at = step /\ t.buf = buf /\ t.calls = s.calls
        /\ t.program = s.program /\ t.build = s.build
  BY <1>1, GotoIs
<1>5. BufOK(t, edits, mine, lossy', overlapped') BY <1>2, <1>4 DEF BufOK, Window
<1>6. ASSUME ~overlapped'
      PROVE  /\ \A q \in Procs : Running(q) => q = p
             /\ ~Sponsored(backup') /\ (backup' = Missing => ~Sponsored(settings'))
             /\ restored' => ~Sponsored(settings')
             /\ QuietOK(t, settings', backup', restored')
  <2>1. QuietInv /\ QuietOK(s, settings, backup, restored)
        /\ \A q \in Procs : Running(q) => q = p
    BY <1>1, <1>2, <1>6
  <2>2. QuietOK(t, settings, backup, restored)
    BY <1>1, <1>2, <1>4, <1>6, <2>1 DEF QuietOK
  <2> QED BY <1>2, <2>1, <2>2 DEF QuietInv
<1> QED BY <1>2, <1>3, <1>4, <1>5, <1>6, Moves

\* What settings.json and the backup hold, as copies of the user's file.
LEMMA SettingsRead ==
  ASSUME FilesInv, Readable(settings), NEW f, f = ReadObject(settings)
  PROVE  /\ CopyOf(f, edits, mine, lossy, overlapped) /\ f.parses /\ Sane(f)
         /\ ~lossy => f.own = edits
         /\ Sponsored(f) <=> Sponsored(settings)
<1>1. settings \in File \cup {Missing} BY DEF FilesInv
<1> QED BY <1>1, ReadIs DEF FilesInv, CopyOf

LEMMA MakeHomeStep ==
  ASSUME IInv, NEW p \in Procs, MakeHome(p)
  PROVE  IInv'
<1> DEFINE s == proc[p]
<1>1. /\ s.calls # <<>> /\ Head(s.calls) = "make_home" /\ FilesInv /\ Running(p)
      /\ ~overlapped => QuietInv /\ QuietOK(s, settings, backup, restored)
  BY AtIs DEF MakeHome, Running
<1>2. /\ home' = TRUE /\ Returns(p) /\ settings' = settings /\ backup' = backup
      /\ mine' = mine /\ edits' = edits /\ overlapped' = overlapped /\ lossy' = lossy
      /\ restored' = restored
  BY DEF MakeHome
<1>3. FilesInv' BY <1>1, <1>2 DEF FilesInv
<1>4. ASSUME ~overlapped'
      PROVE  /\ ~Sponsored(backup') /\ (backup' = Missing => ~Sponsored(settings'))
             /\ restored' => ~Sponsored(settings') /\ s.program \notin Sponsors
  BY <1>1, <1>2, <1>4 DEF QuietInv, QuietOK
<1> QED BY <1>1, <1>2, <1>3, <1>4, CallDone

LEMMA SnapshotExistsStep ==
  ASSUME IInv, NEW p \in Procs, SnapshotExists(p)
  PROVE  IInv'
<1> DEFINE s == proc[p]
<1>1. s.calls # <<>> /\ Head(s.calls) = "snapshot" /\ Running(p) /\ FilesInv
  BY AtIs DEF SnapshotExists, Running
<1>2. UNCHANGED <<Files, History>> /\ SnapshotChecked(p) BY DEF SnapshotExists
<1>3. CASE backup # Missing
  <2>1. Returns(p) BY <1>2, <1>3 DEF SnapshotChecked
  <2> QED BY <1>1, <1>2, <1>3, <2>1, CallEnds DEF History, FilesInv
<1>4. CASE backup = Missing
  <2>1. Goto(p, "read", Missing) BY <1>2, <1>4 DEF SnapshotChecked
  <2> QED BY <1>1, <1>2, <1>4, <2>1, CallGoesOn DEF StepOf, Holds
<1> QED BY <1>3, <1>4

LEMMA SnapshotReadStep ==
  ASSUME IInv, NEW p \in Procs, SnapshotRead(p)
  PROVE  IInv'
<1> DEFINE s == proc[p]
<1>1. /\ s.calls # <<>> /\ Head(s.calls) = "snapshot" /\ Running(p) /\ FilesInv
      /\ s.at = "read" /\ Job(s)
      /\ ~overlapped => QuietInv /\ QuietOK(s, settings, backup, restored)
  BY AtIs DEF SnapshotRead, Running
<1>2. UNCHANGED <<Files, History>> BY DEF SnapshotRead
<1>3. CASE Readable(settings)
  <2>1. Goto(p, "write", ReadObject(settings)) BY <1>3 DEF SnapshotRead
  <2>2. ASSUME ~overlapped PROVE backup = Missing /\ ~Sponsored(ReadObject(settings))
    <3>1. backup = Missing BY <1>1, <2>2 DEF QuietOK
    <3> QED BY <1>1, <1>3, <2>2, <3>1, SettingsRead DEF QuietInv
  <2> QED BY <1>1, <1>2, <1>3, <2>1, <2>2, CallGoesOn, SettingsRead DEF StepOf, Holds
<1>4. CASE ~Readable(settings)
  <2>1. Errs(p) BY <1>4 DEF SnapshotRead
  <2> QED BY <1>1, <1>2, <2>1, CallEnds DEF Quits, History, FilesInv
<1> QED BY <1>3, <1>4

\* ReadBack, for inject and inject_hooks.
LEMMA ReadBackStep ==
  ASSUME IInv, NEW p \in Procs, NEW call \in {"inject", "inject_hooks"}, ReadBack(p, call)
  PROVE  IInv'
<1>1. Head(proc[p].calls) = call /\ Running(p) /\ FilesInv BY AtIs DEF ReadBack, Running
<1>2. UNCHANGED <<Files, History>> BY DEF ReadBack
<1>3. CASE Readable(settings)
  <2>1. Goto(p, "write", ReadObject(settings)) BY <1>3 DEF ReadBack
  <2>2. StepOf(call, "write") BY DEF StepOf
  <2> QED BY <1>1, <1>2, <1>3, <2>1, <2>2, CallGoesOn, SettingsRead
<1>4. CASE ~Readable(settings)
  <2>1. Errs(p) BY <1>4 DEF ReadBack
  <2> QED BY <1>1, <1>2, <2>1, CallEnds DEF Quits, History, FilesInv
<1> QED BY <1>3, <1>4

LEMMA RestoreBackupStep ==
  ASSUME IInv, NEW p \in Procs, RestoreBackup(p)
  PROVE  IInv'
<1>1. /\ Head(proc[p].calls) = "restore" /\ Running(p) /\ FilesInv
      /\ ~overlapped => QuietInv
  BY AtIs DEF RestoreBackup, Running
<1>2. /\ UNCHANGED <<Files, History>>
      /\ Goto(p, IF backup # Missing THEN "write" ELSE "read", backup)
  BY DEF RestoreBackup
<1>3. CASE backup # Missing
  <2>1. Goto(p, "write", backup) BY <1>2, <1>3
  <2>2. StepOf("restore", "write") BY DEF StepOf
  <2>3. CopyOf(backup, edits, mine, lossy, overlapped) /\ backup.parses
    BY <1>1, <1>3 DEF FilesInv
  <2>4. ~overlapped => ~Sponsored(backup) BY <1>1 DEF QuietInv
  <2> QED BY <1>1, <1>2, <1>3, <2>1, <2>2, <2>3, <2>4, CallGoesOn
<1>4. CASE backup = Missing
  <2>1. Goto(p, "read", backup) BY <1>2, <1>4
  <2>2. StepOf("restore", "read") /\ ~Holds("read") BY DEF StepOf, Holds
  <2> QED BY <1>1, <1>2, <1>4, <2>1, <2>2, CallGoesOn
<1> QED BY <1>3, <1>4

LEMMA RestoreReadStep ==
  ASSUME IInv, NEW p \in Procs, RestoreRead(p)
  PROVE  IInv'
<1> DEFINE s == proc[p]
           strips == Readable(settings) /\ HasOwnedKey(ReadObject(settings))
<1>1. /\ Head(s.calls) = "restore" /\ Running(p) /\ FilesInv /\ s.calls # <<>> /\ Job(s)
      /\ s.at = "read"
      /\ ~overlapped => QuietInv /\ QuietOK(s, settings, backup, restored)
  BY AtIs DEF RestoreRead, Running
<1>2. UNCHANGED <<Files, mine, runs, edits, overlapped, lossy>> BY DEF RestoreRead
<1>3. ~overlapped => backup = Missing /\ ~Sponsored(settings)
  BY <1>1 DEF QuietOK, QuietInv
<1>4. CASE strips
  <2>1. Goto(p, "strip", settings) /\ restored' = restored
    BY <1>1, <1>4 DEF RestoreRead, FilesInv
  <2>2. settings \in File
    <3>1. ~HasOwnedKey(EmptyObject) BY DEF HasOwnedKey, EmptyObject
    <3> QED BY <1>1, <1>4, <3>1 DEF FilesInv, ReadObject
  <2>3. ReadObject(settings) = settings BY <2>2, FileParts
  <2>4. StepOf("restore", "strip") BY DEF StepOf
  <2>5. UNCHANGED <<Files, History>> BY <1>2, <2>1 DEF History
  <2>6. /\ CopyOf(settings, edits, mine, lossy, overlapped) /\ settings.parses
        /\ ~lossy => settings.own = edits
    BY <1>1, <1>4, <2>3, SettingsRead
  <2> QED BY <1>1, <1>3, <2>1, <2>4, <2>5, <2>6, CallGoesOn
<1>5. CASE ~strips
  <2>1. Errs(p) /\ restored' = (restored \/ (Readable(settings) /\ ~strips))
    BY <1>5 DEF RestoreRead
  <2>2. s.program \notin Sponsors BY <1>1, CallIn
  <2>3. restored' \in BOOLEAN BY <1>1, <2>1 DEF FilesInv
  <2>4. overlapped' = overlapped /\ overlapped' \in BOOLEAN
        /\ UNCHANGED <<Files, mine, runs, edits, lossy>>
    BY <1>1, <1>2 DEF FilesInv
  <2>5. Quits(p) BY <2>1 DEF Quits
  <2> HIDE DEF strips
  <2> QED BY <1>1, <1>3, <2>2, <2>3, <2>4, <2>5, CallEnds
<1> QED BY <1>4, <1>5

LEMMA RemoveHooksReadStep ==
  ASSUME IInv, NEW p \in Procs, RemoveHooksRead(p)
  PROVE  IInv'
<1> DEFINE s == proc[p]
<1>1. /\ Head(s.calls) = "remove_hooks" /\ Running(p) /\ FilesInv /\ s.calls # <<>>
      /\ ~overlapped => QuietOK(s, settings, backup, restored)
  BY AtIs DEF RemoveHooksRead, Running
<1>2. UNCHANGED <<Files, History>> BY DEF RemoveHooksRead
<1>3. CASE Returns(p) \/ Errs(p)
  BY <1>1, <1>2, <1>3, CallEnds DEF Quits, History, FilesInv
<1>4. CASE Readable(settings) /\ settings # Missing /\ Goto(p, "write", settings)
  <2>1. Goto(p, "write", settings) BY <1>4
  <2>2. settings \in File BY <1>1, <1>4 DEF FilesInv
  <2>3. ReadObject(settings) = settings BY <2>2, FileParts
  <2>4. StepOf("remove_hooks", "write") BY DEF StepOf
  <2>5. /\ CopyOf(settings, edits, mine, lossy, overlapped) /\ settings.parses
        /\ ~lossy => settings.own = edits
    BY <1>1, <1>4, <2>3, SettingsRead
  <2>6. ~overlapped => ~Sponsored(settings) BY <1>1 DEF QuietOK
  <2> QED BY <1>1, <1>2, <2>1, <2>4, <2>5, <2>6, CallGoesOn
<1> QED BY <1>3, <1>4 DEF RemoveHooksRead

LEMMA FailStep ==
  ASSUME IInv, NEW p \in Procs, Fail(p) \/ Kill(p)
  PROVE  IInv'
<1>1. FilesInv /\ Running(p) BY DEF IInv, Fail, Kill
<1>2. CASE Fail(p)
  <2>1. /\ Quits(p) /\ UNCHANGED <<Files, mine, runs, edits, lossy>> /\ restored' = restored
        /\ overlapped' = (overlapped \/ Head(proc[p].calls) = "restore")
    BY <1>2 DEF Fail, Quits
  <2> QED BY <1>1, <2>1, CallEnds DEF FilesInv
<1>3. CASE Kill(p)
  <2>1. UNCHANGED <<Files, History>> /\ proc' = [proc EXCEPT ![p] = Idle] BY <1>3 DEF Kill
  <2>2. UNCHANGED <<Files, mine, runs, edits, lossy>> /\ restored' = restored
        /\ overlapped' = overlapped
    BY <2>1 DEF History
  <2>3. proc'[p] = Idle BY <2>1 DEF IInv
  <2>4. Quits(p) BY <2>1 DEF Quits
  <2> QED BY <1>1, <2>2, <2>3, <2>4, CallEnds DEF FilesInv
<1> QED BY <1>2, <1>3

\* A call that ends by replacing settings.json.
LEMMA CallWrites ==
  ASSUME IInv, NEW p \in Procs, Running(p), Returns(p) \/ Quits(p),
         NEW f, settings' = f, f \in File,
         UNCHANGED <<backup, home, mine, runs, edits, overlapped>>,
         lossy => lossy', lossy' \in BOOLEAN, restored' \in BOOLEAN,
         CopyOf(f, edits, mine, lossy', overlapped), ~lossy' => f.own = edits,
         Head(proc[p].calls) # "snapshot",
         ~overlapped =>
           /\ backup = Missing => ~Sponsored(f)
           /\ restored' => ~Sponsored(f) /\ proc[p].program \notin Sponsors
           /\ Head(proc[p].calls) \in {"restore", "remove_hooks"} => ~Sponsored(f)
  PROVE  IInv'
<1>1. /\ backup' = backup /\ home' = home /\ mine' = mine /\ edits' = edits
      /\ overlapped' = overlapped
  OBVIOUS
<1>2. FilesInv /\ (~overlapped => QuietInv) BY DEF IInv
<1>3. FilesInv' BY <1>1, <1>2, FileReplaced
<1>4. ~overlapped => ~Sponsored(backup) BY <1>2 DEF QuietInv
<1> QED BY <1>1, <1>3, <1>4, CallDone

\* What a process at the end of a call holds.
LEMMA BufIs ==
  ASSUME IInv, NEW p \in Procs, NEW call, NEW step, Holds(step), At(p, call, step),
         NEW s, s = proc[p]
  PROVE  /\ CopyOf(s.buf, edits, mine, lossy, overlapped) /\ s.buf.parses
         /\ Sane(s.buf) /\ s.buf \in File
         /\ call # "snapshot" /\ ~(call = "restore" /\ step = "write") /\ ~lossy
              => s.buf.own = edits
<1>1. Head(s.calls) = call /\ s.at = step /\ BufOK(s, edits, mine, lossy, overlapped)
  BY AtIs
<1>2. CopyOf(s.buf, edits, mine, lossy, overlapped) /\ s.buf.parses BY <1>1 DEF BufOK
<1>3. Sane(s.buf) /\ s.buf \in File BY <1>2 DEF CopyOf, Sane
<1> QED BY <1>1, <1>2, <1>3 DEF BufOK, Window

LEMMA SnapshotWriteStep ==
  ASSUME IInv, NEW p \in Procs, SnapshotWrite(p)
  PROVE  IInv'
<1> DEFINE s == proc[p]
<1>1. /\ Head(s.calls) = "snapshot" /\ Running(p) /\ FilesInv /\ s.calls # <<>>
      /\ s.at = "write" /\ Job(s)
      /\ ~overlapped => QuietInv /\ QuietOK(s, settings, backup, restored)
  BY AtIs DEF SnapshotWrite, Running
<1>2. UNCHANGED <<settings, home, History>> BY DEF SnapshotWrite
<1>3. CASE home
  <2>1. backup' = s.buf /\ Returns(p) BY <1>3 DEF SnapshotWrite
  <2>2. Holds("write") BY DEF Holds
  <2>3. /\ CopyOf(s.buf, edits, mine, lossy, overlapped) /\ s.buf.parses /\ s.buf \in File
    BY <2>2, BufIs DEF SnapshotWrite
  <2>4. /\ settings' = settings /\ home' = home /\ mine' = mine /\ edits' = edits
        /\ lossy' = lossy /\ overlapped' = overlapped /\ restored' = restored
    BY <1>2 DEF History
  <2>5. FilesInv' BY <1>1, <1>3, <2>1, <2>3, <2>4 DEF FilesInv
  <2>6. s.buf # Missing BY <2>3, FileParts
  <2>7. ASSUME ~overlapped
        PROVE  ~Sponsored(s.buf) /\ (restored => ~Sponsored(settings) /\ s.program \notin Sponsors)
    BY <1>1, <2>2, <2>7 DEF QuietOK, QuietInv
  <2> QED BY <1>1, <2>1, <2>4, <2>5, <2>6, <2>7, CallDone
<1>4. CASE ~home
  <2>1. UNCHANGED <<Files, History>> /\ Errs(p) BY <1>2, <1>4 DEF SnapshotWrite, Files
  <2> QED BY <1>1, <2>1, CallEnds DEF Quits, History, FilesInv
<1> QED BY <1>3, <1>4

LEMMA InjectWriteStep ==
  ASSUME IInv, NEW p \in Procs, InjectWrite(p)
  PROVE  IInv'
<1> DEFINE s == proc[p]
           f == Injected(s.buf)
<1>1. /\ Head(s.calls) = "inject" /\ Running(p) /\ FilesInv /\ s.calls # <<>> /\ Job(s)
      /\ ~overlapped => QuietInv /\ QuietOK(s, settings, backup, restored)
  BY AtIs DEF InjectWrite, Running
<1>2. /\ settings' = f /\ Returns(p) /\ UNCHANGED <<backup, home, History>>
  BY DEF InjectWrite
<1>3. Holds("write") BY DEF Holds
<1>4. /\ CopyOf(s.buf, edits, mine, lossy, overlapped) /\ Sane(s.buf)
      /\ ~lossy => s.buf.own = edits
  BY <1>3, BufIs DEF InjectWrite
<1>5. Sane(f) /\ f.own = s.buf.own /\ Foreign(f) = Foreign(s.buf) /\ Sponsored(f)
  BY <1>4, InjectedIs
<1> HIDE DEF f
<1>6. CopyOf(f, edits, mine, lossy, overlapped) BY <1>4, <1>5 DEF CopyOf
<1>7. f \in File BY <1>5 DEF Sane
<1>8. s.program \in Sponsors BY <1>1, CallIn
<1>9. ASSUME ~overlapped PROVE backup # Missing /\ ~restored
  BY <1>1, <1>8, <1>9 DEF QuietOK
<1>10. /\ lossy' = lossy /\ restored' = restored
       /\ UNCHANGED <<backup, home, mine, runs, edits, overlapped>>
  BY <1>2 DEF History
<1>11. lossy \in BOOLEAN /\ restored \in BOOLEAN BY <1>1 DEF FilesInv
<1> QED BY <1>1, <1>2, <1>4, <1>5, <1>6, <1>7, <1>9, <1>10, <1>11, CallWrites

LEMMA InjectHooksWriteStep ==
  ASSUME IInv, NEW p \in Procs, InjectHooksWrite(p)
  PROVE  IInv'
<1> DEFINE s == proc[p]
           f == WithHooks(s.buf, s.build)
<1>1. /\ Head(s.calls) = "inject_hooks" /\ Running(p) /\ FilesInv /\ s.calls # <<>> /\ Job(s)
      /\ ~overlapped => QuietInv /\ QuietOK(s, settings, backup, restored)
  BY AtIs DEF InjectHooksWrite, Running
<1>2. /\ settings' = f /\ Returns(p) /\ UNCHANGED <<backup, home, History>>
  BY DEF InjectHooksWrite
<1>3. Holds("write") BY DEF Holds
<1>4. /\ CopyOf(s.buf, edits, mine, lossy, overlapped) /\ Sane(s.buf)
      /\ ~lossy => s.buf.own = edits
  BY <1>3, BufIs DEF InjectHooksWrite
<1>5. s.build \in Builds /\ s.program \in Sponsors BY <1>1, CallIn
<1>6. /\ Sane(f) /\ f.own = s.buf.own /\ Foreign(f) = Foreign(s.buf)
      /\ ~Sponsored(f) => ~Sponsored(s.buf) /\ f = s.buf
  BY <1>4, <1>5, WithHooksIs
<1> HIDE DEF f
<1>7. CopyOf(f, edits, mine, lossy, overlapped) BY <1>4, <1>6 DEF CopyOf
<1>8. f \in File BY <1>6 DEF Sane
<1>9. ASSUME ~overlapped PROVE backup # Missing /\ ~restored
  BY <1>1, <1>5, <1>9 DEF QuietOK
<1>10. /\ lossy' = lossy /\ restored' = restored
       /\ UNCHANGED <<backup, home, mine, runs, edits, overlapped>>
  BY <1>2 DEF History
<1>11. lossy \in BOOLEAN /\ restored \in BOOLEAN BY <1>1 DEF FilesInv
<1> QED BY <1>1, <1>2, <1>4, <1>6, <1>7, <1>8, <1>9, <1>10, <1>11, CallWrites

\* The backup, verbatim.
LEMMA RestoreWriteStep ==
  ASSUME IInv, NEW p \in Procs, RestoreWrite(p)
  PROVE  IInv'
<1> DEFINE s == proc[p]
           f == s.buf
<1>1. /\ Head(s.calls) = "restore" /\ s.at = "write" /\ Running(p) /\ FilesInv
      /\ s.calls # <<>> /\ Job(s)
      /\ ~overlapped => QuietInv /\ QuietOK(s, settings, backup, restored)
  BY AtIs DEF RestoreWrite, Running
<1>2. /\ settings' = f /\ Returns(p) /\ restored' = TRUE
      /\ lossy' = (lossy \/ f.own # edits)
      /\ UNCHANGED <<backup, home, mine, runs, edits, overlapped>>
  BY DEF RestoreWrite
<1>3. Holds("write") BY DEF Holds
<1>4. CopyOf(f, edits, mine, lossy, overlapped) /\ f \in File
  BY <1>3, BufIs DEF RestoreWrite
<1>5. ASSUME ~overlapped PROVE backup # Missing /\ ~Sponsored(f)
  BY <1>1, <1>3, <1>5 DEF QuietOK
<1> HIDE DEF f
<1>6. edits \in Nat /\ lossy \in BOOLEAN BY <1>1 DEF FilesInv
<1>7. lossy' \in BOOLEAN /\ (lossy => lossy') BY <1>2, <1>6
<1>8. CopyOf(f, edits, mine, lossy', overlapped) BY <1>4, <1>6, <1>7, CopyLater
<1>9. s.program \notin Sponsors BY <1>1, CallIn
<1> QED BY <1>1, <1>2, <1>4, <1>5, <1>7, <1>8, <1>9, CallWrites

\* Without a backup, the keys spnr knows are taken out.
LEMMA RestoreStripStep ==
  ASSUME IInv, NEW p \in Procs, RestoreStrip(p)
  PROVE  IInv'
<1> DEFINE s == proc[p]
           f == Stripped(s.buf)
<1>1. /\ Head(s.calls) = "restore" /\ s.at = "strip" /\ Running(p) /\ FilesInv
      /\ s.calls # <<>> /\ Job(s)
      /\ ~overlapped => QuietInv /\ QuietOK(s, settings, backup, restored)
  BY AtIs DEF RestoreStrip, Running
<1>2. /\ settings' = f /\ Errs(p) /\ restored' = TRUE
      /\ lossy' = (lossy \/ s.buf.statusLine = "user")
      /\ UNCHANGED <<backup, home, mine, runs, edits, overlapped>>
  BY DEF RestoreStrip
<1>3. Holds("strip") BY DEF Holds
<1>4. /\ CopyOf(s.buf, edits, mine, lossy, overlapped) /\ Sane(s.buf)
      /\ ~lossy => s.buf.own = edits
  BY <1>3, BufIs DEF RestoreStrip
<1>5. ASSUME ~overlapped PROVE ~Sponsored(s.buf) BY <1>1, <1>3, <1>5 DEF QuietOK
<1>6. /\ Sane(f) /\ f.own = s.buf.own /\ Foreign(f) = Foreign(s.buf)
      /\ ~Sponsored(s.buf) => ~Sponsored(f) /\ (s.buf.statusLine # "user" => f = s.buf)
  BY <1>4, StrippedIs
<1> HIDE DEF f
<1>7. lossy' \in BOOLEAN /\ (lossy => lossy') BY <1>1, <1>2 DEF FilesInv
<1>8. CopyOf(f, edits, mine, lossy', overlapped)
  <2>1. ~lossy' => ~lossy /\ s.buf.statusLine # "user" BY <1>2
  <2>2. ~overlapped /\ ~lossy' => f = s.buf BY <1>5, <1>6, <2>1
  <2> QED BY <1>4, <1>5, <1>6, <2>1, <2>2 DEF CopyOf
<1>9. f \in File BY <1>6 DEF Sane
<1>10. s.program \notin Sponsors /\ Quits(p) BY <1>1, <1>2, CallIn DEF Quits
<1>11. ~lossy' => f.own = edits BY <1>4, <1>6, <1>7
<1>12. ~overlapped => ~Sponsored(f) BY <1>5, <1>6
<1> QED BY <1>1, <1>2, <1>7, <1>8, <1>9, <1>10, <1>11, <1>12, CallWrites

LEMMA RemoveHooksWriteStep ==
  ASSUME IInv, NEW p \in Procs, RemoveHooksWrite(p)
  PROVE  IInv'
<1> DEFINE s == proc[p]
           f == WithoutHooks(s.buf)
<1>1. /\ Head(s.calls) = "remove_hooks" /\ s.at = "write" /\ Running(p) /\ FilesInv
      /\ s.calls # <<>> /\ Job(s)
      /\ ~overlapped => QuietInv /\ QuietOK(s, settings, backup, restored)
  BY AtIs DEF RemoveHooksWrite, Running
<1>2. settings' = f /\ Returns(p) /\ UNCHANGED <<backup, home, History>>
  BY DEF RemoveHooksWrite
<1>3. Holds("write") BY DEF Holds
<1>4. /\ CopyOf(s.buf, edits, mine, lossy, overlapped) /\ Sane(s.buf)
      /\ ~lossy => s.buf.own = edits
  BY <1>3, BufIs DEF RemoveHooksWrite
<1>5. ASSUME ~overlapped PROVE ~Sponsored(s.buf) BY <1>1, <1>3, <1>5 DEF QuietOK
<1>6. /\ Sane(f) /\ f.own = s.buf.own /\ Foreign(f) = Foreign(s.buf)
      /\ ~Sponsored(s.buf) => f = s.buf
  BY <1>4, WithoutHooksIs
<1> HIDE DEF f
<1>7. CopyOf(f, edits, mine, lossy, overlapped) BY <1>4, <1>5, <1>6 DEF CopyOf
<1>8. f \in File BY <1>6 DEF Sane
<1>9. ~overlapped => ~Sponsored(f) BY <1>5, <1>6
<1>10. /\ lossy' = lossy /\ restored' = restored
       /\ UNCHANGED <<backup, home, mine, runs, edits, overlapped>>
  BY <1>2 DEF History
<1>11. lossy \in BOOLEAN /\ restored \in BOOLEAN BY <1>1 DEF FilesInv
<1>12. s.program \notin Sponsors BY <1>1, CallIn
<1> QED BY <1>1, <1>2, <1>4, <1>6, <1>7, <1>8, <1>9, <1>10, <1>11, <1>12, CallWrites

LEMMA RemoveHomeStep ==
  ASSUME IInv, NEW p \in Procs, RemoveHome(p)
  PROVE  IInv'
<1> DEFINE s == proc[p]
<1>1. /\ Head(s.calls) = "remove_home" /\ Running(p) /\ FilesInv /\ s.calls # <<>> /\ Job(s)
      /\ ~overlapped => QuietInv /\ QuietOK(s, settings, backup, restored)
  BY AtIs DEF RemoveHome, Running
<1>2. /\ home' = FALSE /\ backup' = Missing /\ Returns(p) /\ settings' = settings
      /\ mine' = mine /\ edits' = edits /\ overlapped' = overlapped /\ lossy' = lossy
      /\ restored' = restored
  BY DEF RemoveHome, History
<1>3. FilesInv' BY <1>1, <1>2 DEF FilesInv
<1>4. ~Sponsored(Missing) BY EmptyIs
<1>5. s.program \notin Sponsors BY <1>1, CallIn
<1>6. ASSUME ~overlapped PROVE ~Sponsored(settings) BY <1>1, <1>6 DEF QuietOK
<1> QED BY <1>1, <1>2, <1>3, <1>4, <1>5, <1>6, CallDone

LEMMA ProgramStep ==
  ASSUME IInv, NEW p \in Procs, Step(p)
  PROVE  IInv'
<1>1. CASE \E b \in Builds : Start(p, "Install", b)
  <2>1. "Install" \in DOMAIN Programs BY DEF Programs
  <2> QED BY <1>1, <2>1, StartStep
<1>2. CASE \E prog \in DOMAIN Programs \ {"Install"} : Start(p, prog, "none")
  BY <1>2, StartStep
<1>3. CASE ReadBack(p, "inject") \/ ReadBack(p, "inject_hooks") BY <1>3, ReadBackStep
<1> QED BY <1>1, <1>2, <1>3, MakeHomeStep, SnapshotExistsStep, SnapshotReadStep,
           SnapshotWriteStep, InjectWriteStep, InjectHooksWriteStep, RestoreBackupStep,
           RestoreWriteStep, RestoreReadStep, RestoreStripStep, RemoveHooksReadStep,
           RemoveHooksWriteStep, RemoveHomeStep, FailStep DEF Step

-----------------------------------------------------------------------------
(* Edits by the user and the host keep the invariant. *)

LEMMA OwnSet ==
  ASSUME NEW f \in File, NEW n \in Nat, NEW g, g = [f EXCEPT !.own = n]
  PROVE  /\ g \in File /\ g.own = n /\ g.parses = f.parses /\ g.hooks = f.hooks
         /\ Sane(f) => Sane(g)
         /\ Sponsored(g) <=> Sponsored(f)
<1>1. /\ f = [parses |-> f.parses, own |-> f.own, spinnerVerbs |-> f.spinnerVerbs,
              statusLine |-> f.statusLine, hooks |-> f.hooks]
      /\ f.parses \in BOOLEAN /\ f.spinnerVerbs \in {"none", "ours"}
      /\ f.statusLine \in {"none", "user", "ours"} /\ f.hooks \in [HookEvents -> Seq(Group)]
  BY FileParts
<1>2. g = [parses |-> f.parses, own |-> n, spinnerVerbs |-> f.spinnerVerbs,
           statusLine |-> f.statusLine, hooks |-> f.hooks]
  BY <1>1
<1>3. g \in File BY <1>1, <1>2 DEF File
<1>4. /\ g.own = n /\ g.parses = f.parses /\ g.hooks = f.hooks
      /\ g.spinnerVerbs = f.spinnerVerbs /\ g.statusLine = f.statusLine
  BY <1>2
<1>5. Sane(f) => Sane(g) BY <1>3, <1>4 DEF Sane, WiredIn
<1>6. Sponsored(g) <=> Sponsored(f) BY <1>3, <1>4, SponsoredParts
<1> QED BY <1>3, <1>4, <1>5, <1>6

\* An edit that a process with a copy of the file would overwrite is lossy.
LEMMA WindowSeen ==
  ASSUME NEW p \in Procs, Job(proc[p]), Window(proc[p])
  PROVE  WindowOpen
<1> DEFINE s == proc[p]
<1>1. s.at \in {"write", "strip"} /\ Head(s.calls) # "snapshot"
      /\ ~(Head(s.calls) = "restore" /\ s.at = "write")
  BY DEF Window, Holds
<1>2. s # Idle BY <1>1 DEF Idle
<1>3. Ahead(s.program, s.calls) /\ StepOf(Head(s.calls), s.at) BY <1>2 DEF Job
<1>4. s.calls # <<>> BY <1>3 DEF Ahead
<1>5. \/ s.at = "write" /\ Head(s.calls) \in {"inject", "inject_hooks", "remove_hooks"}
      \/ s.at = "strip" /\ Head(s.calls) = "restore"
  BY <1>1, <1>3 DEF StepOf
<1> QED BY <1>4, <1>5 DEF WindowOpen, At, Running

LEMMA EditedStep ==
  ASSUME IInv, NEW f, NEW g, Edited(f, g), Sane(f), g \in File,
         ~lossy' => /\ f.parses = g.parses
                    /\ \A e \in HookEvents : OtherGroups(f.hooks[e]) = OtherGroups(g.hooks[e]),
         ~Sponsored(settings) => ~Sponsored(f),
         ~lossy' /\ ~overlapped /\ ~Sponsored(f) => f = g
  PROVE  IInv'
<1> DEFINE n == edits + 1
           F == [f EXCEPT !.own = n]
           G == [g EXCEPT !.own = n]
<1>1. FilesInv /\ DOMAIN proc = Procs /\ ProcInv /\ (~overlapped => QuietInv) BY DEF IInv
<1>2. /\ edits' = n /\ settings' = F /\ mine' = G
      /\ (lossy => lossy') /\ (WindowOpen => lossy') /\ lossy' \in BOOLEAN
      /\ backup' = backup /\ home' = home /\ proc' = proc /\ overlapped' = overlapped
      /\ restored' = restored
  BY <1>1 DEF Edited, FilesInv
<1>3. edits \in Nat /\ n \in Nat BY <1>1 DEF FilesInv
<1>4. f \in File BY DEF Sane
<1>5. /\ F \in File /\ Sane(F) /\ F.own = n /\ F.parses = f.parses /\ F.hooks = f.hooks
      /\ Sponsored(F) <=> Sponsored(f)
  BY <1>3, <1>4, OwnSet
<1>6. G \in File /\ G.own = n /\ G.parses = g.parses /\ G.hooks = g.hooks BY <1>3, OwnSet
<1>7. ReadObject(F) = F /\ ReadObject(G) = G BY <1>5, <1>6, FileParts
<1>8. CopyOf(F, n, G, lossy', overlapped)
  <2>1. ~lossy' /\ ~overlapped /\ ~Sponsored(F) => F = G BY <1>5
  <2> HIDE DEF F, G, n
  <2>2. ASSUME ~lossy' PROVE Foreign(F) = Foreign(G)
    <3>1. /\ F.parses = G.parses /\ F.own = G.own
          /\ \A e \in HookEvents : OtherGroups(F.hooks[e]) = OtherGroups(G.hooks[e])
      BY <1>5, <1>6, <2>2
    <3> QED BY <1>5, <1>6, <3>1, ForeignParts
  <2> QED BY <1>3, <1>5, <1>7, <2>1, <2>2 DEF CopyOf
<1> HIDE DEF F, G, n
<1>9. backup # Missing => CopyOf(backup, n, G, lossy', overlapped)
  <2>1. n = edits + 1 BY DEF n
  <2> QED BY <1>1, <1>2, <1>3, <2>1, CopyLater DEF FilesInv
<1>10. FilesInv' BY <1>1, <1>2, <1>3, <1>5, <1>6, <1>7, <1>8, <1>9 DEF FilesInv
<1>11. ProcInv'
  <2> SUFFICES ASSUME NEW p \in Procs
               PROVE  Job(proc[p]) /\ BufOK(proc[p], n, G, lossy', overlapped)
    BY <1>2 DEF ProcInv
  <2>1. Job(proc[p]) /\ BufOK(proc[p], edits, mine, lossy, overlapped) BY <1>1 DEF ProcInv
  <2>2. Window(proc[p]) => lossy' BY <1>2, <2>1, WindowSeen
  <2>3. n = edits + 1 BY DEF n
  <2> QED BY <1>2, <1>3, <2>1, <2>2, <2>3, BufLater
<1>12. ASSUME ~overlapped PROVE QuietInv'
  <2>1. QuietInv BY <1>1, <1>12
  <2>2. ~Sponsored(settings) => ~Sponsored(F) BY <1>5
  <2>3. \A p \in Procs : QuietOK(proc[p], settings', backup', restored')
    BY <1>2, <2>1, <2>2 DEF QuietInv, QuietOK
  <2>4. \A p, q \in Procs : Running(p)' /\ Running(q)' => p = q
    BY <1>2, <2>1 DEF QuietInv, Running
  <2> QED BY <1>2, <2>1, <2>2, <2>3, <2>4 DEF QuietInv
<1> QED BY <1>1, <1>2, <1>10, <1>11, <1>12 DEF IInv

\* What an edit starts from.
LEMMA EditFrom ==
  ASSUME FilesInv, NEW s, s = ReadObject(settings), NEW m, m = ReadObject(mine)
  PROVE  /\ Sane(s) /\ s \in File /\ m \in File /\ (Sponsored(s) <=> Sponsored(settings))
         /\ ~lossy => /\ s.parses = m.parses
                      /\ \A e \in HookEvents : OtherGroups(s.hooks[e]) = OtherGroups(m.hooks[e])
         /\ ~lossy /\ ~overlapped /\ ~Sponsored(s) => s = m
<1>1. settings \in File \cup {Missing} /\ mine \in File \cup {Missing}
      /\ CopyOf(s, edits, mine, lossy, overlapped) /\ (~lossy => s.own = edits)
  BY DEF FilesInv
<1>2. Sane(s) /\ s \in File /\ m \in File /\ (Sponsored(s) <=> Sponsored(settings))
  BY <1>1, ReadIs DEF CopyOf
<1>3. ~lossy => Foreign(s) = Foreign(m) BY <1>1, ForeignRead DEF CopyOf
<1>4. ~lossy /\ ~overlapped /\ ~Sponsored(s) => s = m BY <1>1 DEF CopyOf
<1> QED BY <1>2, <1>3, <1>4, ForeignParts

LEMMA EditKeysStep ==
  ASSUME IInv, EditKeys
  PROVE  IInv'
<1> DEFINE s == ReadObject(settings)
           m == ReadObject(mine)
<1>1. FilesInv BY DEF IInv
<1>2. Edited(s, m) BY DEF EditKeys, EditBoth
<1>3. lossy => lossy' BY <1>2 DEF Edited
<1> HIDE DEF s, m
<1> QED BY <1>1, <1>2, <1>3, EditedStep, EditFrom DEF s, m

LEMMA StatusLineSet ==
  ASSUME NEW f \in File, NEW g, g = [f EXCEPT !.statusLine = "user"]
  PROVE  /\ g \in File /\ g.parses = f.parses /\ g.hooks = f.hooks
         /\ Sane(f) => Sane(g) /\ (Sponsored(g) <=> Sponsored(f))
<1>1. /\ f = [parses |-> f.parses, own |-> f.own, spinnerVerbs |-> f.spinnerVerbs,
              statusLine |-> f.statusLine, hooks |-> f.hooks]
      /\ f.parses \in BOOLEAN /\ f.spinnerVerbs \in {"none", "ours"} /\ f.own \in Nat
      /\ f.hooks \in [HookEvents -> Seq(Group)]
  BY FileParts
<1>2. g = [parses |-> f.parses, own |-> f.own, spinnerVerbs |-> f.spinnerVerbs,
           statusLine |-> "user", hooks |-> f.hooks]
  BY <1>1
<1>3. g \in File BY <1>1, <1>2 DEF File
<1>4. /\ g.own = f.own /\ g.parses = f.parses /\ g.hooks = f.hooks
      /\ g.spinnerVerbs = f.spinnerVerbs /\ g.statusLine = "user"
  BY <1>2
<1>5. ASSUME Sane(f) PROVE Sane(g) /\ (Sponsored(g) <=> Sponsored(f))
  <2>1. Sane(g) BY <1>3, <1>4, <1>5 DEF Sane, WiredIn
  <2>2. f.statusLine = "ours" => f.spinnerVerbs # "none" BY <1>5 DEF Sane
  <2>3. Sponsored(g) <=> Sponsored(f) BY <1>3, <1>4, <2>2, SponsoredParts
  <2> QED BY <2>1, <2>3
<1> QED BY <1>3, <1>4, <1>5

LEMMA EditStatusLineStep ==
  ASSUME IInv, EditStatusLine
  PROVE  IInv'
<1> DEFINE s == ReadObject(settings)
           m == ReadObject(mine)
           f == [s EXCEPT !.statusLine = "user"]
           g == [m EXCEPT !.statusLine = "user"]
<1>1. FilesInv BY DEF IInv
<1>2. Edited(f, g) BY DEF EditStatusLine, EditBoth
<1>3. lossy => lossy' BY <1>2 DEF Edited
<1>4. s = m => f = g OBVIOUS
<1> HIDE DEF s, m
<1>5. /\ Sane(s) /\ s \in File /\ m \in File /\ (Sponsored(s) <=> Sponsored(settings))
      /\ ~lossy => /\ s.parses = m.parses
                   /\ \A e \in HookEvents : OtherGroups(s.hooks[e]) = OtherGroups(m.hooks[e])
      /\ ~lossy /\ ~overlapped /\ ~Sponsored(s) => s = m
  BY <1>1, EditFrom DEF s, m
<1>6. /\ f.parses = s.parses /\ f.hooks = s.hooks /\ Sane(f) /\ (Sponsored(f) <=> Sponsored(s))
      /\ g \in File /\ g.parses = m.parses /\ g.hooks = m.hooks
  BY <1>5, StatusLineSet
<1> HIDE DEF f, g
<1> QED BY <1>2, <1>3, <1>4, <1>5, <1>6, EditedStep

LEMMA ParsesSet ==
  ASSUME NEW f \in File, NEW b \in BOOLEAN, NEW g, g = [f EXCEPT !.parses = b]
  PROVE  /\ g \in File /\ g.parses = b /\ g.hooks = f.hooks
         /\ Sane(f) => Sane(g)
         /\ Sponsored(g) <=> Sponsored(f)
<1>1. /\ f = [parses |-> f.parses, own |-> f.own, spinnerVerbs |-> f.spinnerVerbs,
              statusLine |-> f.statusLine, hooks |-> f.hooks]
      /\ f.own \in Nat /\ f.spinnerVerbs \in {"none", "ours"}
      /\ f.statusLine \in {"none", "user", "ours"} /\ f.hooks \in [HookEvents -> Seq(Group)]
  BY FileParts
<1>2. g = [parses |-> b, own |-> f.own, spinnerVerbs |-> f.spinnerVerbs,
           statusLine |-> f.statusLine, hooks |-> f.hooks]
  BY <1>1
<1>3. g \in File BY <1>1, <1>2 DEF File
<1>4. /\ g.own = f.own /\ g.parses = b /\ g.hooks = f.hooks
      /\ g.spinnerVerbs = f.spinnerVerbs /\ g.statusLine = f.statusLine
  BY <1>2
<1>5. Sane(f) => Sane(g) BY <1>3, <1>4 DEF Sane, WiredIn
<1>6. Sponsored(g) <=> Sponsored(f) BY <1>3, <1>4, SponsoredParts
<1> QED BY <1>3, <1>4, <1>5, <1>6

LEMMA BreakOrRepairStep ==
  ASSUME IInv, BreakOrRepair
  PROVE  IInv'
<1> DEFINE s == ReadObject(settings)
           m == ReadObject(mine)
           b == ~s.parses
           f == [s EXCEPT !.parses = b]
           g == [m EXCEPT !.parses = b]
<1>1. FilesInv BY DEF IInv
<1>2. Edited(f, g) BY DEF BreakOrRepair, EditBoth
<1>3. lossy => lossy' BY <1>2 DEF Edited
<1>4. s = m => f = g OBVIOUS
<1>5. b \in BOOLEAN OBVIOUS
<1> HIDE DEF s, m, b
<1>6. /\ Sane(s) /\ s \in File /\ m \in File /\ (Sponsored(s) <=> Sponsored(settings))
      /\ ~lossy => /\ s.parses = m.parses
                   /\ \A e \in HookEvents : OtherGroups(s.hooks[e]) = OtherGroups(m.hooks[e])
      /\ ~lossy /\ ~overlapped /\ ~Sponsored(s) => s = m
  BY <1>1, EditFrom DEF s, m
<1>7. /\ f.parses = b /\ f.hooks = s.hooks /\ Sane(f) /\ (Sponsored(f) <=> Sponsored(s))
      /\ g \in File /\ g.parses = b /\ g.hooks = m.hooks
  BY <1>5, <1>6, ParsesSet
<1> HIDE DEF f, g
<1> QED BY <1>2, <1>3, <1>4, <1>6, <1>7, EditedStep

\* The user's own group at the end of an event's list.
UserHook(f, e) == [f EXCEPT !.hooks[e] = Append(@, {"user"})]

LEMMA GroupAdded ==
  ASSUME NEW f \in File, NEW e \in HookEvents, NEW g, g = UserHook(f, e)
  PROVE  /\ g \in File /\ g.parses = f.parses
         /\ OtherGroups(g.hooks[e]) = Append(OtherGroups(f.hooks[e]), {"user"})
         /\ \A x \in HookEvents \ {e} : g.hooks[x] = f.hooks[x]
         /\ Sane(f) => Sane(g)
         /\ Sponsored(g) <=> Sponsored(f)
<1> DEFINE h == [f.hooks EXCEPT ![e] = Append(@, {"user"})]
<1>1. /\ f = [parses |-> f.parses, own |-> f.own, spinnerVerbs |-> f.spinnerVerbs,
              statusLine |-> f.statusLine, hooks |-> f.hooks]
      /\ f.own \in Nat /\ f.spinnerVerbs \in {"none", "ours"} /\ f.parses \in BOOLEAN
      /\ f.statusLine \in {"none", "user", "ours"} /\ f.hooks \in [HookEvents -> Seq(Group)]
      /\ \A x \in HookEvents : f.hooks[x] \in Seq(Group)
  BY FileParts
<1>2. {"user"} \in Group /\ ~IsSpnrHook({"user"})
  <2>1. {"user"} \in SUBSET (Builds \cup {"user"}) /\ {"user"} # {} OBVIOUS
  <2>2. {"user"} \cap Builds = {} BY SettingsAssumption
  <2> QED BY <2>1, <2>2 DEF Group, IsSpnrHook
<1>3. Append(f.hooks[e], {"user"}) \in Seq(Group) BY <1>1, <1>2, OneMore
<1>4. /\ h[e] = Append(f.hooks[e], {"user"})
      /\ \A x \in HookEvents \ {e} : h[x] = f.hooks[x]
      /\ h \in [HookEvents -> Seq(Group)]
  BY <1>1, <1>3
<1>5. g = [f EXCEPT !.hooks = h] BY DEF UserHook
<1> HIDE DEF h
<1>6. g = [parses |-> f.parses, own |-> f.own, spinnerVerbs |-> f.spinnerVerbs,
           statusLine |-> f.statusLine, hooks |-> h]
  BY <1>1, <1>5
<1>7. g \in File BY <1>1, <1>4, <1>6 DEF File
<1>8. /\ g.own = f.own /\ g.parses = f.parses /\ g.hooks = h
      /\ g.spinnerVerbs = f.spinnerVerbs /\ g.statusLine = f.statusLine
  BY <1>6
<1>9. OtherGroups(h[e]) = Append(OtherGroups(f.hooks[e]), {"user"})
  BY <1>1, <1>2, <1>4, RetainNext DEF KeptNext
<1>10. /\ Len(f.hooks[e]) \in Nat /\ Len(h[e]) = Len(f.hooks[e]) + 1
       /\ h[e][Len(f.hooks[e]) + 1] = {"user"}
       /\ \A i \in 1..Len(f.hooks[e]) : h[e][i] = f.hooks[e][i]
       /\ \A i \in 1..Len(h[e]) : i \in 1..Len(f.hooks[e]) \/ i = Len(f.hooks[e]) + 1
  BY <1>1, <1>2, <1>4, OneMore
<1>11. \A x \in HookEvents : \A i \in 1..Len(h[x]) :
         \/ i \in 1..Len(f.hooks[x]) /\ h[x][i] = f.hooks[x][i]
         \/ h[x][i] = {"user"}
  BY <1>4, <1>10
<1>12. \A x \in HookEvents : \A i \in 1..Len(f.hooks[x]) :
         i \in 1..Len(h[x]) /\ h[x][i] = f.hooks[x][i]
  BY <1>4, <1>10
<1>13. ASSUME Sane(f) PROVE Sane(g)
  <2>1. WiredIn(f) BY <1>13 DEF Sane
  <2>2. \A b \in Builds : b \notin {"user"} BY SettingsAssumption
  <2>3. WiredIn(g)
    <3> SUFFICES ASSUME NEW x \in HookEvents, NEW b \in Builds, NEW i \in 1..Len(h[x]),
                        NEW j \in 1..Len(h[x]), b \in h[x][i], b \in h[x][j]
                 PROVE  i = j
      BY <1>8 DEF WiredIn
    <3>1. i \in 1..Len(f.hooks[x]) /\ h[x][i] = f.hooks[x][i] BY <1>11, <2>2
    <3>2. j \in 1..Len(f.hooks[x]) /\ h[x][j] = f.hooks[x][j] BY <1>11, <2>2
    <3> QED BY <2>1, <3>1, <3>2 DEF WiredIn
  <2> QED BY <1>7, <1>8, <1>13, <2>3 DEF Sane
<1>14. Sponsored(g) <=> Sponsored(f)
  <2>1. (\A x \in HookEvents : \A i \in 1..Len(h[x]) : ~IsSpnrHook(h[x][i]))
        <=> (\A x \in HookEvents : \A i \in 1..Len(f.hooks[x]) : ~IsSpnrHook(f.hooks[x][i]))
    BY <1>2, <1>11, <1>12
  <2> QED BY <1>7, <1>8, <2>1, SponsoredParts
<1> QED BY <1>4, <1>7, <1>8, <1>9, <1>13, <1>14

LEMMA AddHookStep ==
  ASSUME IInv, NEW e \in HookEvents, AddHook(e)
  PROVE  IInv'
<1> DEFINE s == ReadObject(settings)
           m == ReadObject(mine)
           f == UserHook(s, e)
           g == UserHook(m, e)
<1>1. FilesInv BY DEF IInv
<1>2. Edited(f, g) BY DEF AddHook, EditBoth, UserHook
<1>3. lossy => lossy' BY <1>2 DEF Edited
<1>4. s = m => f = g OBVIOUS
<1> DEFINE Added(old, new) ==
             /\ new \in File /\ new.parses = old.parses
             /\ OtherGroups(new.hooks[e]) = Append(OtherGroups(old.hooks[e]), {"user"})
             /\ \A x \in HookEvents \ {e} : new.hooks[x] = old.hooks[x]
             /\ Sane(old) => Sane(new)
             /\ Sponsored(new) <=> Sponsored(old)
<1>5. \A old \in File : Added(old, UserHook(old, e))
  <2> TAKE old \in File
  <2> DEFINE new == UserHook(old, e)
  <2> HIDE DEF new
  <2>1. new = UserHook(old, e) BY DEF new
  <2>2. Added(old, new) BY <2>1, GroupAdded
  <2> QED BY <2>2 DEF new
<1> HIDE DEF s, m
<1>6. /\ Sane(s) /\ s \in File /\ m \in File /\ (Sponsored(s) <=> Sponsored(settings))
      /\ ~lossy => /\ s.parses = m.parses
                   /\ \A x \in HookEvents : OtherGroups(s.hooks[x]) = OtherGroups(m.hooks[x])
      /\ ~lossy /\ ~overlapped /\ ~Sponsored(s) => s = m
  BY <1>1, EditFrom DEF s, m
<1>7. Added(s, f) /\ Added(m, g)
  <2> HIDE DEF Added
  <2> QED BY <1>6, <1>5
<1> HIDE DEF f, g
<1>8. ~lossy => \A x \in HookEvents : OtherGroups(f.hooks[x]) = OtherGroups(g.hooks[x])
  BY <1>6, <1>7
<1> QED BY <1>2, <1>3, <1>4, <1>6, <1>7, <1>8, EditedStep

\* A group of spnr's that the user joined: the edit counts as a loss.
LEMMA JoinGroupStep ==
  ASSUME IInv, NEW e \in HookEvents, JoinGroup(e)
  PROVE  IInv'
<1> DEFINE m == ReadObject(mine)
           g == UserHook(m, e)
<1>1. FilesInv BY DEF IInv
<1>2. PICK i \in DOMAIN ReadObject(settings).hooks[e] :
        /\ "user" \notin settings.hooks[e][i]
        /\ Edited([settings EXCEPT !.hooks[e][i] = @ \cup {"user"}], g)
  BY DEF JoinGroup, UserHook
<1>3. settings \in File
  <2>1. DOMAIN EmptyObject.hooks[e] = {} BY DEF EmptyObject
  <2> QED BY <1>1, <1>2, <2>1 DEF FilesInv, ReadObject
<1> DEFINE s == settings
           joined == s.hooks[e][i] \cup {"user"}
           h == [s.hooks EXCEPT ![e] = [@ EXCEPT ![i] = joined]]
           f == [s EXCEPT !.hooks = h]
<1>4. ReadObject(settings) = s BY <1>3, FileParts
<1>5. Edited(f, g) BY <1>2
<1>6. /\ Sane(s) /\ s \in File /\ m \in File BY <1>1, <1>4, EditFrom
<1>7. /\ s.hooks \in [HookEvents -> Seq(Group)] /\ \A x \in HookEvents : s.hooks[x] \in Seq(Group)
  BY <1>6, FileParts
<1>8. i \in 1..Len(s.hooks[e]) BY <1>2, <1>4, <1>7
<1>9. s.hooks[e][i] \in Group BY <1>7, <1>8
<1>10. joined \in Group /\ "user" \in joined /\ IsSpnrHook(s.hooks[e][i]) /\ IsSpnrHook(joined)
  <2> DEFINE old == s.hooks[e][i]
  <2>1. old \in SUBSET (Builds \cup {"user"}) /\ old # {} /\ "user" \notin old
    BY <1>2, <1>9 DEF Group
  <2> HIDE DEF old
  <2>2. PICK b \in Builds : b \in old BY <2>1
  <2>3. b \in old \cap Builds /\ b \in (old \cup {"user"}) \cap Builds BY <2>2
  <2>4. old \cup {"user"} \in SUBSET (Builds \cup {"user"}) /\ old \cup {"user"} # {} BY <2>1
  <2>5. old \cup {"user"} \in Group BY <2>4 DEF Group
  <2>6. IsSpnrHook(old) /\ IsSpnrHook(old \cup {"user"}) BY <2>3 DEF IsSpnrHook
  <2> QED BY <2>5, <2>6 DEF old
<1>11. \A x \in Builds : x \in joined => x \in s.hooks[e][i] BY SettingsAssumption
<1> HIDE DEF joined
<1>12. /\ h[e] \in Seq(Group) /\ Len(h[e]) = Len(s.hooks[e]) /\ h[e][i] = joined
       /\ \A j \in 1..Len(s.hooks[e]) : j # i => h[e][j] = s.hooks[e][j]
  <2> DEFINE old == s.hooks[e]
             new == [old EXCEPT ![i] = joined]
  <2>1. old \in Seq(Group) /\ i \in 1..Len(old) BY <1>7, <1>8
  <2>2. h[e] = new BY <1>7
  <2> HIDE DEF old
  <2>3. /\ new \in Seq(Group) /\ Len(new) = Len(old) /\ new[i] = joined
        /\ \A j \in 1..Len(old) : j # i => new[j] = old[j]
    BY <1>10, <2>1
  <2> HIDE DEF new, h
  <2> QED BY <2>2, <2>3 DEF old
<1>13. \A x \in HookEvents \ {e} : h[x] = s.hooks[x] BY <1>7
<1>14. h \in [HookEvents -> Seq(Group)] BY <1>7, <1>12
<1> HIDE DEF h
<1>15. f \in File /\ f.hooks = h /\ (WiredIn(f) => Sane(f)) BY <1>6, <1>14, HooksChanged
<1> HIDE DEF f
<1>16. \A x \in HookEvents : Len(h[x]) = Len(s.hooks[x])
         /\ \A j \in 1..Len(h[x]) : \A b \in Builds : b \in h[x][j] => b \in s.hooks[x][j]
  BY <1>11, <1>12, <1>13
<1>17. WiredIn(s) BY <1>6 DEF Sane
<1>18. WiredIn(f) BY <1>15, <1>16, <1>17 DEF WiredIn
<1>19. Sponsored(s)
  BY <1>6, <1>8, <1>10, SponsoredParts
<1>20. g \in File BY <1>6, GroupAdded
<1>21. lossy'
  <2>1. edits + 1 \in Nat BY <1>1 DEF FilesInv
  <2>2. settings' = [f EXCEPT !.own = edits + 1] BY <1>5 DEF Edited
  <2>3. settings'.hooks = h BY <1>15, <2>1, <2>2, OwnSet
  <2>4. i \in DOMAIN h[e] BY <1>8, <1>12
  <2>5. /\ \E j \in DOMAIN settings'.hooks[e] :
             "user" \in settings'.hooks[e][j] /\ IsSpnrHook(settings'.hooks[e][j])
    BY <1>10, <1>12, <2>3, <2>4
  <2> QED BY <1>5, <2>5 DEF Edited
<1> HIDE DEF g, m, s
<1> QED BY <1>5, <1>15, <1>18, <1>19, <1>20, <1>21, EditedStep DEF s

LEMMA EditStep ==
  ASSUME IInv, Edit
  PROVE  IInv'
BY EditKeysStep, EditStatusLineStep, BreakOrRepairStep, AddHookStep, JoinGroupStep DEF Edit

LEMMA Inductive == IInv /\ [Next]_vars => IInv'
<1> SUFFICES ASSUME IInv, [Next]_vars PROVE IInv' OBVIOUS
<1>1. CASE \E p \in Procs : Step(p) BY <1>1, ProgramStep
<1>2. CASE Edit BY <1>2, EditStep
<1>3. CASE UNCHANGED vars
  <2>1. /\ settings' = settings /\ backup' = backup /\ home' = home /\ proc' = proc
        /\ mine' = mine /\ edits' = edits /\ overlapped' = overlapped /\ lossy' = lossy
        /\ restored' = restored
    BY <1>3 DEF vars
  <2>2. FilesInv' BY <2>1 DEF IInv, FilesInv
  <2>3. ProcInv' BY <2>1 DEF IInv, ProcInv
  <2>4. QuietInv => QuietInv' BY <2>1 DEF QuietInv, Running
  <2> QED BY <2>1, <2>2, <2>3, <2>4 DEF IInv
<1> QED BY <1>1, <1>2, <1>3 DEF Next

LEMMA Initially == Init => IInv
<1> SUFFICES ASSUME Init PROVE IInv OBVIOUS
<1> DEFINE f == ReadObject(settings)
           u == [EmptyObject EXCEPT !.statusLine = "user"]
<1>1. /\ settings \in {Missing, EmptyObject, u}
      /\ backup = Missing /\ home = FALSE /\ mine = settings /\ edits = 0
      /\ proc = [p \in Procs |-> Idle]
      /\ overlapped = FALSE /\ lossy = FALSE /\ restored = FALSE
  BY DEF Init
<1>2. EmptyObject \in File /\ Sane(EmptyObject) /\ ~Sponsored(EmptyObject) /\ EmptyObject.own = 0
      /\ ~Sponsored(Missing) /\ ReadObject(Missing) = EmptyObject
  BY EmptyIs
<1>3. u \in File /\ Sane(u) /\ ~Sponsored(u) BY <1>2, StatusLineSet
<1>4. u.own = 0 BY DEF EmptyObject
<1> HIDE DEF u
<1>5. settings \in File \cup {Missing} /\ Sane(f) /\ f.own = 0 /\ ~Sponsored(settings)
  BY <1>1, <1>2, <1>3, <1>4, FileParts
<1>6. Foreign(f) = Foreign(mine) BY <1>1, <1>5, ForeignRead
<1>7. CopyOf(f, edits, mine, lossy, overlapped) BY <1>1, <1>5, <1>6 DEF CopyOf
<1>8. FilesInv BY <1>1, <1>5, <1>7 DEF FilesInv
<1>9. Job(Idle) /\ Idle.at = "begin" /\ Idle.calls = <<>> BY DEF Job, Idle
<1>10. BufOK(Idle, edits, mine, lossy, overlapped) BY <1>9 DEF BufOK, Holds, Window
<1>11. \A p \in Procs : proc[p] = Idle BY <1>1
<1>12. ProcInv BY <1>9, <1>10, <1>11 DEF ProcInv
<1>13. QuietInv
  <2>1. \A p \in Procs : ~Running(p) BY <1>9, <1>11 DEF Running
  <2>2. \A p \in Procs : QuietOK(proc[p], settings, backup, restored)
    BY <1>9, <1>11 DEF QuietOK
  <2> QED BY <1>1, <1>2, <1>5, <2>1, <2>2 DEF QuietInv
<1> QED BY <1>1, <1>8, <1>12, <1>13 DEF IInv

-----------------------------------------------------------------------------
(* Theorems. *)

\* The inductive invariant: a copy of the file that somebody holds is as good as
\* its age, and with one program at a time the backup is pristine.
THEOREM Invariant == Spec => []IInv
BY Initially, Inductive, PTL DEF Spec

\* What the user and the host wrote is in the file, whatever programs run,
\* overlap, fail or are killed, unless one of the named windows was met
\* (inject, restore, inject_hooks, remove_hooks of spnr-settings).
THEOREM NothingElseLost == Spec => []EditsLostOnlyInWindows
<1>1. IInv => EditsLostOnlyInWindows
  <2> SUFFICES ASSUME IInv, ~lossy PROVE Foreign(settings) = Foreign(mine)
    BY DEF EditsLostOnlyInWindows
  <2>1. /\ CopyOf(ReadObject(settings), edits, mine, lossy, overlapped)
        /\ ReadObject(settings).own = edits /\ settings \in File \cup {Missing}
    BY DEF IInv, FilesInv
  <2>2. Foreign(ReadObject(settings)) = Foreign(mine) BY <2>1 DEF CopyOf
  <2> QED BY <2>1, <2>2, ForeignRead
<1> QED BY <1>1, Invariant, PTL

\* inject_hooks wires an event once for a build, in any number of installs.
THEOREM HooksOnce == Spec => []WiredOnce
<1>1. IInv => WiredOnce
  <2> SUFFICES ASSUME IInv, settings # Missing, NEW e \in HookEvents, NEW b \in Builds
               PROVE  Cardinality({i \in DOMAIN settings.hooks[e] : b \in settings.hooks[e][i]})
                        <= 1
    BY DEF WiredOnce
  <2> DEFINE S == {i \in DOMAIN settings.hooks[e] : b \in settings.hooks[e][i]}
  <2>1. settings \in File /\ WiredIn(settings)
    <3>1. settings \in File BY DEF IInv, FilesInv
    <3>2. ReadObject(settings) = settings BY <3>1, FileParts
    <3> QED BY <3>1, <3>2 DEF IInv, FilesInv, CopyOf, Sane
  <2>2. DOMAIN settings.hooks[e] = 1..Len(settings.hooks[e])
    <3>1. settings.hooks[e] \in Seq(Group) BY <2>1, FileParts
    <3> QED BY <3>1
  <2>3. \A i, j \in S : i = j BY <2>1, <2>2 DEF WiredIn
  <2> HIDE DEF S
  <2>4. CASE S = {} BY <2>4, FS_EmptySet DEF S
  <2>5. CASE S # {}
    <3>1. PICK i : i \in S BY <2>5
    <3>2. S = {i} BY <2>3, <3>1
    <3>3. Cardinality(S) = 1 BY <3>2, FS_Singleton
    <3> QED BY <3>3 DEF S
  <2> QED BY <2>4, <2>5
<1> QED BY <1>1, Invariant, PTL

\* The backup holds nothing of spnr's while programs do not overlap and no
\* restore fails; it can always be put back (snapshot of spnr-settings).
THEOREM Pristine == Spec => []BackupIsPristine
<1>1. IInv => BackupIsPristine BY DEF IInv, FilesInv, QuietInv, BackupIsPristine
<1> QED BY <1>1, Invariant, PTL

\* A restore under the same condition leaves nothing of spnr's, and the user's
\* own file if no edit was lost (restore and remove_hooks of spnr-settings).
THEOREM BackToStock == Spec => []RestoreReturnsStock
<1>1. IInv => RestoreReturnsStock
  <2> SUFFICES ASSUME IInv, restored, ~overlapped
               PROVE  ~Sponsored(settings) /\ (~lossy => ReadObject(settings) = ReadObject(mine))
    BY DEF RestoreReturnsStock
  <2>1. ~Sponsored(settings) BY DEF IInv, QuietInv
  <2>2. FilesInv BY DEF IInv
  <2> QED BY <2>1, <2>2, EditFrom
<1> QED BY <1>1, Invariant, PTL
=============================================================================
