---------------------------- MODULE AccountsProofs ----------------------------
(***************************************************************************)
(* Proofs about Accounts, for any number of accounts, calls and actions of *)
(* the user: a settled tab shows the account of its stored token, and one  *)
(* whose session is alive.                                                 *)
(***************************************************************************)
EXTENDS Accounts, FiniteSetTheorems, TLAPS

-----------------------------------------------------------------------------
(* The inductive invariant. *)

Auth == {"signup", "login"}

\* The fields of a call, and what the backend has said of it.
IsCall(c) ==
  c = [id |-> c.id, kind |-> c.kind, email |-> c.email, bearer |-> c.bearer,
       answer |-> c.answer, ok |-> c.ok, returned |-> c.returned, heard |-> c.heard]
CallInv(c) ==
  /\ IsCall(c) /\ c.kind \in Auth \cup {"me", "logout"}
  /\ c.kind \in Auth => c.bearer = None
  /\ c.kind \notin Auth => c.bearer \in DOMAIN owner
  /\ c.kind = "me" => c.heard
  /\ c.returned /\ c.kind \in Auth => c.answer \in DOMAIN owner /\ owner[c.answer] = c.email
  /\ c.returned /\ c.ok /\ c.kind = "me" => c.answer = owner[c.bearer]

\* Tokens are numbered in the order they are issued; a session is the account
\* its token was issued to.
TokensInv ==
  /\ Cardinality(DOMAIN owner) \in Nat
  /\ DOMAIN owner = 1..Cardinality(DOMAIN owner)
  /\ \A t \in DOMAIN owner : owner[t] \in accounts
  /\ DOMAIN sessions \subseteq DOMAIN owner
  /\ \A t \in DOMAIN sessions : sessions[t] = owner[t]

\* A token on its way to the tab is new to it: nothing was sent with it, so its
\* session is alive.
NewTokenInv ==
  \A c \in calls : c.returned /\ c.kind \in Auth =>
    /\ c.answer \in DOMAIN sessions /\ c.answer # stored
    /\ \A d \in calls : /\ d.bearer # c.answer
                        /\ d.returned /\ d.kind \in Auth /\ d # c => d.answer # c.answer

\* The tab follows its stored token: unless the effect is due, whoever asks for
\* the account asks with that token.
TabInv ==
  /\ token = stored /\ stored \in DOMAIN owner \cup {None}
  /\ ~effectDue => \A c \in calls : c.kind = "me" => c.bearer = stored
  /\ Settled => ~loading /\ account = IF stored = None THEN None ELSE owner[stored]

\* An answer about the stored token stays true unless a logout is under way.
LiveInv ==
  ~abandoned =>
    /\ \A c \in calls : c.kind = "logout" => c.heard
    /\ (\A c \in calls : c.kind # "logout") =>
         /\ Settled /\ account # None => stored \in DOMAIN sessions
         /\ ~effectDue => \A c \in calls : c.kind = "me" /\ c.returned /\ c.ok
                                             => stored \in DOMAIN sessions

IInv == (\A c \in calls : CallInv(c)) /\ TokensInv /\ NewTokenInv /\ TabInv /\ LiveInv

-----------------------------------------------------------------------------
(* Calls that return, and tokens. *)

LEMMA Updated ==
  ASSUME NEW c, IsCall(c), NEW returned, NEW ok, NEW answer
  PROVE  [c EXCEPT !.returned = returned, !.ok = ok, !.answer = answer]
           = [id |-> c.id, kind |-> c.kind, email |-> c.email, bearer |-> c.bearer,
              answer |-> answer, ok |-> ok, returned |-> returned, heard |-> c.heard]
<1> DEFINE d == [c EXCEPT !.returned = returned]
           e == [d EXCEPT !.ok = ok]
           f == [e EXCEPT !.answer = answer]
<1>1. d = [id |-> c.id, kind |-> c.kind, email |-> c.email, bearer |-> c.bearer,
           answer |-> c.answer, ok |-> c.ok, returned |-> returned, heard |-> c.heard]
  BY DEF IsCall
<1>2. e = [id |-> c.id, kind |-> c.kind, email |-> c.email, bearer |-> c.bearer,
           answer |-> c.answer, ok |-> ok, returned |-> returned, heard |-> c.heard]
  <2> HIDE DEF d
  <2> QED BY <1>1
<1>3. f = [id |-> c.id, kind |-> c.kind, email |-> c.email, bearer |-> c.bearer,
           answer |-> answer, ok |-> ok, returned |-> returned, heard |-> c.heard]
  <2> HIDE DEF d, e
  <2> QED BY <1>2
<1>4. f = [c EXCEPT !.returned = returned, !.ok = ok, !.answer = answer] OBVIOUS
<1> QED BY <1>3, <1>4

LEMMA Unheard ==
  ASSUME NEW c, IsCall(c), NEW heard
  PROVE  [c EXCEPT !.heard = heard]
           = [id |-> c.id, kind |-> c.kind, email |-> c.email, bearer |-> c.bearer,
              answer |-> c.answer, ok |-> c.ok, returned |-> c.returned, heard |-> heard]
BY DEF IsCall

\* After c returned, a call is one of the others or c with its answer.
BackWith(d, c, ok, answer) ==
  /\ IsCall(d) /\ d.id = c.id /\ d.kind = c.kind /\ d.email = c.email /\ d.bearer = c.bearer
  /\ d.heard = c.heard /\ d.returned = TRUE /\ d.ok = ok /\ d.answer = answer
  /\ c.heard /\ (ok \/ c.kind \in {"me", "logout"})

LEMMA ReturnedCalls ==
  ASSUME NEW c \in calls, IsCall(c), NEW ok, NEW answer
  PROVE  /\ \A d \in Returned(c, ok, answer) : (d \in calls /\ d # c) \/ BackWith(d, c, ok, answer)
         /\ \A d \in calls : d # c => d \in Returned(c, ok, answer)
         /\ c.heard /\ c.kind \in {"me", "logout"} =>
              \E d \in Returned(c, ok, answer) : d.kind = c.kind
<1> DEFINE e == [c EXCEPT !.returned = TRUE, !.ok = ok, !.answer = answer]
<1>1. e = [id |-> c.id, kind |-> c.kind, email |-> c.email, bearer |-> c.bearer,
           answer |-> answer, ok |-> ok, returned |-> TRUE, heard |-> c.heard]
  BY Updated
<1>2. /\ IsCall(e) /\ e.id = c.id /\ e.kind = c.kind /\ e.email = c.email /\ e.bearer = c.bearer
      /\ e.heard = c.heard /\ e.returned = TRUE /\ e.ok = ok /\ e.answer = answer
  <2> HIDE DEF e
  <2> QED BY <1>1 DEF IsCall
<1>3. Returned(c, ok, answer) =
        (calls \ {c}) \cup
          IF c.heard /\ (ok \/ c.kind \in {"me", "logout"}) THEN {e} ELSE {}
  BY DEF Returned
<1> HIDE DEF e
<1> QED BY <1>2, <1>3 DEF BackWith

LEMMA FreshToken ==
  ASSUME TokensInv
  PROVE  NewToken \in Nat /\ NewToken \notin DOMAIN owner
BY DEF TokensInv, NewToken

-----------------------------------------------------------------------------
(* The backend's steps. *)

\* A call that returns leaves the tab's questions as they were.
LEMMA ReturnKeeps ==
  ASSUME IInv, NEW c \in calls, NEW ok, NEW answer,
         calls' = Returned(c, ok, answer), UNCHANGED <<stored, token, effectDue>>
  PROVE  /\ \A d \in calls' : (d \in calls /\ d # c) \/ BackWith(d, c, ok, answer)
         /\ Settled' => Settled
         /\ ~effectDue => \A d \in calls' : d.kind = "me" => d.bearer = stored
         /\ ~abandoned => /\ \A d \in calls' : d.kind = "logout" => d.heard
                          /\ (\A d \in calls' : d.kind # "logout")
                               => \A d \in calls : d.kind # "logout"
<1>1. IsCall(c) /\ (c.kind = "me" => c.heard) BY DEF IInv, CallInv
<1>2. /\ \A d \in calls' : (d \in calls /\ d # c) \/ BackWith(d, c, ok, answer)
      /\ \A d \in calls : d # c => d \in calls'
      /\ c.heard /\ c.kind \in {"me", "logout"} => \E d \in calls' : d.kind = c.kind
  BY <1>1, ReturnedCalls
<1>3. Settled' => Settled BY <1>1, <1>2 DEF Settled
<1>4. ~effectDue => \A d \in calls' : d.kind = "me" => d.bearer = stored
  BY <1>2 DEF IInv, TabInv, BackWith
<1>5. ASSUME ~abandoned
      PROVE  /\ \A d \in calls' : d.kind = "logout" => d.heard
             /\ (\A d \in calls' : d.kind # "logout") => \A d \in calls : d.kind # "logout"
  <2>1. \A d \in calls : d.kind = "logout" => d.heard BY <1>5 DEF IInv, LiveInv
  <2> QED BY <1>2, <2>1 DEF BackWith
<1> QED BY <1>2, <1>3, <1>4, <1>5

\* A call that is answered, refused or lost without an effect on the tokens.
LEMMA AnsweredIInv ==
  ASSUME IInv, NEW c \in calls, ~c.returned, NEW ok, NEW answer,
         calls' = Returned(c, ok, answer),
         UNCHANGED <<stored, token, account, loading, effectDue, abandoned, sessions, owner>>,
         accounts \subseteq accounts',
         c.kind \in Auth => ~ok,
         c.kind = "me" /\ ok => c.bearer \in DOMAIN sessions /\ answer = sessions[c.bearer]
  PROVE  IInv'
<1>1. CallInv(c) BY DEF IInv
<1>2. /\ \A d \in calls' : (d \in calls /\ d # c) \/ BackWith(d, c, ok, answer)
      /\ Settled' => Settled
      /\ ~effectDue => \A d \in calls' : d.kind = "me" => d.bearer = stored
      /\ ~abandoned => /\ \A d \in calls' : d.kind = "logout" => d.heard
                       /\ (\A d \in calls' : d.kind # "logout")
                            => \A d \in calls : d.kind # "logout"
  BY ReturnKeeps
<1>3. ASSUME NEW d \in calls' PROVE CallInv(d)'
  <2>1. CASE d \in calls BY <2>1 DEF IInv, CallInv, IsCall
  <2>2. CASE BackWith(d, c, ok, answer)
    <3>1. c.kind \notin Auth BY <2>2 DEF BackWith, Auth
    <3>2. d.ok /\ d.kind = "me" => d.answer = owner[d.bearer]
      BY <2>2 DEF BackWith, IInv, TokensInv
    <3> QED BY <1>1, <2>2, <3>1, <3>2 DEF CallInv, IsCall, BackWith
  <2> QED BY <1>2, <2>1, <2>2
<1>4. TokensInv' BY DEF IInv, TokensInv
<1>5. NewTokenInv'
  <2>1. \A d \in calls' : \/ d \in calls
                          \/ d.kind \notin Auth /\ d.bearer = c.bearer
    BY <1>2 DEF BackWith, Auth
  <2> QED BY <2>1 DEF IInv, NewTokenInv
<1>6. TabInv' BY <1>2 DEF IInv, TabInv
<1>7. LiveInv'
  <2>1. SUFFICES ASSUME ~abandoned, \A d \in calls' : d.kind # "logout"
                 PROVE  /\ Settled' /\ account # None => stored \in DOMAIN sessions
                        /\ ~effectDue => \A d \in calls' : d.kind = "me" /\ d.returned /\ d.ok
                                                         => stored \in DOMAIN sessions
    BY <1>2 DEF LiveInv
  <2>2. \A d \in calls : d.kind # "logout" BY <1>2, <2>1
  <2>3. Settled /\ account # None => stored \in DOMAIN sessions
    BY <2>1, <2>2 DEF IInv, LiveInv
  <2>4. ASSUME ~effectDue, NEW d \in calls', d.kind = "me", d.returned, d.ok
        PROVE  stored \in DOMAIN sessions
    <3>1. CASE d \in calls BY <2>1, <2>2, <2>4, <3>1 DEF IInv, LiveInv
    <3>2. CASE BackWith(d, c, ok, answer)
      <4>1. d.bearer \in DOMAIN sessions BY <2>4, <3>2 DEF BackWith
      <4> QED BY <1>2, <2>4, <4>1
    <3> QED BY <1>2, <3>1, <3>2
  <2> QED BY <1>2, <2>3, <2>4
<1> QED BY <1>3, <1>4, <1>5, <1>6, <1>7 DEF IInv

\* A session is made, and perhaps its token sent to the tab.
LEMMA IssuedIInv ==
  ASSUME IInv, NEW c \in calls, ~c.returned, c.kind \in Auth, NEW ok, NEW answer,
         calls' = Returned(c, ok, answer), ok => answer = NewToken,
         UNCHANGED <<stored, token, account, loading, effectDue, abandoned>>,
         InsertSession(c.email), accounts' = accounts \cup {c.email}
  PROVE  IInv'
<1> DEFINE t == NewToken
<1>1. CallInv(c) BY DEF IInv
<1>2. /\ \A d \in calls' : (d \in calls /\ d # c) \/ BackWith(d, c, ok, answer)
      /\ Settled' => Settled
      /\ ~effectDue => \A d \in calls' : d.kind = "me" => d.bearer = stored
      /\ ~abandoned => /\ \A d \in calls' : d.kind = "logout" => d.heard
                       /\ (\A d \in calls' : d.kind # "logout")
                            => \A d \in calls : d.kind # "logout"
  BY ReturnKeeps
<1>3. /\ t \in Nat /\ t \notin DOMAIN owner /\ t \notin DOMAIN sessions
      /\ t # None /\ t # stored
  BY FreshToken, AccountsAssumption DEF IInv, TokensInv, TabInv
<1>4. /\ sessions' = With(sessions, t, c.email) /\ owner' = With(owner, t, c.email)
  BY DEF InsertSession
<1> HIDE DEF t
<1>5. /\ DOMAIN owner' = DOMAIN owner \cup {t} /\ DOMAIN sessions' = DOMAIN sessions \cup {t}
      /\ owner'[t] = c.email /\ sessions'[t] = c.email
      /\ \A x \in DOMAIN owner : owner'[x] = owner[x]
      /\ \A x \in DOMAIN sessions : sessions'[x] = sessions[x]
  BY <1>3, <1>4 DEF With
<1>6. \A d \in calls' : BackWith(d, c, ok, answer) => d.answer = t /\ d.kind \in Auth /\ d.bearer = None
  BY <1>1 DEF BackWith, CallInv, Auth, t
<1>7. ASSUME NEW d \in calls' PROVE CallInv(d)'
  <2>1. CASE d \in calls
    <3>1. CallInv(d) BY <2>1 DEF IInv
    <3>2. d.returned /\ d.kind \in Auth => d.answer \in DOMAIN owner' /\ owner'[d.answer] = d.email
      BY <1>5, <3>1 DEF CallInv
    <3>3. d.returned /\ d.ok /\ d.kind = "me" => d.answer = owner'[d.bearer]
      BY <1>5, <3>1 DEF CallInv, Auth
    <3>4. d.kind \notin Auth => d.bearer \in DOMAIN owner' BY <1>5, <3>1 DEF CallInv
    <3> QED BY <3>1, <3>2, <3>3, <3>4 DEF CallInv
  <2>2. CASE BackWith(d, c, ok, answer)
    BY <1>1, <1>5, <1>6, <2>2 DEF BackWith, CallInv, IsCall, Auth
  <2> QED BY <1>2, <2>1, <2>2
<1>8. TokensInv'
  <2> DEFINE n == Cardinality(DOMAIN owner)
  <2>1. n \in Nat /\ DOMAIN owner = 1..n /\ t = n + 1 BY DEF IInv, TokensInv, NewToken, t
  <2> HIDE DEF n
  <2>2. DOMAIN owner' = 1..(n + 1) BY <1>5, <2>1
  <2>3. Cardinality(1..(n + 1)) = n + 1 BY <2>1, FS_Interval
  <2>4. Cardinality(DOMAIN owner') = n + 1 BY <2>2, <2>3
  <2>5. /\ \A x \in DOMAIN owner' : owner'[x] \in accounts'
        /\ DOMAIN sessions' \subseteq DOMAIN owner'
        /\ \A x \in DOMAIN sessions' : sessions'[x] = owner'[x]
    BY <1>5 DEF IInv, TokensInv
  <2> QED BY <2>1, <2>2, <2>4, <2>5 DEF TokensInv
<1>9. NewTokenInv'
  <2>1. \A d \in calls : d.bearer # t
    BY <1>3 DEF IInv, CallInv, TokensInv
  <2>2. \A d \in calls : d.returned /\ d.kind \in Auth => d.answer # t
    BY <1>3 DEF IInv, CallInv
  <2>3. \A d, e \in calls' : BackWith(d, c, ok, answer) /\ BackWith(e, c, ok, answer) => d = e
    <3> TAKE d, e \in calls'
    <3> HAVE BackWith(d, c, ok, answer) /\ BackWith(e, c, ok, answer)
    <3>1. /\ d.id = e.id /\ d.kind = e.kind /\ d.email = e.email /\ d.bearer = e.bearer
          /\ d.answer = e.answer /\ d.ok = e.ok /\ d.returned = e.returned /\ d.heard = e.heard
      BY DEF BackWith
    <3>2. /\ d = [id |-> d.id, kind |-> d.kind, email |-> d.email, bearer |-> d.bearer,
                  answer |-> d.answer, ok |-> d.ok, returned |-> d.returned, heard |-> d.heard]
          /\ e = [id |-> e.id, kind |-> e.kind, email |-> e.email, bearer |-> e.bearer,
                  answer |-> e.answer, ok |-> e.ok, returned |-> e.returned, heard |-> e.heard]
      BY DEF BackWith, IsCall
    <3> QED BY <3>1, <3>2
  <2>4. SUFFICES ASSUME NEW d \in calls', d.returned, d.kind \in Auth
                 PROVE  /\ d.answer \in DOMAIN sessions' /\ d.answer # stored
                        /\ \A e \in calls' : /\ e.bearer # d.answer
                                             /\ e.returned /\ e.kind \in Auth /\ e # d
                                                  => e.answer # d.answer
    BY DEF NewTokenInv
  <2>5. CASE d \in calls
    <3>1. /\ d.answer \in DOMAIN sessions /\ d.answer # stored /\ d.answer # t
          /\ d.answer # None
          /\ \A e \in calls : /\ e.bearer # d.answer
                              /\ e.returned /\ e.kind \in Auth /\ e # d => e.answer # d.answer
      <4>1. d.answer \in DOMAIN owner BY <2>4, <2>5 DEF IInv, CallInv
      <4>2. d.answer # None BY <4>1, AccountsAssumption DEF IInv, TokensInv
      <4> QED BY <2>2, <2>4, <2>5, <4>2 DEF IInv, NewTokenInv
    <3> QED BY <1>2, <1>5, <1>6, <2>5, <3>1
  <2>6. CASE BackWith(d, c, ok, answer)
    <3>1. d.answer = t BY <1>6, <2>6
    <3>2. \A e \in calls' : e.bearer # t BY <1>2, <1>3, <1>6, <2>1
    <3>3. \A e \in calls' : e.returned /\ e.kind \in Auth /\ e # d => e.answer # t
      BY <1>2, <2>2, <2>3, <2>6
    <3> QED BY <1>3, <1>5, <3>1, <3>2, <3>3
  <2> QED BY <1>2, <2>5, <2>6
<1>10. TabInv'
  <2>1. stored \in DOMAIN owner => owner'[stored] = owner[stored] BY <1>5
  <2> QED BY <1>2, <1>5, <2>1 DEF IInv, TabInv
<1>11. LiveInv'
  <2>1. \A d \in calls' : d.kind = "me" => d \in calls BY <1>2, <1>6 DEF Auth
  <2> QED BY <1>2, <1>5, <2>1 DEF IInv, LiveInv
<1> QED BY <1>7, <1>8, <1>9, <1>10, <1>11 DEF IInv

\* A session is removed.
LEMMA RemovedIInv ==
  ASSUME IInv, NEW c \in calls, c.kind = "logout", NEW ok, NEW answer,
         calls' = Returned(c, ok, answer),
         UNCHANGED <<stored, token, account, loading, effectDue, abandoned, accounts, owner>>,
         sessions' = Without(sessions, c.bearer)
  PROVE  IInv'
<1>1. CallInv(c) /\ c.kind \notin Auth /\ c.kind # "me" BY DEF IInv, Auth
<1>2. /\ \A d \in calls' : (d \in calls /\ d # c) \/ BackWith(d, c, ok, answer)
      /\ Settled' => Settled
      /\ ~effectDue => \A d \in calls' : d.kind = "me" => d.bearer = stored
      /\ ~abandoned => /\ \A d \in calls' : d.kind = "logout" => d.heard
                       /\ (\A d \in calls' : d.kind # "logout")
                            => \A d \in calls : d.kind # "logout"
  BY ReturnKeeps
<1>3. ASSUME NEW d \in calls' PROVE CallInv(d)'
  <2>1. CASE d \in calls BY <2>1 DEF IInv, CallInv
  <2>2. CASE BackWith(d, c, ok, answer)
    BY <1>1, <2>2 DEF CallInv, BackWith
  <2> QED BY <1>2, <2>1, <2>2
<1>4. /\ DOMAIN sessions' = DOMAIN sessions \ {c.bearer}
      /\ \A t \in DOMAIN sessions' : sessions'[t] = sessions[t]
  BY DEF Without
<1>5. TokensInv' BY <1>4 DEF IInv, TokensInv
<1>6. NewTokenInv'
  <2>1. \A d \in calls' : \/ d \in calls
                          \/ d.kind \notin Auth /\ d.bearer = c.bearer
    BY <1>1, <1>2 DEF BackWith
  <2>2. \A d \in calls : d.returned /\ d.kind \in Auth => d.answer \in DOMAIN sessions'
    BY <1>4 DEF IInv, NewTokenInv
  <2> QED BY <2>1, <2>2 DEF IInv, NewTokenInv
<1>7. TabInv' BY <1>2 DEF IInv, TabInv
<1>8. LiveInv' BY <1>2 DEF LiveInv
<1> QED BY <1>3, <1>5, <1>6, <1>7, <1>8 DEF IInv

LEMMA HandledIInv ==
  ASSUME IInv, NEW c \in calls, Handled(c)
  PROVE  IInv'
<1>1. CASE Signup(c) \/ Login(c)
  <2>1. /\ ~c.returned /\ c.kind \in Auth
        /\ UNCHANGED <<stored, token, account, loading, effectDue, abandoned>>
    BY <1>1 DEF Signup, Login, Pending, Auth, tab
  <2>2. CASE Refuse(c) /\ UNCHANGED server
    <3>1. /\ calls' = Returned(c, FALSE, None)
          /\ UNCHANGED <<accounts, sessions, owner>>
      BY <2>2 DEF Refuse, server
    <3>2. c.kind # "me" BY <2>1 DEF Auth
    <3> QED BY <2>1, <3>1, <3>2, AnsweredIInv
  <2>3. CASE InsertSession(c.email) /\ Answer(c, NewToken) /\ accounts' = accounts \cup {c.email}
    <3>1. CASE calls' = Returned(c, TRUE, NewToken) BY <2>1, <2>3, <3>1, IssuedIInv
    <3>2. CASE calls' = Returned(c, FALSE, None) BY <2>1, <2>3, <3>2, IssuedIInv
    <3> QED BY <2>3, <3>1, <3>2 DEF Answer
  <2>4. \/ Refuse(c) /\ UNCHANGED server
        \/ InsertSession(c.email) /\ Answer(c, NewToken) /\ accounts' = accounts \cup {c.email}
    <3>1. CASE Signup(c) BY <3>1 DEF Signup
    <3>2. CASE Login(c) BY <3>2 DEF Login
    <3> QED BY <1>1, <3>1, <3>2
  <2> QED BY <2>2, <2>3, <2>4
<1>2. CASE SignupHalf(c)
  <2>1. /\ ~c.returned /\ c.kind \in Auth /\ c.kind # "me" /\ calls' = Returned(c, FALSE, None)
        /\ UNCHANGED <<stored, token, account, loading, effectDue, abandoned, sessions, owner>>
        /\ accounts \subseteq accounts'
    BY <1>2 DEF SignupHalf, Pending, Refuse, Auth, tab
  <2> QED BY <2>1, AnsweredIInv
<1>3. CASE Me(c)
  <2>1. /\ ~c.returned /\ c.kind \notin Auth
        /\ UNCHANGED <<stored, token, account, loading, effectDue, abandoned, accounts, sessions, owner>>
    BY <1>3 DEF Me, Pending, Auth, tab, server
  <2>2. CASE calls' = Returned(c, FALSE, None) BY <2>1, <2>2, AnsweredIInv
  <2>3. CASE /\ calls' = Returned(c, TRUE, sessions[c.bearer]) /\ c.bearer \in DOMAIN sessions
    BY <2>1, <2>3, AnsweredIInv
  <2> QED BY <1>3, <2>2, <2>3 DEF Me, Answer, Refuse
<1>4. CASE Logout(c)
  <2>1. /\ c.kind = "logout"
        /\ UNCHANGED <<stored, token, account, loading, effectDue, abandoned, accounts, owner>>
        /\ sessions' = Without(sessions, c.bearer)
    BY <1>4 DEF Logout, Pending, tab
  <2>2. CASE calls' = Returned(c, TRUE, None) BY <2>1, <2>2, RemovedIInv
  <2>3. CASE calls' = Returned(c, FALSE, None) BY <2>1, <2>3, RemovedIInv
  <2> QED BY <1>4, <2>2, <2>3 DEF Logout, Answer
<1>5. CASE Lost(c)
  <2>1. /\ ~c.returned /\ calls' = Returned(c, FALSE, None)
        /\ UNCHANGED <<stored, token, account, loading, effectDue, abandoned, accounts, sessions, owner>>
    BY <1>5 DEF Lost, Refuse, tab, server
  <2> QED BY <2>1, AnsweredIInv
<1> QED BY <1>1, <1>2, <1>3, <1>4, <1>5 DEF Handled

-----------------------------------------------------------------------------
(* The tab's steps; they leave the backend alone. *)

LEMMA CallIs ==
  ASSUME NEW id, NEW kind, NEW email, NEW bearer, NEW c, c = Call(id, kind, email, bearer)
  PROVE  /\ IsCall(c) /\ c.kind = kind /\ c.email = email /\ c.bearer = bearer
         /\ ~c.returned /\ c.heard /\ ~c.ok
<1>1. /\ c = [id |-> id, kind |-> kind, email |-> email, bearer |-> bearer,
              answer |-> None, ok |-> FALSE, returned |-> FALSE, heard |-> TRUE]
  BY DEF Call
<1>2. /\ c.id = id /\ c.kind = kind /\ c.email = email /\ c.bearer = bearer /\ c.answer = None
      /\ c.ok = FALSE /\ c.returned = FALSE /\ c.heard = TRUE
  BY <1>1
<1>3. c = [id |-> c.id, kind |-> c.kind, email |-> c.email, bearer |-> c.bearer,
           answer |-> c.answer, ok |-> c.ok, returned |-> c.returned, heard |-> c.heard]
  BY <1>1, <1>2
<1> QED BY <1>2, <1>3 DEF IsCall

\* The backend's half of the invariant, when the tab only drops calls or makes
\* new ones with the token it holds.
LEMMA TabStep ==
  ASSUME IInv, UNCHANGED <<accounts, sessions, owner>>,
         \A d \in calls' : \/ d \in calls
                           \/ ~d.returned /\ CallInv(d) /\ d.bearer \in {stored, None}
  PROVE  /\ \A d \in calls' : CallInv(d)'
         /\ TokensInv'
         /\ stored' \in {stored, None} => NewTokenInv'
<1>1. \A d \in calls' : CallInv(d)' BY DEF IInv, CallInv
<1>2. TokensInv' BY DEF IInv, TokensInv
<1>3. ASSUME stored' \in {stored, None} PROVE NewTokenInv'
  <2>1. SUFFICES ASSUME NEW c \in calls', c.returned, c.kind \in Auth
                 PROVE  /\ c.answer \in DOMAIN sessions /\ c.answer # stored'
                        /\ \A d \in calls' :
                             /\ d.bearer # c.answer
                             /\ d.returned /\ d.kind \in Auth /\ d # c => d.answer # c.answer
    BY DEF NewTokenInv
  <2>2. c \in calls BY <2>1
  <2>3. c.answer # None
    <3>1. c.answer \in DOMAIN owner BY <2>1, <2>2 DEF IInv, CallInv
    <3> QED BY <3>1, AccountsAssumption DEF IInv, TokensInv
  <2>4. /\ c.answer \in DOMAIN sessions /\ c.answer # stored
        /\ \A d \in calls : /\ d.bearer # c.answer
                            /\ d.returned /\ d.kind \in Auth /\ d # c => d.answer # c.answer
    BY <2>1, <2>2 DEF IInv, NewTokenInv
  <2> QED BY <1>3, <2>3, <2>4
<1> QED BY <1>1, <1>2, <1>3

LEMMA EffectIInv == IInv /\ Effect => IInv'
<1> SUFFICES ASSUME IInv, Effect PROVE IInv' OBVIOUS
<1>1. /\ effectDue /\ ~effectDue' /\ UNCHANGED <<accounts, sessions, owner, stored, token, abandoned>>
  BY DEF Effect, server
<1>2. CASE stored = None
  <2>1. /\ account' = None /\ ~loading' /\ calls' = {c \in calls : c.kind # "me"}
    BY <1>2 DEF Effect, NoTokenEndsLoading, OlderCallsSilenced
  <2>2. (\A d \in calls' : CallInv(d)') /\ TokensInv' /\ NewTokenInv' BY <1>1, <2>1, TabStep
  <2>3. TabInv' BY <1>1, <1>2, <2>1 DEF IInv, TabInv
  <2>4. LiveInv'
    <3>1. ~abandoned => \A c \in calls : c.kind = "logout" => c.heard BY DEF IInv, LiveInv
    <3> QED BY <1>1, <2>1, <3>1 DEF LiveInv
  <2> QED BY <2>2, <2>3, <2>4 DEF IInv
<1>3. CASE stored # None
  <2> DEFINE new == Call(0, "me", None, stored)
  <2>1. /\ UNCHANGED account
        /\ calls' = {c \in calls : c.kind # "me"} \cup {new}
    BY <1>3 DEF Effect, OlderCallsSilenced
  <2>2. /\ IsCall(new) /\ new.kind = "me" /\ new.bearer = stored /\ ~new.returned /\ new.heard
    BY CallIs
  <2> HIDE DEF new
  <2>3. stored \in DOMAIN owner BY <1>3 DEF IInv, TabInv
  <2>4. CallInv(new) BY <2>2, <2>3 DEF CallInv, Auth
  <2>5. (\A d \in calls' : CallInv(d)') /\ TokensInv' /\ NewTokenInv'
    BY <1>1, <2>1, <2>2, <2>4, TabStep
  <2>6. ~Settled' BY <2>1, <2>2 DEF Settled
  <2>7. TabInv' BY <1>1, <2>1, <2>2, <2>6 DEF IInv, TabInv
  <2>8. LiveInv'
    <3>1. ~abandoned => \A c \in calls : c.kind = "logout" => c.heard BY DEF IInv, LiveInv
    <3> QED BY <1>1, <2>1, <2>2, <2>6, <3>1 DEF LiveInv
  <2> QED BY <2>5, <2>7, <2>8 DEF IInv
<1> QED BY <1>2, <1>3

\* Signing out: the token and the account go, whatever calls are dropped.
LEMMA SignedOutIInv ==
  ASSUME IInv, SignedOut, UNCHANGED <<accounts, sessions, owner, abandoned>>,
         calls' \subseteq calls
  PROVE  IInv'
<1>1. /\ stored' = None /\ token' = None /\ account' = None /\ ~loading'
      /\ ~effectDue' => ~effectDue /\ token = None
  BY DEF SignedOut, SetToken
<1>2. (\A d \in calls' : CallInv(d)') /\ TokensInv' /\ NewTokenInv' BY <1>1, TabStep
<1>3. ~effectDue' => \A c \in calls' : c.kind # "me"
  <2>1. ASSUME ~effectDue, token = None, NEW c \in calls PROVE c.kind # "me"
    <3>1. c.kind = "me" => c.bearer = None BY <2>1 DEF IInv, TabInv
    <3>2. c.kind = "me" => c.bearer \in DOMAIN owner BY DEF IInv, CallInv, Auth
    <3>3. None \notin DOMAIN owner BY AccountsAssumption DEF IInv, TokensInv
    <3> QED BY <3>1, <3>2, <3>3
  <2> QED BY <1>1, <2>1
<1>4. TabInv' BY <1>1, <1>3 DEF TabInv
<1>5. LiveInv'
  <2>1. ~abandoned => \A c \in calls : c.kind = "logout" => c.heard BY DEF IInv, LiveInv
  <2> QED BY <1>1, <1>3, <2>1 DEF LiveInv
<1> QED BY <1>2, <1>4, <1>5 DEF IInv

LEMMA ReturnsIInv ==
  ASSUME IInv, NEW c \in calls, Returns(c)
  PROVE  IInv'
<1>1. /\ c.returned /\ calls' = calls \ {c} /\ calls' \subseteq calls
      /\ UNCHANGED <<accounts, sessions, owner, abandoned>>
  BY DEF Returns, MeReturns, AuthReturns, LogoutReturns, Finish, server
<1>2. CASE SignedOut BY <1>1, <1>2, SignedOutIInv
<1>3. CASE MeReturns(c) /\ ~SignedOut
  <2>1. /\ c.kind = "me" /\ c.ok /\ account' = c.answer /\ ~loading'
        /\ UNCHANGED <<stored, token, effectDue>>
    BY <1>3 DEF MeReturns
  <2>2. c.answer = owner[c.bearer] /\ c.bearer \in DOMAIN owner
    BY <1>1, <2>1 DEF IInv, CallInv, Auth
  <2>3. None \notin DOMAIN owner BY AccountsAssumption DEF IInv, TokensInv
  <2>4. (\A d \in calls' : CallInv(d)') /\ TokensInv' /\ NewTokenInv' BY <1>1, <2>1, TabStep
  <2>5. ~effectDue => c.bearer = stored BY <2>1 DEF IInv, TabInv
  <2>6. TabInv' BY <1>1, <2>1, <2>2, <2>3, <2>5 DEF IInv, TabInv, Settled
  <2>7. LiveInv'
    <3>1. ~abandoned => \A d \in calls : d.kind = "logout" => d.heard BY DEF IInv, LiveInv
    <3>2. ASSUME ~abandoned, \A d \in calls' : d.kind # "logout", ~effectDue
          PROVE  stored \in DOMAIN sessions
      <4>1. \A d \in calls : d.kind # "logout" BY <1>1, <2>1, <3>2
      <4> QED BY <1>1, <2>1, <3>2, <4>1 DEF IInv, LiveInv
    <3> QED BY <1>1, <2>1, <3>1, <3>2 DEF LiveInv, Settled
  <2> QED BY <2>4, <2>6, <2>7 DEF IInv
<1>4. CASE AuthReturns(c)
  <2>1. /\ c.kind \in Auth /\ stored' = c.answer /\ token' = c.answer /\ account' = c.email
        /\ ~loading' /\ effectDue' = (effectDue \/ c.answer # token)
    BY <1>4 DEF AuthReturns, SetToken, Auth
  <2>2. /\ c.answer \in DOMAIN owner /\ c.answer # stored
    BY <1>1, <2>1 DEF IInv, CallInv, NewTokenInv
  <2>3. effectDue' BY <2>1, <2>2 DEF IInv, TabInv
  <2>4. (\A d \in calls' : CallInv(d)') /\ TokensInv' BY <1>1, TabStep
  <2>5. NewTokenInv'
    <3>1. \A d \in calls' : d \in calls /\ d # c BY <1>1
    <3>2. \A d \in calls' : d.returned /\ d.kind \in Auth => d.answer # c.answer
      BY <1>1, <2>1, <3>1 DEF IInv, NewTokenInv
    <3> QED BY <1>1, <2>1, <3>1, <3>2 DEF IInv, NewTokenInv
  <2>6. TabInv' BY <1>1, <2>1, <2>2, <2>3 DEF TabInv, Settled
  <2>7. LiveInv'
    <3>1. ~abandoned => \A d \in calls : d.kind = "logout" => d.heard BY DEF IInv, LiveInv
    <3> QED BY <1>1, <2>3, <3>1 DEF LiveInv, Settled
  <2> QED BY <2>4, <2>5, <2>6, <2>7 DEF IInv
<1> QED BY <1>2, <1>3, <1>4 DEF Returns, LogoutReturns, AfterLogout

LEMMA SubmitIInv ==
  ASSUME IInv, NEW kind \in Auth, NEW email, Submit(kind, email)
  PROVE  IInv'
<1> DEFINE new == Call(actions', kind, email, None)
<1>1. /\ calls' = calls \cup {new}
      /\ UNCHANGED <<stored, token, account, loading, effectDue, abandoned, accounts, sessions, owner>>
  BY DEF Submit, UserActs, server, tab
<1>2. IsCall(new) /\ new.kind = kind /\ new.bearer = None /\ ~new.returned BY CallIs
<1> HIDE DEF new
<1>3. CallInv(new) /\ new.kind # "me" /\ new.kind # "logout" BY <1>2 DEF CallInv, Auth
<1>4. (\A d \in calls' : CallInv(d)') /\ TokensInv' /\ NewTokenInv'
  BY <1>1, <1>2, <1>3, TabStep
<1>5. Settled' => Settled BY <1>1 DEF Settled
<1>6. TabInv' BY <1>1, <1>3, <1>5 DEF IInv, TabInv
<1>7. LiveInv' BY <1>1, <1>3, <1>5 DEF IInv, LiveInv
<1> QED BY <1>4, <1>6, <1>7 DEF IInv

LEMMA ClickLogoutIInv == IInv /\ ClickLogout => IInv'
<1> SUFFICES ASSUME IInv, ClickLogout PROVE IInv' OBVIOUS
<1>1. UNCHANGED <<accounts, sessions, owner, abandoned>> BY DEF ClickLogout, UserActs, server
<1>2. CASE stored = None
  <2>1. SignedOut /\ calls' \subseteq calls BY <1>2 DEF ClickLogout
  <2> QED BY <1>1, <2>1, SignedOutIInv
<1>3. CASE stored # None
  <2> DEFINE new == Call(actions', "logout", None, stored)
  <2>1. calls' = calls \cup {new} /\ UNCHANGED <<stored, token, account, loading, effectDue>>
    BY <1>3 DEF ClickLogout, tab
  <2>2. IsCall(new) /\ new.kind = "logout" /\ new.bearer = stored /\ ~new.returned /\ new.heard
    BY CallIs
  <2> HIDE DEF new
  <2>3. stored \in DOMAIN owner BY <1>3 DEF IInv, TabInv
  <2>4. CallInv(new) BY <2>2, <2>3 DEF CallInv, Auth
  <2>5. (\A d \in calls' : CallInv(d)') /\ TokensInv' /\ NewTokenInv'
    BY <1>1, <2>1, <2>2, <2>4, TabStep
  <2>6. Settled' => Settled BY <2>1 DEF Settled
  <2>7. TabInv' BY <1>1, <2>1, <2>2, <2>6 DEF IInv, TabInv
  <2>8. LiveInv' BY <1>1, <2>1, <2>2 DEF IInv, LiveInv
  <2> QED BY <2>5, <2>7, <2>8 DEF IInv
<1> QED BY <1>2, <1>3

LEMMA LoadPageIInv == IInv /\ LoadPage => IInv'
<1> SUFFICES ASSUME IInv, LoadPage PROVE IInv' OBVIOUS
<1>1. /\ effectDue' /\ token' = stored
      /\ calls' = {[c EXCEPT !.heard = FALSE] : c \in {d \in calls : ~d.returned /\ d.kind # "me"}}
      /\ abandoned' = (abandoned \/ \E c \in calls : c.kind = "logout" /\ ~c.returned)
      /\ UNCHANGED <<accounts, sessions, owner, stored>>
  BY DEF LoadPage, UserActs, server
<1>2. ASSUME NEW d \in calls'
      PROVE  ~d.returned /\ CallInv(d) /\ d.kind # "me" /\ (d.kind = "logout" => abandoned')
             /\ \E c \in calls : d.kind = c.kind /\ d.bearer = c.bearer /\ ~c.returned
  <2>1. PICK c \in calls : ~c.returned /\ c.kind # "me" /\ d = [c EXCEPT !.heard = FALSE]
    BY <1>1
  <2>2. CallInv(c) BY DEF IInv
  <2>3. d = [id |-> c.id, kind |-> c.kind, email |-> c.email, bearer |-> c.bearer,
             answer |-> c.answer, ok |-> c.ok, returned |-> c.returned, heard |-> FALSE]
    BY <2>1, <2>2, Unheard DEF CallInv
  <2>4. /\ d.id = c.id /\ d.kind = c.kind /\ d.email = c.email /\ d.bearer = c.bearer
        /\ d.answer = c.answer /\ d.ok = c.ok /\ d.returned = c.returned /\ d.heard = FALSE
    BY <2>3
  <2>5. IsCall(d) BY <2>3, <2>4 DEF IsCall
  <2>6. CallInv(d) BY <2>1, <2>2, <2>4, <2>5 DEF CallInv
  <2> QED BY <1>1, <2>1, <2>4, <2>6
<1>3. \A d \in calls' : CallInv(d)' BY <1>1, <1>2 DEF CallInv
<1>4. TokensInv' BY <1>1 DEF IInv, TokensInv
<1>5. NewTokenInv' BY <1>2 DEF NewTokenInv
<1>6. TabInv' BY <1>1 DEF IInv, TabInv, Settled
<1>7. LiveInv' BY <1>1, <1>2 DEF LiveInv, Settled
<1> QED BY <1>3, <1>4, <1>5, <1>6, <1>7 DEF IInv

-----------------------------------------------------------------------------
LEMMA InitIInv == Init => IInv
<1> SUFFICES ASSUME Init PROVE IInv OBVIOUS
<1>1. DOMAIN <<>> = {} /\ DOMAIN owner = {} /\ DOMAIN sessions = {} BY DEF Init
<1>2. Cardinality({}) = 0 /\ 1..0 = {} BY FS_EmptySet
<1>3. TokensInv BY <1>1, <1>2 DEF TokensInv
<1>4. calls = {} /\ effectDue /\ token = stored /\ stored = None BY DEF Init
<1> QED BY <1>3, <1>4 DEF IInv, NewTokenInv, TabInv, LiveInv, Settled

LEMMA NextIInv == IInv /\ [Next]_vars => IInv'
<1> SUFFICES ASSUME IInv, [Next]_vars PROVE IInv' OBVIOUS
<1>1. CASE \E c \in calls : Handled(c) \/ Returns(c) BY <1>1, HandledIInv, ReturnsIInv
<1>2. CASE Effect BY <1>2, EffectIInv
<1>3. CASE ClickLogout BY <1>3, ClickLogoutIInv
<1>4. CASE LoadPage BY <1>4, LoadPageIInv
<1>5. CASE \E kind \in {"signup", "login"}, e \in Emails : Submit(kind, e)
  BY <1>5, SubmitIInv DEF Auth
<1>6. CASE UNCHANGED vars
  <2>1. UNCHANGED <<accounts, sessions, owner, stored, token, account, loading, effectDue, calls,
                    abandoned>>
    BY <1>6 DEF vars, server, tab
  <2> QED BY <2>1 DEF IInv, CallInv, TokensInv, NewTokenInv, TabInv, LiveInv, Settled
<1> QED BY <1>1, <1>2, <1>3, <1>4, <1>5, <1>6 DEF Next

\* The inductive invariant holds of every behaviour.
THEOREM Invariance == Spec => []IInv
<1>1. Init => IInv BY InitIInv
<1>2. IInv /\ [Next]_vars => IInv' BY NextIInv
<1> QED BY <1>1, <1>2, PTL DEF Spec

\* Whatever answers came late, twice or not at all, a settled tab shows the
\* account its stored token was issued to, or nobody, and every session belongs
\* to an account that exists (useAuth.ts effect, onSuccess, logout; main.rs
\* signup).
THEOREM SettledTab == Spec => []SettledTabIsConsistent
<1>1. IInv => SettledTabIsConsistent
  BY DEF IInv, TokensInv, TabInv, SettledTabIsConsistent
<1> QED BY <1>1, Invariance, PTL

\* A settled tab shows an account only with a session the backend still knows,
\* unless the page was left before its logout came back (useAuth.ts logout and
\* effect; main.rs logout, me).
THEOREM LiveSession == Spec => []ShownSessionIsLive
<1>1. IInv => ShownSessionIsLive BY DEF IInv, LiveInv, ShownSessionIsLive
<1> QED BY <1>1, Invariance, PTL

=============================================================================
