------------------------------- MODULE Accounts -------------------------------
(***************************************************************************)
(* Accounts and sessions: signup, login, me and logout of the backend      *)
(* (server/spnr-server main.rs, db.rs), and the browser tab that uses them *)
(* (web/src/lib/useAuth.ts, with the pages that call it).                  *)
(*                                                                         *)
(* The backend's handlers run one at a time under the state's mutex.  The  *)
(* tab's code runs to its next await; calls are answered late and in any   *)
(* order, or lost before or after they took effect; a page load forgets    *)
(* everything but the stored token.  An effect of React runs some time     *)
(* after the change of state that caused it.                               *)
(*                                                                         *)
(* An account is its email, a token the number of its session.  A login    *)
(* with a wrong password ends like one that is lost.                       *)
(***************************************************************************)
EXTENDS Integers, FiniteSets

CONSTANTS
  Emails,
  None,          \* null
  MaxActions     \* bound: what the user does: submit, log out, load the page

ASSUME AccountsAssumption == MaxActions \in Nat /\ None \notin Emails \cup Nat

VARIABLES
  accounts,      \* table accounts
  sessions,      \* table sessions: token -> account
  stored,        \* the tab's localStorage
  token, account, loading,   \* the state of AuthProvider
  effectDue,     \* its effect on `token` is to run
  calls,         \* calls sent and not yet returned
  owner,         \* history: whom each token was issued to
  actions,
  abandoned      \* history: the page was left while a logout was under way

server == <<accounts, sessions, owner>>
tab == <<stored, token, account, loading, effectDue>>
vars == <<server, tab, calls, actions, abandoned>>

\* AuthReq, or the bearer token; `id` tells equal calls apart.  The effect's
\* call has id 0: there is one that is still listened to.
Call(id, kind, email, bearer) ==
  [id |-> id, kind |-> kind, email |-> email, bearer |-> bearer,
   answer |-> None, ok |-> FALSE, returned |-> FALSE, heard |-> TRUE]

Init ==
  /\ accounts = {} /\ sessions = <<>> /\ owner = <<>>
  /\ stored = None /\ token = None /\ account = None /\ loading = TRUE /\ effectDue = TRUE
  /\ calls = {} /\ actions = 0 /\ abandoned = FALSE

-----------------------------------------------------------------------------
(* The backend. *)
With(f, t, e) == [x \in DOMAIN f \cup {t} |-> IF x = t THEN e ELSE f[x]]
Without(f, t) == [x \in DOMAIN f \ {t} |-> f[x]]

\* What the caller sees of a call: its answer, or that it failed.  A call
\* nobody waits for is gone, and so is a form's that failed: it shows an error.
Returned(c, ok, answer) ==
  (calls \ {c}) \cup
    IF c.heard /\ (ok \/ c.kind \in {"me", "logout"})
      THEN {[c EXCEPT !.returned = TRUE, !.ok = ok, !.answer = answer]} ELSE {}
\* An answer may be lost after the call took effect.
Answer(c, answer) == calls' = Returned(c, TRUE, answer) \/ calls' = Returned(c, FALSE, None)
Refuse(c) == calls' = Returned(c, FALSE, None)

Pending(c, kind) == c \in calls /\ ~c.returned /\ c.kind = kind
NewToken == Cardinality(DOMAIN owner) + 1
InsertSession(email) ==
  /\ sessions' = With(sessions, NewToken, email)
  /\ owner' = With(owner, NewToken, email)

Signup(c) ==
  /\ Pending(c, "signup")
  /\ IF c.email \in accounts THEN Refuse(c) /\ UNCHANGED server
     ELSE /\ accounts' = accounts \cup {c.email}
          /\ InsertSession(c.email)
          /\ Answer(c, NewToken)
  /\ UNCHANGED <<tab, actions, abandoned>>
\* A crash or a failed statement between the two inserts.
SignupHalf(c) ==
  /\ Pending(c, "signup") /\ c.email \notin accounts
  /\ accounts' = accounts \cup {c.email}
  /\ Refuse(c)
  /\ UNCHANGED <<sessions, owner, tab, actions, abandoned>>
Login(c) ==
  /\ Pending(c, "login")
  /\ IF c.email \notin accounts THEN Refuse(c) /\ UNCHANGED server
     ELSE InsertSession(c.email) /\ Answer(c, NewToken) /\ UNCHANGED accounts
  /\ UNCHANGED <<tab, actions, abandoned>>
Me(c) ==
  /\ Pending(c, "me")
  /\ IF c.bearer \in DOMAIN sessions /\ sessions[c.bearer] \in accounts
       THEN Answer(c, sessions[c.bearer]) ELSE Refuse(c)
  /\ UNCHANGED <<server, tab, actions, abandoned>>
Logout(c) ==
  /\ Pending(c, "logout")
  /\ sessions' = Without(sessions, c.bearer)
  /\ Answer(c, None)
  /\ UNCHANGED <<accounts, owner, tab, actions, abandoned>>
\* The call does not arrive, or a statement of its handler fails.
Lost(c) ==
  /\ c \in calls /\ ~c.returned
  /\ Refuse(c)
  /\ UNCHANGED <<server, tab, actions, abandoned>>

Handled(c) == Signup(c) \/ SignupHalf(c) \/ Login(c) \/ Me(c) \/ Logout(c) \/ Lost(c)

-----------------------------------------------------------------------------
(* The tab. *)
SetToken(t) == token' = t /\ effectDue' = (effectDue \/ t # token)

\* The effect on mount and on every change of the token; its cleanup silences
\* the call of the effect before it.
Bug_NoTokenKeepsLoading == UNCHANGED loading
NoTokenEndsLoading == loading' = FALSE
Bug_OlderCallsHeard == calls
OlderCallsSilenced == {c \in calls : c.kind # "me"}
Effect ==
  /\ effectDue /\ effectDue' = FALSE
  /\ IF stored = None
       THEN account' = None /\ NoTokenEndsLoading /\ calls' = OlderCallsSilenced
       ELSE /\ loading' = TRUE /\ UNCHANGED account
            /\ calls' = OlderCallsSilenced \cup {Call(0, "me", None, stored)}
  /\ UNCHANGED <<server, stored, token, actions, abandoned>>

SignedOut ==
  /\ stored' = None /\ SetToken(None) /\ account' = None /\ loading' = FALSE

Finish(c) == c \in calls /\ c.returned /\ calls' = calls \ {c}
MeReturns(c) ==
  /\ c.kind = "me" /\ Finish(c)
  /\ IF c.ok THEN account' = c.answer /\ loading' = FALSE /\ UNCHANGED <<stored, token, effectDue>>
     ELSE SignedOut
  /\ UNCHANGED <<server, actions, abandoned>>
\* onSuccess.
AuthReturns(c) ==
  /\ c.kind \in {"signup", "login"} /\ Finish(c)
  /\ stored' = c.answer /\ SetToken(c.answer)
  /\ account' = c.email /\ loading' = FALSE
  /\ UNCHANGED <<server, actions, abandoned>>
\* Local state is dropped whatever the backend said.
Bug_KeptOnError(c) == IF c.ok THEN SignedOut ELSE UNCHANGED tab
AfterLogout(c) == SignedOut
LogoutReturns(c) ==
  /\ c.kind = "logout" /\ Finish(c)
  /\ AfterLogout(c)
  /\ UNCHANGED <<server, actions, abandoned>>
Returns(c) == MeReturns(c) \/ AuthReturns(c) \/ LogoutReturns(c)

\* The user.  The form is on the page unless somebody is signed in, the button
\* to sign out only when somebody is.
UserActs == actions < MaxActions /\ actions' = actions + 1 /\ UNCHANGED server
Submit(kind, email) ==
  /\ UserActs
  /\ loading \/ account = None
  /\ calls' = calls \cup {Call(actions', kind, email, None)}
  /\ UNCHANGED <<tab, abandoned>>
ClickLogout ==
  /\ UserActs
  /\ ~loading /\ account # None
  /\ IF stored = None THEN SignedOut /\ UNCHANGED calls
     ELSE calls' = calls \cup {Call(actions', "logout", None, stored)} /\ UNCHANGED tab
  /\ UNCHANGED abandoned
LoadPage ==
  /\ UserActs
  /\ token' = stored /\ account' = None /\ loading' = TRUE /\ effectDue' = TRUE
  /\ calls' = {[c EXCEPT !.heard = FALSE] : c \in {d \in calls : ~d.returned /\ d.kind # "me"}}
  /\ abandoned' = (abandoned \/ \E c \in calls : c.kind = "logout" /\ ~c.returned)
  /\ UNCHANGED stored

Next ==
  \/ \E c \in calls : Handled(c) \/ Returns(c)
  \/ Effect \/ ClickLogout \/ LoadPage
  \/ \E kind \in {"signup", "login"}, e \in Emails : Submit(kind, e)

\* React runs a due effect, and every call ends, if only by a network error.
CallGoesOn(i) == \E c \in calls : c.id = i /\ (Handled(c) \/ Returns(c))
Fairness == WF_vars(Effect) /\ \A i \in 0..MaxActions : WF_vars(CallGoesOn(i))
Spec == Init /\ [][Next]_vars /\ Fairness

-----------------------------------------------------------------------------
(* PROPERTIES *)

Settled == ~effectDue /\ \A c \in calls : c.kind # "me"

\* Once the tab has settled, whatever answers came late, twice or not at all, it
\* shows the account that its stored token was issued to, or nobody; every
\* session belongs to an account that exists, also after half a signup
\* (useAuth.ts effect, onSuccess, logout; main.rs signup).
SettledTabIsConsistent ==
  /\ Settled => /\ ~loading /\ token = stored
                /\ account = IF stored = None THEN None ELSE owner[stored]
  /\ \A t \in DOMAIN sessions : sessions[t] \in accounts

\* A settled tab shows an account only with a session the backend still knows,
\* unless the page was left before its logout came back (useAuth.ts logout and
\* effect; main.rs logout, me).
ShownSessionIsLive ==
  /\ Settled /\ account # None
  /\ ~abandoned /\ \A c \in calls : c.kind # "logout"
  => stored \in DOMAIN sessions

\* The checking screen goes away (RequireAuth.tsx waits on `loading`).
LoadingEnds == loading ~> ~loading
=============================================================================
