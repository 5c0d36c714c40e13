----------------------------- MODULE MobileSession -----------------------------
(***************************************************************************)
(* AuthState of the mobile app: the session in memory, the token in the    *)
(* secure store, and the requests that outlive either.  Every login is     *)
(* taken to be another account's, the worst case, so a number stands for a *)
(* login, its token and its user alike, and NoToken for the lack of one.  The *)
(* store's operations end in the order they were called, and those that    *)
(* have not ended are lost when the app is killed.                         *)
(***************************************************************************)
EXTENDS Integers, SequencesExt

CONSTANTS Requests,      \* requests that may be in flight
          MaxLogins      \* logins are explored up to this many

NoToken == 0

VARIABLES mosStored,             \* the token in the secure store
          mosToken, mosUser,     \* _token and _user
          mosPhase,              \* of restoreSession
          mosStoring,            \* the store's operations under way
          mosCall,               \* requests in flight
          mosLogins, mosExpired, \* the tokens issued, and those that are refused by now
          mosEnded,              \* the sessions that were logged out of
          mosCauses              \* why memory, store and logouts may disagree

mosVars == <<mosStored, mosToken, mosUser, mosPhase, mosStoring, mosCall, mosLogins, mosExpired, mosEnded, mosCauses>>

NotSent == [kind |-> "none", token |-> NoToken]

\* One of the store's operations: to write a token, or NoToken to clear it.
Store(token) == mosStoring' = Append(mosStoring, token)

ClearsPending == NoToken \in ToSet(mosStoring)

-----------------------------------------------------------------------------
(* restoreSession.  The router stays on its splash screen meanwhile.       *)

ReadToken ==
    /\ mosPhase = "reading"
    /\ mosToken' = mosStored
    /\ mosPhase' = IF mosStored = NoToken THEN "ready" ELSE "validating"
    /\ UNCHANGED <<mosStored, mosUser, mosStoring, mosCall, mosLogins, mosExpired, mosEnded, mosCauses>>

CurrentUser ==
    /\ mosPhase = "validating" /\ mosToken \notin mosExpired
    /\ mosUser' = mosToken
    /\ mosPhase' = "ready"
    /\ UNCHANGED <<mosStored, mosToken, mosStoring, mosCall, mosLogins, mosExpired, mosEnded, mosCauses>>

\* Refused, or no answer: in both cases the token is given up.
CurrentUserFails ==
    /\ mosPhase = "validating"
    /\ mosToken' = NoToken /\ mosUser' = NoToken
    /\ Store(NoToken)
    /\ mosPhase' = "clearing"
    /\ UNCHANGED <<mosStored, mosCall, mosLogins, mosExpired, mosEnded, mosCauses>>

-----------------------------------------------------------------------------
(* Signing in, or registering.  The screens can be left, and opened again, *)
(* with a request in flight.                                               *)

SignIn(r) ==
    /\ mosPhase = "ready" /\ mosToken = NoToken /\ mosCall[r] = NotSent
    /\ mosCall' = [mosCall EXCEPT ![r] = [kind |-> "signIn", token |-> NoToken]]
    /\ UNCHANGED <<mosStored, mosToken, mosUser, mosPhase, mosStoring, mosLogins, mosExpired, mosEnded, mosCauses>>

\* _acceptSession: the token is stored first.
AcceptSession(r) ==
    /\ mosCall[r].kind = "signIn" /\ mosLogins < MaxLogins
    /\ mosLogins' = mosLogins + 1
    /\ Store(mosLogins')
    /\ mosCall' = [mosCall EXCEPT ![r] = NotSent]
    /\ UNCHANGED <<mosStored, mosToken, mosUser, mosPhase, mosExpired, mosEnded, mosCauses>>

\* A write that ends goes on to set the session; a clear that ends only tells
\* the listeners.
StoreEnds ==
    /\ mosStoring # <<>>
    /\ mosStored' = Head(mosStoring)
    /\ mosStoring' = Tail(mosStoring)
    /\ IF Head(mosStoring) = NoToken
       THEN /\ mosPhase' = "ready"
            /\ UNCHANGED <<mosToken, mosUser, mosCauses>>
       ELSE /\ mosToken' = Head(mosStoring) /\ mosUser' = Head(mosStoring)
            /\ mosCauses' = IF NoToken \in ToSet(mosStoring') THEN {"crossed"} ELSE {}
            /\ UNCHANGED mosPhase
    /\ UNCHANGED <<mosCall, mosLogins, mosExpired, mosEnded>>

-----------------------------------------------------------------------------
(* Requests of the session, and its end.                                   *)

\* updateProfile, or any other request that carries the token.
Send(r, kind) ==
    /\ mosPhase = "ready" /\ mosToken # NoToken /\ mosCall[r] = NotSent
    /\ mosCall' = [mosCall EXCEPT ![r] = [kind |-> kind, token |-> mosToken]]
    /\ UNCHANGED <<mosStored, mosToken, mosUser, mosPhase, mosStoring, mosLogins, mosExpired, mosEnded, mosCauses>>

\* updateProfile takes the user it is answered with, whoever is signed in.
RequestSucceeds(r) ==
    /\ mosCall[r].kind \in {"profile", "other"} /\ mosCall[r].token \notin mosExpired
    /\ IF mosCall[r].kind = "profile"
       THEN /\ mosUser' = mosCall[r].token
            /\ mosCauses' = IF mosCall[r].token = mosToken THEN mosCauses ELSE mosCauses \cup {"outlived"}
       ELSE UNCHANGED <<mosUser, mosCauses>>
    /\ mosCall' = [mosCall EXCEPT ![r] = NotSent]
    /\ UNCHANGED <<mosStored, mosToken, mosPhase, mosStoring, mosLogins, mosExpired, mosEnded>>

\* Mutant of EndSession: the token stays in the store.
EndSessionInMemory ==
    /\ mosToken' = NoToken /\ mosUser' = NoToken
    /\ mosEnded' = mosEnded \cup ({mosToken} \ {NoToken})
    /\ UNCHANGED mosStoring

\* logout
EndSession ==
    /\ mosToken' = NoToken /\ mosUser' = NoToken
    /\ mosEnded' = mosEnded \cup ({mosToken} \ {NoToken})
    /\ IF mosToken = NoToken /\ mosUser = NoToken THEN UNCHANGED mosStoring ELSE Store(NoToken)

\* A 401 ends the session, though it need not be the request's own.
RequestRefused(r) ==
    /\ mosCall[r].kind \in {"profile", "other"} /\ mosCall[r].token \in mosExpired
    /\ EndSession
    /\ mosCall' = [mosCall EXCEPT ![r] = NotSent]
    /\ UNCHANGED <<mosStored, mosPhase, mosLogins, mosExpired, mosCauses>>

NoAnswer(r) ==
    /\ mosCall[r] # NotSent
    /\ mosCall' = [mosCall EXCEPT ![r] = NotSent]
    /\ UNCHANGED <<mosStored, mosToken, mosUser, mosPhase, mosStoring, mosLogins, mosExpired, mosEnded, mosCauses>>

LogOut ==
    /\ mosPhase = "ready" /\ mosToken # NoToken
    /\ EndSession
    /\ UNCHANGED <<mosStored, mosPhase, mosCall, mosLogins, mosExpired, mosCauses>>

Expire(token) ==
    /\ mosExpired' = mosExpired \cup {token}
    /\ UNCHANGED <<mosStored, mosToken, mosUser, mosPhase, mosStoring, mosCall, mosLogins, mosEnded, mosCauses>>

\* The app is killed and started again.
Restart ==
    /\ mosPhase' = "reading"
    /\ mosToken' = NoToken /\ mosUser' = NoToken
    /\ mosStoring' = <<>> /\ mosCall' = [r \in Requests |-> NotSent]
    /\ mosCauses' = IF ClearsPending THEN {"killed"} ELSE mosCauses \cap {"killed"}
    /\ UNCHANGED <<mosStored, mosLogins, mosExpired, mosEnded>>

-----------------------------------------------------------------------------

MobileSessionInit ==
    /\ mosStored = NoToken /\ mosToken = NoToken /\ mosUser = NoToken
    /\ mosPhase = "reading"
    /\ mosStoring = <<>> /\ mosCall = [r \in Requests |-> NotSent]
    /\ mosLogins = 0 /\ mosExpired = {} /\ mosEnded = {} /\ mosCauses = {}

MobileSessionNext ==
    \/ ReadToken \/ CurrentUser \/ CurrentUserFails \/ StoreEnds \/ LogOut \/ Restart
    \/ \E r \in Requests : \/ SignIn(r) \/ AcceptSession(r) \/ RequestSucceeds(r)
                           \/ RequestRefused(r) \/ NoAnswer(r)
                           \/ \E kind \in {"profile", "other"} : Send(r, kind)
    \/ \E token \in (1 .. mosLogins) \ mosExpired : Expire(token)

MobileSessionSpec == MobileSessionInit /\ [][MobileSessionNext]_mosVars

-----------------------------------------------------------------------------
(* Properties.                                                             *)

\* Once the app has started and the store is done, the token in memory is the
\* stored one, the user is its owner, and nobody has logged out of it; unless
\* since the last sign-in the profile of a session that was over arrived, a
\* sign-in ended between a logout and its clear, or the app was killed before
\* a logout's clear had ended.
SessionIsWhole ==
    mosPhase = "ready" /\ mosStoring = <<>> /\ mosCauses = {} =>
        mosStored = mosToken /\ mosUser = mosToken /\ mosToken \notin mosEnded

=============================================================================
