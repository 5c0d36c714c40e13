------------------------------ MODULE WebSession ------------------------------
(***************************************************************************)
(* AuthProvider and tokenStorage of the web client, in browser tabs that   *)
(* share one localStorage.  Every request carries the token that get()     *)
(* finds when it is sent; the user is the tab's own state, and nothing     *)
(* compares the two.  Every login is taken to be another account's, so a   *)
(* number stands for a login, its token and its user, and NoLogin for none.   *)
(***************************************************************************)
EXTENDS Integers

CONSTANTS Tabs,
          MaxIssued      \* tokens are issued up to this many

NoLogin == 0

VARIABLES webLocal,      \* the token in localStorage
          webSession,    \* the token in each tab's sessionStorage
          webUser,       \* each tab's user
          webRestore,    \* the token of a page load's request for the user
          webCall,       \* one other request in flight in each tab
          webIssued,     \* the tokens issued so far
          webCauses      \* why a tab's user may not be its token's

webVars == <<webLocal, webSession, webUser, webRestore, webCall, webIssued, webCauses>>

\* remember: of a login; token: of a request that carries one.
NotAsking == [kind |-> "none", remember |-> FALSE, token |-> NoLogin]

-----------------------------------------------------------------------------
(* tokenStorage.                                                           *)

GetToken(t) == IF webLocal # NoLogin THEN webLocal ELSE webSession[t]

StoreTokens(t, local, session) ==
    /\ webLocal' = local
    /\ webSession' = [webSession EXCEPT ![t] = session]

\* Mutant of SetToken: the other storage keeps its token.
SetTokenBeside(t, token, remember) ==
    IF remember THEN StoreTokens(t, token, webSession[t]) ELSE StoreTokens(t, webLocal, token)

SetToken(t, token, remember) == IF remember THEN StoreTokens(t, token, NoLogin) ELSE StoreTokens(t, NoLogin, token)

ClearTokens(t) == StoreTokens(t, NoLogin, NoLogin)

\* This tab's causes become those given; the other tabs are not told that
\* localStorage has changed.
Causes(t, causes) ==
    webCauses' = [u \in Tabs |-> IF u = t THEN causes
                                 ELSE IF webLocal' # webLocal THEN webCauses[u] \cup {"other tab"}
                                 ELSE webCauses[u]]

CausesIf(t, unequal, cause) == Causes(t, IF unequal THEN webCauses[t] \cup {cause} ELSE {})

-----------------------------------------------------------------------------
(* A page is loaded, in a new tab or again, and asks for the user of the   *)
(* token it finds.  The login and register pages do not wait for that.     *)

Load(t, new) ==
    /\ webSession' = IF new THEN [webSession EXCEPT ![t] = NoLogin] ELSE webSession
    /\ webUser' = [webUser EXCEPT ![t] = NoLogin]
    /\ webRestore' = [webRestore EXCEPT ![t] = IF webLocal # NoLogin THEN webLocal ELSE webSession'[t]]
    /\ webCall' = [webCall EXCEPT ![t] = NotAsking]
    /\ UNCHANGED <<webLocal, webIssued>>
    /\ Causes(t, {})

Restored(t) ==
    /\ webRestore[t] # NoLogin
    /\ webUser' = [webUser EXCEPT ![t] = webRestore[t]]
    /\ webRestore' = [webRestore EXCEPT ![t] = NoLogin]
    /\ UNCHANGED <<webLocal, webSession, webCall, webIssued>>
    /\ CausesIf(t, webRestore[t] # GetToken(t), "outlived")

\* Whatever the error, the token of the moment is cleared.
RestoreFails(t) ==
    /\ webRestore[t] # NoLogin
    /\ ClearTokens(t)
    /\ webRestore' = [webRestore EXCEPT ![t] = NoLogin]
    /\ UNCHANGED <<webUser, webCall, webIssued>>
    /\ CausesIf(t, webUser[t] # NoLogin, "outlived")

-----------------------------------------------------------------------------
(* Requests, one at a time in each tab.                                    *)

\* LoginPage and RegisterPage are open to somebody who is signed in, too.
Ask(t, kind, remember) ==
    /\ webCall[t] = NotAsking /\ kind = "register" => ~remember
    /\ webCall' = [webCall EXCEPT ![t] = [kind |-> kind, remember |-> remember, token |-> NoLogin]]
    /\ UNCHANGED <<webLocal, webSession, webUser, webRestore, webIssued, webCauses>>

UpdateProfile(t) ==
    /\ webCall[t] = NotAsking /\ webUser[t] # NoLogin /\ webRestore[t] = NoLogin
    /\ webCall' = [webCall EXCEPT ![t] = [NotAsking EXCEPT !.kind = "profile", !.token = GetToken(t)]]
    /\ UNCHANGED <<webLocal, webSession, webUser, webRestore, webIssued, webCauses>>

TakesAnswer(t, kind) ==
    /\ webCall[t].kind = kind
    /\ webCall' = [webCall EXCEPT ![t] = NotAsking]

Issue == /\ webIssued < MaxIssued
         /\ webIssued' = webIssued + 1

\* loginWithResult
LoginSucceeds(t) ==
    /\ TakesAnswer(t, "login") /\ Issue
    /\ SetToken(t, webIssued', webCall[t].remember)
    /\ webUser' = [webUser EXCEPT ![t] = webIssued']
    /\ UNCHANGED webRestore
    /\ Causes(t, {})

\* RegisterPage stores the token and leaves the user as it is.
RegisterSucceeds(t) ==
    /\ TakesAnswer(t, "register") /\ Issue
    /\ StoreTokens(t, webIssued', webSession[t])
    /\ UNCHANGED <<webUser, webRestore>>
    /\ Causes(t, webCauses[t] \cup {"registered"})

\* updateUser takes the user it is answered with, whoever is signed in.  A
\* request without a token is refused.
ProfileSucceeds(t) ==
    /\ TakesAnswer(t, "profile") /\ webCall[t].token # NoLogin
    /\ webUser' = [webUser EXCEPT ![t] = webCall[t].token]
    /\ UNCHANGED <<webLocal, webSession, webRestore, webIssued>>
    /\ CausesIf(t, webCall[t].token # GetToken(t), "outlived")

RequestRejected(t) ==
    /\ webCall[t] # NotAsking
    /\ webCall' = [webCall EXCEPT ![t] = NotAsking]
    /\ UNCHANGED <<webLocal, webSession, webUser, webRestore, webIssued, webCauses>>

LogoutOfTab(t) ==
    /\ webUser[t] # NoLogin
    /\ ClearTokens(t)
    /\ webUser' = [webUser EXCEPT ![t] = NoLogin]
    /\ UNCHANGED <<webRestore, webCall, webIssued>>
    /\ Causes(t, {})

-----------------------------------------------------------------------------

WebInit ==
    /\ webLocal = NoLogin /\ webSession = [t \in Tabs |-> NoLogin]
    /\ webUser = [t \in Tabs |-> NoLogin]
    /\ webRestore = [t \in Tabs |-> NoLogin] /\ webCall = [t \in Tabs |-> NotAsking]
    /\ webIssued = 0 /\ webCauses = [t \in Tabs |-> {}]

WebNext ==
    \E t \in Tabs :
        \/ \E new \in BOOLEAN : Load(t, new)
        \/ Restored(t) \/ RestoreFails(t)
        \/ \E kind \in {"login", "register"}, remember \in BOOLEAN : Ask(t, kind, remember)
        \/ UpdateProfile(t)
        \/ LoginSucceeds(t) \/ RegisterSucceeds(t) \/ ProfileSucceeds(t) \/ RequestRejected(t)
        \/ LogoutOfTab(t)

WebSpec == WebInit /\ [][WebNext]_webVars

-----------------------------------------------------------------------------
(* Properties.                                                             *)

\* Once its page is loaded, a tab shows the user whose token its requests
\* carry; unless, since both were last set together, another tab wrote to
\* localStorage, an account was registered, or an answer outlived the session
\* it had been asked in.
UserOwnsToken ==
    \A t \in Tabs : webRestore[t] = NoLogin /\ webCauses[t] = {} => webUser[t] = GetToken(t)

=============================================================================
