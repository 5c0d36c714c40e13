------------------------------ MODULE ClientProofs -----------------------------
(***************************************************************************)
(* What holds of the clients for every number of tabs, requests, rows and  *)
(* messages: the web session, the mobile session, the assistant's          *)
(* conversation, the mobile app's cache and the workflow screens, each     *)
(* with an invariant of its own.                                           *)
(***************************************************************************)
EXTENDS MobileCache, MobileSession, WebSession, AiChat, Workflow, SequenceTheorems, TLAPS

-----------------------------------------------------------------------------
(* The web client's tabs.  A tab's user is its token's, or the tab knows a *)
(* reason why not: whatever sets one of the two alone notes a cause.       *)

TabsOK ==
    /\ webIssued \in Nat /\ webLocal \in Nat
    /\ webSession \in [Tabs -> Nat] /\ webUser \in [Tabs -> Nat] /\ webRestore \in [Tabs -> Nat]
    /\ webCall \in [Tabs -> [kind : {"none", "login", "register", "profile"}, remember : BOOLEAN, token : Nat]]
    /\ DOMAIN webCauses = Tabs

TabsInv == TabsOK /\ UserOwnsToken

OwnsToken(t) == webRestore[t] = NoLogin /\ webCauses[t] = {} => webUser[t] = GetToken(t)

\* A step of one tab is seen by another in localStorage only, and noted there.
LEMMA OtherTabsKeep ==
    ASSUME TabsInv, NEW t \in Tabs, NEW causes, Causes(t, causes), NEW u \in Tabs \ {t},
           webSession'[u] = webSession[u], webUser'[u] = webUser[u], webRestore'[u] = webRestore[u]
    PROVE  OwnsToken(u)'
<1>1. OwnsToken(u)  BY DEF TabsInv, UserOwnsToken, OwnsToken
<1>2. CASE webLocal' = webLocal
  <2>1. webCauses'[u] = webCauses[u]  BY <1>2 DEF Causes
  <2> QED  BY <1>1, <1>2, <2>1 DEF OwnsToken, GetToken
<1>3. CASE webLocal' # webLocal
  <2>1. webCauses'[u] = webCauses[u] \cup {"other tab"}  BY <1>3 DEF Causes
  <2> QED  BY <2>1 DEF OwnsToken
<1> QED  BY <1>2, <1>3

LEMMA CausesOfTab ==
    ASSUME NEW t \in Tabs, NEW causes, Causes(t, causes)
    PROVE  DOMAIN webCauses' = Tabs /\ webCauses'[t] = causes
BY DEF Causes

\* What a step of tab t is left to show: its own user, and the types.
LEMMA TabStepKeeps ==
    ASSUME TabsInv, NEW t \in Tabs, NEW causes, Causes(t, causes), OwnsToken(t)', TabsOK',
           \A u \in Tabs \ {t} : /\ webSession'[u] = webSession[u] /\ webUser'[u] = webUser[u]
                                 /\ webRestore'[u] = webRestore[u]
    PROVE  TabsInv'
<1>1. \A u \in Tabs \ {t} : OwnsToken(u)'  BY OtherTabsKeep
<1>2. \A u \in Tabs : OwnsToken(u)'  BY <1>1
<1> QED  BY <1>2 DEF TabsInv, UserOwnsToken, OwnsToken, GetToken

LEMMA LoadKeeps ==
    ASSUME TabsInv, NEW t \in Tabs, NEW new \in BOOLEAN, Load(t, new)
    PROVE  TabsInv'
<1>1. Causes(t, {}) /\ webLocal' = webLocal  BY DEF Load
<1>2. TabsOK'
  <2>1. webSession' \in [Tabs -> Nat] /\ webUser' \in [Tabs -> Nat]
    BY DEF Load, TabsInv, TabsOK, NoLogin
  <2>2. webRestore' \in [Tabs -> Nat]  BY <2>1 DEF Load, TabsInv, TabsOK
  <2>3. webCall' \in [Tabs -> [kind : {"none", "login", "register", "profile"}, remember : BOOLEAN, token : Nat]]
    BY DEF Load, TabsInv, TabsOK, NotAsking, NoLogin
  <2> QED  BY <1>1, <2>1, <2>2, <2>3, CausesOfTab DEF Load, TabsInv, TabsOK
<1>3. OwnsToken(t)'
  BY <1>1 DEF Load, TabsInv, TabsOK, OwnsToken, GetToken
<1> QED  BY <1>1, <1>2, <1>3, TabStepKeeps DEF Load, TabsInv, TabsOK

LEMMA RestoredKeeps ==
    ASSUME TabsInv, NEW t \in Tabs, Restored(t) \/ RestoreFails(t)
    PROVE  TabsInv'
<1>1. CASE Restored(t)
  <2>1. PICK causes : /\ Causes(t, causes)
                      /\ causes = {} => webRestore[t] = GetToken(t)
    BY <1>1 DEF Restored, CausesIf
  <2>2. TabsOK'  BY <1>1, <2>1, CausesOfTab DEF Restored, TabsInv, TabsOK, NoLogin
  <2>3. OwnsToken(t)'
    BY <1>1, <2>1, CausesOfTab DEF Restored, TabsInv, TabsOK, OwnsToken, GetToken
  <2> QED  BY <1>1, <2>1, <2>2, <2>3, TabStepKeeps DEF Restored, TabsInv, TabsOK
<1>2. CASE RestoreFails(t)
  <2>1. PICK causes : /\ Causes(t, causes)
                      /\ causes = {} => webUser[t] = NoLogin
    BY <1>2 DEF RestoreFails, CausesIf
  <2>2. TabsOK'
    BY <1>2, <2>1, CausesOfTab DEF RestoreFails, ClearTokens, StoreTokens, TabsInv, TabsOK, NoLogin
  <2>3. OwnsToken(t)'
    BY <1>2, <2>1, CausesOfTab DEF RestoreFails, ClearTokens, StoreTokens, TabsInv, TabsOK, OwnsToken, GetToken
  <2> QED
    BY <1>2, <2>1, <2>2, <2>3, TabStepKeeps DEF RestoreFails, ClearTokens, StoreTokens, TabsInv, TabsOK
<1> QED  BY <1>1, <1>2

\* A token issued is somebody's, and both its storage and the user are set.
LEMMA LoginKeeps ==
    ASSUME TabsInv, NEW t \in Tabs, LoginSucceeds(t)
    PROVE  TabsInv'
<1>1. /\ Causes(t, {}) /\ webIssued' \in Nat \ {0} /\ webRestore' = webRestore
      /\ webUser' = [webUser EXCEPT ![t] = webIssued'] /\ webCall' = [webCall EXCEPT ![t] = NotAsking]
  BY DEF LoginSucceeds, Issue, TabsInv, TabsOK, TakesAnswer
<1>2. \/ webLocal' = webIssued' /\ webSession' = [webSession EXCEPT ![t] = NoLogin]
      \/ webLocal' = NoLogin /\ webSession' = [webSession EXCEPT ![t] = webIssued']
  BY DEF LoginSucceeds, SetToken, StoreTokens
<1>3. TabsOK'  BY <1>1, <1>2, CausesOfTab DEF TabsInv, TabsOK, NotAsking, NoLogin
<1>4. OwnsToken(t)'
  BY <1>1, <1>2 DEF TabsInv, TabsOK, OwnsToken, GetToken, NoLogin
<1> QED  BY <1>1, <1>2, <1>3, <1>4, TabStepKeeps DEF TabsInv, TabsOK

LEMMA RegisterKeeps ==
    ASSUME TabsInv, NEW t \in Tabs, RegisterSucceeds(t)
    PROVE  TabsInv'
<1>1. PICK causes : Causes(t, causes) /\ causes # {}
  BY DEF RegisterSucceeds
<1>2. /\ webIssued' \in Nat /\ webLocal' = webIssued' /\ webSession' = [webSession EXCEPT ![t] = webSession[t]]
      /\ UNCHANGED <<webUser, webRestore>> /\ webCall' = [webCall EXCEPT ![t] = NotAsking]
  BY DEF RegisterSucceeds, Issue, TabsInv, TabsOK, TakesAnswer, StoreTokens
<1>3. TabsOK'  BY <1>1, <1>2, CausesOfTab DEF TabsInv, TabsOK, NotAsking, NoLogin
<1>4. OwnsToken(t)'  BY <1>1, CausesOfTab DEF OwnsToken
<1> QED  BY <1>1, <1>2, <1>3, <1>4, TabStepKeeps DEF TabsInv, TabsOK

LEMMA ProfileKeeps ==
    ASSUME TabsInv, NEW t \in Tabs, ProfileSucceeds(t)
    PROVE  TabsInv'
<1>1. PICK causes : /\ Causes(t, causes)
                    /\ causes = {} => webCall[t].token = GetToken(t)
  BY DEF ProfileSucceeds, CausesIf
<1>2. /\ UNCHANGED <<webLocal, webSession, webRestore, webIssued>>
      /\ webUser' = [webUser EXCEPT ![t] = webCall[t].token] /\ webCall' = [webCall EXCEPT ![t] = NotAsking]
  BY DEF ProfileSucceeds, TakesAnswer
<1>3. TabsOK'  BY <1>1, <1>2, CausesOfTab DEF TabsInv, TabsOK, NotAsking, NoLogin
<1>4. OwnsToken(t)'
  BY <1>1, <1>2, CausesOfTab DEF TabsInv, TabsOK, OwnsToken, GetToken
<1> QED  BY <1>1, <1>2, <1>3, <1>4, TabStepKeeps DEF TabsInv, TabsOK

LEMMA LogoutOfTabKeeps ==
    ASSUME TabsInv, NEW t \in Tabs, LogoutOfTab(t)
    PROVE  TabsInv'
<1>1. /\ Causes(t, {}) /\ webLocal' = NoLogin /\ webSession' = [webSession EXCEPT ![t] = NoLogin]
      /\ webUser' = [webUser EXCEPT ![t] = NoLogin] /\ UNCHANGED <<webRestore, webCall, webIssued>>
  BY DEF LogoutOfTab, ClearTokens, StoreTokens
<1>2. TabsOK'  BY <1>1, CausesOfTab DEF TabsInv, TabsOK, NoLogin
<1>3. OwnsToken(t)'  BY <1>1 DEF TabsInv, TabsOK, OwnsToken, GetToken
<1> QED  BY <1>1, <1>2, <1>3, TabStepKeeps DEF TabsInv, TabsOK

\* A request that leaves, or is refused, changes neither user nor tokens.
LEMMA RequestsKeep ==
    ASSUME TabsInv, NEW t \in Tabs, NEW kind \in {"login", "register"}, NEW remember \in BOOLEAN,
           Ask(t, kind, remember) \/ UpdateProfile(t) \/ RequestRejected(t)
    PROVE  TabsInv'
<1>1. UNCHANGED <<webLocal, webSession, webUser, webRestore, webIssued, webCauses>>
  BY DEF Ask, UpdateProfile, RequestRejected
<1>2. GetToken(t) \in Nat  BY DEF TabsInv, TabsOK, GetToken
<1>3. webCall' \in [Tabs -> [kind : {"none", "login", "register", "profile"}, remember : BOOLEAN, token : Nat]]
  <2> DEFINE Asking == [kind : {"none", "login", "register", "profile"}, remember : BOOLEAN, token : Nat]
  <2>1. \E asked \in Asking : webCall' = [webCall EXCEPT ![t] = asked]
    <3>1. CASE Ask(t, kind, remember)
      BY <3>1 DEF Ask, NoLogin
    <3>2. CASE UpdateProfile(t)
      BY <3>2, <1>2 DEF UpdateProfile, NotAsking
    <3>3. CASE RequestRejected(t)
      BY <3>3 DEF RequestRejected, NotAsking, NoLogin
    <3> QED  BY <3>1, <3>2, <3>3
  <2> QED  BY <2>1 DEF TabsInv, TabsOK
<1> QED  BY <1>1, <1>3 DEF TabsInv, TabsOK, UserOwnsToken, GetToken

\* Once its page is loaded, a tab of AuthProvider shows the user whose token
\* its requests carry, unless a cause is noted; whatever the tabs' number.
THEOREM UserAlwaysOwnsToken == WebSpec => []UserOwnsToken
<1>1. WebInit => TabsInv
  BY DEF WebInit, TabsInv, TabsOK, UserOwnsToken, GetToken, NotAsking, NoLogin
<1>2. TabsInv /\ [WebNext]_webVars => TabsInv'
  <2> SUFFICES ASSUME TabsInv, [WebNext]_webVars  PROVE TabsInv'
    OBVIOUS
  <2>1. CASE UNCHANGED webVars
    BY <2>1 DEF webVars, TabsInv, TabsOK, UserOwnsToken, GetToken
  <2>2. CASE WebNext
    BY <2>2, LoadKeeps, RestoredKeeps, LoginKeeps, RegisterKeeps, ProfileKeeps, LogoutOfTabKeeps, RequestsKeep
       DEF WebNext
  <2> QED  BY <2>1, <2>2
<1>3. TabsInv => UserOwnsToken  BY DEF TabsInv
<1> QED  BY <1>1, <1>2, <1>3, PTL DEF WebSpec


-----------------------------------------------------------------------------
(* The mobile app's session.                                               *)

SessionOK ==
    /\ mosStored \in Nat /\ mosToken \in Nat /\ mosUser \in Nat
    /\ mosPhase \in {"reading", "validating", "clearing", "ready"}
    /\ mosStoring \in Seq(Nat) /\ mosLogins \in Nat
    /\ mosCall \in [Requests -> [kind : {"none", "signIn", "profile", "other"}, token : Nat]]
    /\ mosEnded \subseteq Nat \ {NoToken}

\* A token on its way to the store is newer than all that memory, store and
\* the logouts know.
PendingAreNew ==
    /\ mosStored <= mosLogins /\ mosToken <= mosLogins
    /\ \A e \in mosEnded : e <= mosLogins
    /\ \A i \in DOMAIN mosStoring : mosStoring[i] # NoToken =>
          /\ mosStoring[i] <= mosLogins
          /\ mosToken < mosStoring[i]
          /\ \A e \in mosEnded : e < mosStoring[i]
          /\ \A j \in DOMAIN mosStoring : j < i => mosStoring[j] < mosStoring[i]

\* The app starts with nothing else under way.
StartsAlone ==
    /\ mosPhase # "ready" => \A r \in Requests : mosCall[r] = NotSent
    /\ mosPhase = "reading" => mosStoring = <<>> /\ mosToken = NoToken /\ mosUser = NoToken
    /\ mosPhase = "validating" => mosStoring = <<>> /\ mosToken = mosStored
    /\ mosPhase = "clearing" => mosStoring = <<NoToken>> /\ mosToken = NoToken /\ mosUser = NoToken

\* What is stored has been logged out of only if a clear is on its way, or was
\* lost with the app.
StoredIsAlive == ~ClearsPending /\ "killed" \notin mosCauses => mosStored \notin mosEnded

MemoryFollowsStore ==
    mosCauses = {} =>
        /\ ClearsPending => mosToken = NoToken
        /\ mosPhase = "ready" => mosUser = mosToken
        /\ mosPhase = "ready" /\ ~ClearsPending => mosStored = mosToken

SessionInv == SessionOK /\ PendingAreNew /\ StartsAlone /\ StoredIsAlive /\ MemoryFollowsStore

\* One operation more, or one less, in the store's queue.
LEMMA StoreAppends ==
    ASSUME SessionOK, NEW token \in Nat, Store(token)
    PROVE  /\ mosStoring' \in Seq(Nat) /\ mosStoring' # <<>>
           /\ DOMAIN mosStoring' = DOMAIN mosStoring \cup {Len(mosStoring) + 1}
           /\ \A i \in DOMAIN mosStoring : mosStoring'[i] = mosStoring[i]
           /\ mosStoring'[Len(mosStoring) + 1] = token
           /\ Len(mosStoring) + 1 \notin DOMAIN mosStoring
           /\ \A i \in DOMAIN mosStoring : i < Len(mosStoring) + 1
           /\ ClearsPending' <=> ClearsPending \/ token = NoToken
<1>1. /\ mosStoring' \in Seq(Nat) /\ mosStoring' # <<>>
      /\ DOMAIN mosStoring' = DOMAIN mosStoring \cup {Len(mosStoring) + 1}
      /\ \A i \in DOMAIN mosStoring : mosStoring'[i] = mosStoring[i]
      /\ mosStoring'[Len(mosStoring) + 1] = token
      /\ Len(mosStoring) + 1 \notin DOMAIN mosStoring
      /\ \A i \in DOMAIN mosStoring : i < Len(mosStoring) + 1
  BY DEF Store, SessionOK
<1>2. ClearsPending' <=> ClearsPending \/ token = NoToken
  BY <1>1 DEF ClearsPending, ToSet
<1> QED  BY <1>1, <1>2

LEMMA StoreTakesNext ==
    ASSUME SessionOK, mosStoring # <<>>, mosStoring' = Tail(mosStoring)
    PROVE  /\ mosStoring' \in Seq(Nat) /\ Head(mosStoring) = mosStoring[1] /\ mosStoring[1] \in Nat
           /\ 1 \in DOMAIN mosStoring
           /\ \A i \in DOMAIN mosStoring' : /\ i + 1 \in DOMAIN mosStoring /\ i \in Nat /\ i > 0
                                            /\ mosStoring'[i] = mosStoring[i + 1]
           /\ ClearsPending <=> ClearsPending' \/ mosStoring[1] = NoToken
<1>1. /\ mosStoring' \in Seq(Nat) /\ Head(mosStoring) = mosStoring[1] /\ mosStoring[1] \in Nat
      /\ 1 \in DOMAIN mosStoring
      /\ \A i \in DOMAIN mosStoring' : /\ i + 1 \in DOMAIN mosStoring /\ i \in Nat /\ i > 0
                                       /\ mosStoring'[i] = mosStoring[i + 1]
      /\ \A j \in DOMAIN mosStoring : j # 1 => j - 1 \in DOMAIN mosStoring'
  BY DEF SessionOK
<1>2. \A j \in DOMAIN mosStoring : j # 1 => mosStoring'[j - 1] = mosStoring[j]
  <2> TAKE j \in DOMAIN mosStoring
  <2>1. j \in Int  BY DEF SessionOK
  <2> QED  BY <1>1, <2>1
<1>3. ClearsPending <=> \E j \in DOMAIN mosStoring : mosStoring[j] = NoToken
  BY DEF ClearsPending, ToSet
<1>4. ClearsPending' <=> \E j \in DOMAIN mosStoring' : mosStoring'[j] = NoToken
  BY DEF ClearsPending, ToSet
<1>5. ClearsPending <=> ClearsPending' \/ mosStoring[1] = NoToken
  BY <1>1, <1>2, <1>3, <1>4
<1> QED  BY <1>1, <1>5

LEMMA ReadTokenKeeps ==
    ASSUME SessionInv, ReadToken
    PROVE  SessionInv'
<1>1. mosStoring = <<>> /\ ~ClearsPending /\ ~ClearsPending'
  BY DEF SessionInv, StartsAlone, ReadToken, ClearsPending, ToSet
<1>2. SessionOK'  BY DEF SessionInv, SessionOK, ReadToken
<1>3. PendingAreNew'  BY <1>1 DEF SessionInv, PendingAreNew, ReadToken
<1>4. StartsAlone'  BY <1>1 DEF SessionInv, StartsAlone, ReadToken
<1>5. StoredIsAlive'  BY <1>1 DEF SessionInv, StoredIsAlive, ReadToken
<1>6. MemoryFollowsStore'  BY <1>1 DEF SessionInv, StartsAlone, MemoryFollowsStore, ReadToken
<1> QED  BY <1>2, <1>3, <1>4, <1>5, <1>6 DEF SessionInv

LEMMA CurrentUserKeeps ==
    ASSUME SessionInv, CurrentUser
    PROVE  SessionInv'
<1>1. mosStoring = <<>> /\ ~ClearsPending /\ ~ClearsPending'
  BY DEF SessionInv, StartsAlone, CurrentUser, ClearsPending, ToSet
<1>2. SessionOK'  BY DEF SessionInv, SessionOK, CurrentUser
<1>3. PendingAreNew'  BY <1>1 DEF SessionInv, PendingAreNew, CurrentUser
<1>4. StartsAlone'  BY <1>1 DEF SessionInv, StartsAlone, CurrentUser
<1>5. StoredIsAlive'  BY <1>1 DEF SessionInv, StoredIsAlive, CurrentUser
<1>6. MemoryFollowsStore'  BY <1>1 DEF SessionInv, StartsAlone, MemoryFollowsStore, CurrentUser
<1> QED  BY <1>2, <1>3, <1>4, <1>5, <1>6 DEF SessionInv

LEMMA CurrentUserFailsKeeps ==
    ASSUME SessionInv, CurrentUserFails
    PROVE  SessionInv'
<1>1. mosStoring = <<>> /\ mosStoring' = <<NoToken>> /\ ClearsPending'
  BY DEF SessionInv, StartsAlone, CurrentUserFails, Store, ClearsPending, ToSet
<1>2. SessionOK'  BY <1>1 DEF SessionInv, SessionOK, CurrentUserFails, NoToken
<1>3. PendingAreNew'  BY <1>1 DEF SessionInv, SessionOK, PendingAreNew, CurrentUserFails, NoToken
<1>4. StartsAlone'  BY <1>1 DEF SessionInv, StartsAlone, CurrentUserFails
<1>5. StoredIsAlive' /\ MemoryFollowsStore'
  BY <1>1 DEF StoredIsAlive, MemoryFollowsStore, CurrentUserFails
<1> QED  BY <1>2, <1>3, <1>4, <1>5 DEF SessionInv

\* Requests that leave or are given up touch neither memory nor store.
LEMMA OnlyCallsChange ==
    ASSUME SessionInv, NEW r \in Requests, NEW kind \in {"profile", "other"},
           SignIn(r) \/ Send(r, kind) \/ NoAnswer(r)
    PROVE  SessionInv'
<1>1. UNCHANGED <<mosStored, mosToken, mosUser, mosPhase, mosStoring, mosLogins, mosExpired, mosEnded, mosCauses>>
  BY DEF SignIn, Send, NoAnswer
<1>2. SessionOK'
  <2> DEFINE Sent == [kind : {"none", "signIn", "profile", "other"}, token : Nat]
  <2>1. \E sent \in Sent : mosCall' = [mosCall EXCEPT ![r] = sent]
    BY DEF SignIn, Send, NoAnswer, NotSent, NoToken, SessionInv, SessionOK
  <2>2. mosCall' \in [Requests -> Sent]  BY <2>1 DEF SessionInv, SessionOK
  <2> QED  BY <1>1, <2>2 DEF SessionInv, SessionOK
<1>3. StartsAlone'
  <2>1. mosPhase # "ready" => \A q \in Requests : mosCall'[q] = NotSent
    BY DEF SignIn, Send, NoAnswer, SessionInv, SessionOK, StartsAlone
  <2> QED  BY <1>1, <2>1 DEF SessionInv, StartsAlone
<1> QED
  BY <1>1, <1>2, <1>3 DEF SessionInv, PendingAreNew, StoredIsAlive, MemoryFollowsStore, ClearsPending

\* A sign-in has its token newer than any other on its way.
LEMMA AcceptSessionKeeps ==
    ASSUME SessionInv, NEW r \in Requests, AcceptSession(r)
    PROVE  SessionInv'
<1>0. SessionOK /\ mosPhase = "ready"
  BY DEF SessionInv, StartsAlone, AcceptSession, NotSent
<1>1. /\ mosLogins' = mosLogins + 1 /\ mosLogins' \in Nat \ {NoToken} /\ Store(mosLogins')
      /\ UNCHANGED <<mosStored, mosToken, mosUser, mosPhase, mosExpired, mosEnded, mosCauses>>
  BY <1>0 DEF AcceptSession, SessionOK, NoToken
<1>2. PICK token \in Nat : token = mosLogins'  BY <1>1
<1>3. Store(token) /\ token # NoToken  BY <1>1, <1>2
<1>4. ClearsPending' <=> ClearsPending  BY <1>0, <1>3, StoreAppends
<1>5. SessionOK'
  <2>1. mosCall' \in [Requests -> [kind : {"none", "signIn", "profile", "other"}, token : Nat]]
    BY <1>0 DEF AcceptSession, SessionOK, NotSent, NoToken
  <2> QED  BY <1>0, <1>1, <1>3, <2>1, StoreAppends DEF SessionOK
<1>6. PendingAreNew'
  <2>1. mosStored' <= mosLogins' /\ mosToken' <= mosLogins' /\ \A e \in mosEnded' : e <= mosLogins'
    BY <1>0, <1>1 DEF SessionInv, SessionOK, PendingAreNew
  <2>2. ASSUME NEW i \in DOMAIN mosStoring', mosStoring'[i] # NoToken
        PROVE  /\ mosStoring'[i] <= mosLogins' /\ mosToken < mosStoring'[i]
               /\ \A e \in mosEnded : e < mosStoring'[i]
               /\ \A j \in DOMAIN mosStoring' : j < i => mosStoring'[j] < mosStoring'[i]
    <3>1. CASE i \in DOMAIN mosStoring
      <4>1. /\ mosStoring'[i] = mosStoring[i] /\ mosStoring[i] \in Nat
            /\ \A j \in DOMAIN mosStoring' : j < i => j \in DOMAIN mosStoring /\ mosStoring'[j] = mosStoring[j]
        BY <1>0, <1>3, <3>1, StoreAppends DEF SessionOK
      <4> QED  BY <1>0, <1>1, <2>2, <3>1, <4>1 DEF SessionInv, SessionOK, PendingAreNew
    <3>2. CASE i = Len(mosStoring) + 1
      <4>1. /\ mosStoring'[i] = mosLogins + 1
            /\ \A j \in DOMAIN mosStoring' : j < i => j \in DOMAIN mosStoring /\ mosStoring'[j] = mosStoring[j]
        BY <1>0, <1>1, <1>2, <1>3, <3>2, StoreAppends DEF SessionOK
      <4>2. \A j \in DOMAIN mosStoring : mosStoring[j] <= mosLogins /\ mosStoring[j] \in Nat
        BY <1>0 DEF SessionInv, SessionOK, PendingAreNew, NoToken
      <4>3. \A e \in mosEnded : e \in Nat  BY <1>0 DEF SessionOK
      <4> QED  BY <1>0, <1>1, <4>1, <4>2, <4>3 DEF SessionInv, SessionOK, PendingAreNew
    <3> QED  BY <1>0, <1>3, <3>1, <3>2, StoreAppends
  <2> QED  BY <1>1, <2>1, <2>2 DEF PendingAreNew
<1>7. StartsAlone'  BY <1>0, <1>1 DEF StartsAlone
<1>8. StoredIsAlive' /\ MemoryFollowsStore'
  BY <1>1, <1>4 DEF SessionInv, StoredIsAlive, MemoryFollowsStore
<1> QED  BY <1>5, <1>6, <1>7, <1>8 DEF SessionInv

\* What the store does last decides; before that, memory may run ahead.
LEMMA StoreEndsKeeps ==
    ASSUME SessionInv, StoreEnds
    PROVE  SessionInv'
<1>0. SessionOK /\ mosStoring # <<>> /\ mosStoring' = Tail(mosStoring)
  BY DEF SessionInv, StoreEnds
<1>f. PICK first \in Nat : first = mosStoring[1] /\ first = Head(mosStoring) /\ 1 \in DOMAIN mosStoring
  BY <1>0, StoreTakesNext
<1>1. /\ mosStored' = first /\ UNCHANGED <<mosCall, mosLogins, mosExpired, mosEnded>>
      /\ first = NoToken => mosPhase' = "ready" /\ UNCHANGED <<mosToken, mosUser, mosCauses>>
      /\ first # NoToken => /\ mosToken' = first /\ mosUser' = first /\ mosPhase' = mosPhase
                            /\ mosCauses' = IF ClearsPending' THEN {"crossed"} ELSE {}
  BY <1>f DEF StoreEnds, ClearsPending
<1>2. ClearsPending <=> ClearsPending' \/ first = NoToken  BY <1>0, <1>f, StoreTakesNext
<1>3. first # NoToken => /\ first <= mosLogins /\ first \notin mosEnded /\ mosPhase = "ready"
  <2> SUFFICES ASSUME first # NoToken  PROVE first <= mosLogins /\ first \notin mosEnded /\ mosPhase = "ready"
    OBVIOUS
  <2>1. first <= mosLogins /\ \A e \in mosEnded : e < first
    BY <1>f DEF SessionInv, PendingAreNew
  <2>2. mosPhase = "ready"
    BY <1>0, <1>f DEF SessionInv, SessionOK, StartsAlone
  <2> QED  BY <2>1, <2>2
<1>4. SessionOK'  BY <1>0, <1>1, StoreTakesNext DEF SessionOK
<1>5. PendingAreNew'
  <2>1. mosStored' <= mosLogins' /\ mosToken' <= mosLogins' /\ \A e \in mosEnded' : e <= mosLogins'
    BY <1>0, <1>1, <1>3 DEF SessionInv, SessionOK, PendingAreNew, NoToken
  <2>2. ASSUME NEW i \in DOMAIN mosStoring', mosStoring'[i] # NoToken
        PROVE  /\ mosStoring'[i] <= mosLogins /\ mosToken' < mosStoring'[i]
               /\ \A e \in mosEnded : e < mosStoring'[i]
               /\ \A j \in DOMAIN mosStoring' : j < i => mosStoring'[j] < mosStoring'[i]
    <3>1. /\ i + 1 \in DOMAIN mosStoring /\ i \in Nat /\ 1 < i + 1 /\ mosStoring'[i] = mosStoring[i + 1]
          /\ \A j \in DOMAIN mosStoring' : j + 1 \in DOMAIN mosStoring /\ j \in Nat /\ mosStoring'[j] = mosStoring[j + 1]
      BY <1>0, StoreTakesNext
    <3>2. /\ mosStoring[i + 1] <= mosLogins /\ mosToken < mosStoring[i + 1]
          /\ \A e \in mosEnded : e < mosStoring[i + 1]
          /\ \A j \in DOMAIN mosStoring : j < i + 1 => mosStoring[j] < mosStoring[i + 1]
      BY <2>2, <3>1 DEF SessionInv, PendingAreNew
    <3>3. mosToken' < mosStoring'[i]  BY <1>1, <1>f, <3>1, <3>2
    <3>4. \A j \in DOMAIN mosStoring' : j < i => mosStoring'[j] < mosStoring'[i]  BY <3>1, <3>2
    <3> QED  BY <3>1, <3>2, <3>3, <3>4
  <2> QED  BY <1>1, <2>1, <2>2 DEF PendingAreNew
<1>6. StartsAlone'
  <2>1. mosPhase' = "ready"
    BY <1>1, <1>3
  <2> QED  BY <2>1 DEF StartsAlone
<1>7. StoredIsAlive'
  BY <1>0, <1>1, <1>3 DEF StoredIsAlive, SessionOK
<1>8. MemoryFollowsStore'
  <2>1. CASE first = NoToken
    <3>1. mosPhase = "clearing" => mosUser = mosToken  BY DEF SessionInv, StartsAlone
    <3>2. mosPhase \in {"clearing", "ready"}  BY <1>0 DEF SessionInv, SessionOK, StartsAlone
    <3> QED  BY <1>1, <1>2, <2>1, <3>1, <3>2 DEF SessionInv, MemoryFollowsStore
  <2>2. CASE first # NoToken
    BY <1>1, <2>2 DEF MemoryFollowsStore
  <2> QED  BY <2>1, <2>2
<1> QED  BY <1>4, <1>5, <1>6, <1>7, <1>8 DEF SessionInv

\* A user taken from an answer is the token's, or a cause is noted.
LEMMA RequestSucceedsKeeps ==
    ASSUME SessionInv, NEW r \in Requests, RequestSucceeds(r)
    PROVE  SessionInv'
<1>0. SessionOK /\ mosPhase = "ready" /\ mosCall[r].token \in Nat
  BY DEF SessionInv, SessionOK, StartsAlone, RequestSucceeds, NotSent
<1>1. UNCHANGED <<mosStored, mosToken, mosPhase, mosStoring, mosLogins, mosExpired, mosEnded>>
  BY DEF RequestSucceeds
<1>2. \/ UNCHANGED <<mosUser, mosCauses>>
      \/ mosUser' = mosToken /\ mosCauses' = mosCauses
      \/ mosUser' = mosCall[r].token /\ mosCauses' = mosCauses \cup {"outlived"}
  BY DEF RequestSucceeds
<1>3. SessionOK'
  <2>1. mosCall' \in [Requests -> [kind : {"none", "signIn", "profile", "other"}, token : Nat]]
    BY <1>0 DEF RequestSucceeds, SessionOK, NotSent, NoToken
  <2> QED  BY <1>0, <1>1, <1>2, <2>1 DEF SessionOK
<1>4. StartsAlone'  BY <1>0, <1>1 DEF StartsAlone
<1>5. PendingAreNew'  BY <1>1 DEF SessionInv, PendingAreNew
<1>6. StoredIsAlive' /\ MemoryFollowsStore'
  BY <1>1, <1>2 DEF SessionInv, StoredIsAlive, MemoryFollowsStore, ClearsPending
<1> QED  BY <1>3, <1>4, <1>5, <1>6 DEF SessionInv

\* A logout, asked for or forced, has the store cleared unless there is
\* nobody in memory.
LEMMA EndSessionKeeps ==
    ASSUME SessionInv, mosPhase = "ready", EndSession,
           UNCHANGED <<mosStored, mosPhase, mosLogins, mosCauses>>,
           mosCall' \in [Requests -> [kind : {"none", "signIn", "profile", "other"}, token : Nat]]
    PROVE  SessionInv'
<1>0. SessionOK /\ PendingAreNew  BY DEF SessionInv
<1>1. mosToken' = NoToken /\ mosUser' = NoToken /\ mosEnded' = mosEnded \cup ({mosToken} \ {NoToken})
  BY DEF EndSession
<1>2. StartsAlone'  BY DEF StartsAlone
<1>3. CASE mosToken = NoToken /\ mosUser = NoToken
  <2>1. mosStoring' = mosStoring /\ mosEnded' = mosEnded  BY <1>1, <1>3 DEF EndSession
  <2> QED
    BY <1>0, <1>1, <1>2, <1>3, <2>1
       DEF SessionInv, SessionOK, PendingAreNew, StoredIsAlive, MemoryFollowsStore, ClearsPending
<1>4. CASE ~(mosToken = NoToken /\ mosUser = NoToken)
  <2>1. Store(NoToken) /\ NoToken \in Nat  BY <1>4 DEF EndSession, NoToken
  <2>2. ClearsPending' /\ mosStoring' \in Seq(Nat)  BY <1>0, <2>1, StoreAppends
  <2>3. SessionOK'  BY <1>0, <1>1, <2>1, <2>2 DEF SessionOK
  <2>4. PendingAreNew'
    <3>1. mosStored' <= mosLogins' /\ mosToken' <= mosLogins' /\ \A e \in mosEnded' : e <= mosLogins'
      BY <1>0, <1>1 DEF SessionOK, PendingAreNew, NoToken
    <3>2. ASSUME NEW i \in DOMAIN mosStoring', mosStoring'[i] # NoToken
          PROVE  /\ mosStoring'[i] <= mosLogins /\ mosToken' < mosStoring'[i]
                 /\ \A e \in mosEnded' : e < mosStoring'[i]
                 /\ \A j \in DOMAIN mosStoring' : j < i => mosStoring'[j] < mosStoring'[i]
      <4>1. i \in DOMAIN mosStoring /\ mosStoring'[i] = mosStoring[i] /\ mosStoring[i] \in Nat
        BY <1>0, <2>1, <3>2, StoreAppends DEF SessionOK
      <4>2. \A j \in DOMAIN mosStoring' : j < i => j \in DOMAIN mosStoring /\ mosStoring'[j] = mosStoring[j]
        BY <1>0, <2>1, <4>1, StoreAppends DEF SessionOK
      <4>3. /\ mosStoring[i] <= mosLogins /\ mosToken < mosStoring[i]
            /\ \A e \in mosEnded : e < mosStoring[i]
            /\ \A j \in DOMAIN mosStoring : j < i => mosStoring[j] < mosStoring[i]
        BY <1>0, <3>2, <4>1 DEF PendingAreNew
      <4>4. mosToken' < mosStoring'[i]  BY <1>1, <3>2, <4>1 DEF NoToken
      <4> QED  BY <1>1, <4>1, <4>2, <4>3, <4>4
    <3> QED  BY <3>1, <3>2 DEF PendingAreNew
  <2>5. StoredIsAlive' /\ MemoryFollowsStore'
    BY <1>1, <2>2 DEF StoredIsAlive, MemoryFollowsStore
  <2> QED  BY <1>2, <2>3, <2>4, <2>5 DEF SessionInv
<1> QED  BY <1>3, <1>4

LEMMA RefusalKeeps ==
    ASSUME SessionInv, NEW r \in Requests, RequestRefused(r)
    PROVE  SessionInv'
<1>1. mosPhase = "ready"
  BY DEF SessionInv, StartsAlone, RequestRefused, NotSent
<1>2. mosCall' \in [Requests -> [kind : {"none", "signIn", "profile", "other"}, token : Nat]]
  BY DEF SessionInv, SessionOK, RequestRefused, NotSent, NoToken
<1> QED  BY <1>1, <1>2, EndSessionKeeps DEF RequestRefused

\* What the store had still to do is lost with the app.
LEMMA RestartKeeps ==
    ASSUME SessionInv, Restart
    PROVE  SessionInv'
<1>1. ~ClearsPending'  BY DEF Restart, ClearsPending, ToSet
<1>2. SessionOK'  BY DEF Restart, SessionInv, SessionOK, NotSent, NoToken
<1>3. PendingAreNew'  BY DEF Restart, SessionInv, SessionOK, PendingAreNew, NoToken
<1>4. StartsAlone'  BY DEF Restart, StartsAlone
<1>5. StoredIsAlive'  BY <1>1 DEF Restart, SessionInv, StoredIsAlive
<1>6. MemoryFollowsStore'  BY <1>1 DEF Restart, MemoryFollowsStore
<1> QED  BY <1>2, <1>3, <1>4, <1>5, <1>6 DEF SessionInv

\* AuthState's memory, the secure store and the logouts agree whenever the
\* store is done, unless one of the causes named is noted: however many
\* requests are in flight, logins and logouts follow each other, and whenever
\* the app is killed.
THEOREM SessionAlwaysWhole == MobileSessionSpec => []SessionIsWhole
<1>1. MobileSessionInit => SessionInv
  BY DEF MobileSessionInit, SessionInv, SessionOK, PendingAreNew, StartsAlone, StoredIsAlive,
         MemoryFollowsStore, ClearsPending, ToSet, NotSent, NoToken
<1>2. SessionInv /\ [MobileSessionNext]_mosVars => SessionInv'
  <2> SUFFICES ASSUME SessionInv, [MobileSessionNext]_mosVars  PROVE SessionInv'
    OBVIOUS
  <2>1. ASSUME UNCHANGED mosVars \/ \E token \in (1 .. mosLogins) \ mosExpired : Expire(token)
        PROVE  SessionInv'
    <3>1. UNCHANGED <<mosStored, mosToken, mosUser, mosPhase, mosStoring, mosCall, mosLogins, mosEnded, mosCauses>>
      BY <2>1 DEF mosVars, Expire
    <3> QED
      BY <3>1 DEF SessionInv, SessionOK, PendingAreNew, StartsAlone, StoredIsAlive, MemoryFollowsStore,
                  ClearsPending
  <2>2. ASSUME ReadToken \/ CurrentUser \/ CurrentUserFails \/ StoreEnds \/ Restart  PROVE SessionInv'
    BY <2>2, ReadTokenKeeps, CurrentUserKeeps, CurrentUserFailsKeeps, StoreEndsKeeps, RestartKeeps
  <2>3. ASSUME LogOut  PROVE SessionInv'
    <3>1. mosPhase = "ready" /\ mosCall' = mosCall  BY <2>3 DEF LogOut
    <3> QED  BY <2>3, <3>1, EndSessionKeeps DEF LogOut, SessionInv, SessionOK
  <2>4. ASSUME NEW r \in Requests,
               \/ SignIn(r) \/ AcceptSession(r) \/ RequestSucceeds(r) \/ RequestRefused(r) \/ NoAnswer(r)
               \/ \E kind \in {"profile", "other"} : Send(r, kind)
        PROVE  SessionInv'
    <3>1. CASE SignIn(r) \/ NoAnswer(r)
      <4>1. "other" \in {"profile", "other"}  OBVIOUS
      <4> QED  BY <3>1, <4>1, OnlyCallsChange
    <3>2. CASE \E kind \in {"profile", "other"} : Send(r, kind)
      BY <3>2, OnlyCallsChange
    <3>3. CASE AcceptSession(r) \/ RequestSucceeds(r) \/ RequestRefused(r)
      BY <3>3, AcceptSessionKeeps, RequestSucceedsKeeps, RefusalKeeps
    <3> QED  BY <2>4, <3>1, <3>2, <3>3
  <2> QED  BY <2>1, <2>2, <2>3, <2>4 DEF MobileSessionNext
<1>3. SessionInv => SessionIsWhole
  BY DEF SessionInv, SessionIsWhole, StoredIsAlive, MemoryFollowsStore, ClearsPending, ToSet
<1> QED  BY <1>1, <1>2, <1>3, PTL DEF MobileSessionSpec


-----------------------------------------------------------------------------
(* The assistant's conversation.                                           *)

ChatMessages == [role : {"user", "assistant"}, turn : Nat, long : BOOLEAN]

ChatCalls == [stage : {"sent", "accepted", "refused", "ended"}, asked : Seq(ChatMessages)]

ChatOK ==
    /\ chaMessages \in Seq(ChatMessages)
    /\ chaCalls \in Seq(ChatCalls)
    /\ chaSending \in BOOLEAN /\ chaCutOff \in BOOLEAN
    /\ chaFailed \in 0 .. Len(chaCalls)

\* The screen knows of the only request under way.
OneUnderWay == chaCutOff \/ \A t \in Turns : InFlight(t) => chaSending /\ chaNewest = t

\* The question of a request that is under way, or may be sent again, is the
\* newest message.
QuestionIsNewest ==
    chaCutOff \/ \A t \in Turns : InFlight(t) \/ chaFailed = t =>
        /\ chaMessages # <<>>
        /\ chaMessages[Len(chaMessages)].role = "user" /\ chaMessages[Len(chaMessages)].turn = t

\* No more is sent along than the server accepts.
AskedAreShort == \A t \in Turns : Len(chaCalls[t].asked) <= MaxHistoryEntries + 1

ChatInv ==
    ChatOK /\ OneUnderWay /\ QuestionIsNewest /\ AnswersFollowQuestions /\ AskedAreShort /\ RefusedForLength

LEMMA TurnFields ==
    ASSUME ChatOK, NEW t \in Turns
    PROVE  /\ t \in 1 .. Len(chaCalls) /\ chaCalls[t] \in ChatCalls
           /\ chaCalls[t].stage \in {"sent", "accepted", "refused", "ended"}
           /\ chaCalls[t].asked \in Seq(ChatMessages)
<1>1. t \in 1 .. Len(chaCalls) /\ chaCalls[t] \in ChatCalls  BY DEF ChatOK, Turns
<1> QED  BY <1>1 DEF ChatCalls

\* One request's stage changes; what was asked stays.
LEMMA StageChanges ==
    ASSUME ChatOK, NEW t \in Turns, NEW stage \in {"sent", "accepted", "refused", "ended"},
           chaCalls' = [chaCalls EXCEPT ![t].stage = stage]
    PROVE  /\ chaCalls' \in Seq(ChatCalls)
           /\ Len(chaCalls') = Len(chaCalls) /\ Turns' = Turns
           /\ \A u \in Turns : /\ chaCalls'[u].asked = chaCalls[u].asked
                               /\ chaCalls'[u].stage = IF u = t THEN stage ELSE chaCalls[u].stage
<1>1. PICK call : call = [chaCalls[t] EXCEPT !.stage = stage]  OBVIOUS
<1>2. call \in ChatCalls /\ call.stage = stage /\ call.asked = chaCalls[t].asked
  BY <1>1, TurnFields DEF ChatCalls
<1>3. chaCalls' = [chaCalls EXCEPT ![t] = call]  BY <1>1
<1>4. chaCalls \in Seq(ChatCalls) /\ t \in 1 .. Len(chaCalls)  BY TurnFields DEF ChatOK
<1>5. chaCalls' \in Seq(ChatCalls) /\ Len(chaCalls') = Len(chaCalls)
  BY <1>2, <1>3, <1>4, ExceptSeq
<1>6. Turns' = Turns /\ \A u \in Turns : chaCalls'[u] = IF u = t THEN call ELSE chaCalls[u]
  BY <1>3, <1>4 DEF Turns
<1> QED  BY <1>2, <1>5, <1>6

\* What the client sends along of the conversation.
LEMMA NewestAreFew ==
    ASSUME ChatOK
    PROVE  NewestMessages \in Seq(ChatMessages) /\ Len(NewestMessages) <= MaxHistoryEntries
<1> DEFINE first == Len(chaMessages) - MaxHistoryEntries + 1
           from  == IF first > 1 THEN first ELSE 1
<1>1. chaMessages \in Seq(ChatMessages) /\ Len(chaMessages) \in Nat /\ MaxHistoryEntries \in Nat
  BY ConversationAssumption DEF ChatOK
<1>2. from \in Nat /\ from >= 1 /\ from <= Len(chaMessages) + 1
      /\ Len(chaMessages) - from + 1 <= MaxHistoryEntries
  BY <1>1
<1>3. NewestMessages = SubSeq(chaMessages, from, Len(chaMessages))  BY DEF NewestMessages
<1> HIDE DEF from
<1>4. Len(SubSeq(chaMessages, from, Len(chaMessages))) = Len(chaMessages) - from + 1
  BY <1>1, <1>2
<1>5. SubSeq(chaMessages, from, Len(chaMessages)) \in Seq(ChatMessages)
  BY <1>1, <1>2
<1> QED  BY <1>2, <1>3, <1>4, <1>5

\* The server's check: a conversation the client cuts is short enough.
LEMMA ChatKeeps ==
    ASSUME ChatInv, NEW t \in Turns, chat(t)
    PROVE  ChatInv'
<1>0. ChatOK  BY DEF ChatInv
<1>1. PICK stage \in {"sent", "accepted", "refused", "ended"} :
         /\ chaCalls' = [chaCalls EXCEPT ![t].stage = stage]
         /\ stage = "refused" => ~validateConversation(chaCalls[t].asked)
  BY DEF chat
<1>2. /\ chaCalls' \in Seq(ChatCalls)
      /\ Len(chaCalls') = Len(chaCalls) /\ Turns' = Turns
      /\ \A u \in Turns : /\ chaCalls'[u].asked = chaCalls[u].asked
                          /\ chaCalls'[u].stage = IF u = t THEN stage ELSE chaCalls[u].stage
  BY <1>0, <1>1, StageChanges
<1>3. UNCHANGED <<chaClient, chaMessages, chaSending, chaFailed, chaNewest, chaCutOff>> /\ InFlight(t)
  BY DEF chat, InFlight
<1>4. \A u \in Turns : InFlight(u)' => InFlight(u)  BY <1>2, <1>3 DEF InFlight
<1>5. ChatOK'  BY <1>0, <1>2, <1>3 DEF ChatOK
<1>6. OneUnderWay' /\ QuestionIsNewest' /\ AnswersFollowQuestions'
  BY <1>2, <1>3, <1>4 DEF ChatInv, OneUnderWay, QuestionIsNewest, AnswersFollowQuestions
<1>7. AskedAreShort'  BY <1>2 DEF ChatInv, AskedAreShort
<1>8. RefusedForLength'
  <2> SUFFICES ASSUME NEW u \in Turns, chaCalls'[u].stage = "refused"
               PROVE  \E i \in DOMAIN chaCalls[u].asked : chaCalls[u].asked[i].long
    BY <1>2 DEF RefusedForLength
  <2>1. CASE u # t
    BY <1>2, <2>1 DEF ChatInv, RefusedForLength
  <2>2. CASE u = t
    <3>1. ~validateConversation(chaCalls[u].asked)  BY <1>1, <1>2, <2>2
    <3>2. Len(chaCalls[u].asked) - 1 <= MaxConversation
      <4>1. Len(chaCalls[u].asked) <= MaxHistoryEntries + 1  BY DEF ChatInv, AskedAreShort
      <4>2. Len(chaCalls[u].asked) \in Nat  BY <1>0, TurnFields
      <4> QED  BY <4>1, <4>2, ConversationAssumption
    <3> QED  BY <3>1, <3>2 DEF validateConversation
  <2> QED  BY <2>1, <2>2
<1> QED  BY <1>5, <1>6, <1>7, <1>8 DEF ChatInv

\* A message is sent when none is under way: it becomes the newest, and the
\* only request.
LEMMA SendMessageKeeps ==
    ASSUME ChatInv, NEW long \in BOOLEAN, SendMessage(long)
    PROVE  ChatInv'
<1>0. ChatOK  BY DEF ChatInv
<1> DEFINE turn == Len(chaCalls) + 1
           message == Message("user", turn, long)
           request == [stage |-> "sent", asked |-> Append(NewestMessages, message)]
<1>1. /\ ~chaSending /\ chaSending' = TRUE /\ chaFailed' = 0 /\ chaNewest' = turn
      /\ chaMessages' = Append(chaMessages, message)
      /\ chaCalls' = Append(chaCalls, request)
      /\ UNCHANGED <<chaClient, chaCutOff>>
  BY DEF SendMessage, SendAnyway, Follow, Message
<1>2. /\ message \in ChatMessages /\ message.role = "user" /\ message.turn = turn
      /\ turn \in Nat /\ turn > 0
  BY <1>0 DEF Message, ChatMessages, ChatOK
<1>3. /\ request \in ChatCalls
      /\ request.stage = "sent" /\ Len(request.asked) <= MaxHistoryEntries + 1
  <2>1. NewestMessages \in Seq(ChatMessages) /\ Len(NewestMessages) <= MaxHistoryEntries
    BY <1>0, NewestAreFew
  <2> HIDE DEF message
  <2>2. Append(NewestMessages, message) \in Seq(ChatMessages) /\ Len(Append(NewestMessages, message)) = Len(NewestMessages) + 1
    BY <1>2, <2>1
  <2> QED  BY <2>1, <2>2, ConversationAssumption DEF ChatCalls
<1> HIDE DEF message, request
<1>4. /\ Turns' = Turns \cup {turn} /\ turn \notin Turns /\ Len(chaCalls') = turn
      /\ chaCalls'[turn] = request
      /\ \A u \in Turns : chaCalls'[u] = chaCalls[u]
  BY <1>0, <1>1, <1>3 DEF ChatOK, Turns
<1>5. /\ Len(chaMessages') = Len(chaMessages) + 1 /\ Len(chaMessages) \in Nat
      /\ chaMessages' # <<>> /\ chaMessages'[Len(chaMessages')] = message
      /\ \A i \in DOMAIN chaMessages : chaMessages'[i] = chaMessages[i]
      /\ DOMAIN chaMessages = 1 .. Len(chaMessages) /\ DOMAIN chaMessages' = 1 .. Len(chaMessages) + 1
  <2>1. chaMessages \in Seq(ChatMessages)  BY <1>0 DEF ChatOK
  <2> QED  BY <1>1, <1>2, <2>1
<1>6. ChatOK'
  <2>1. chaMessages' \in Seq(ChatMessages)  BY <1>0, <1>1, <1>2 DEF ChatOK
  <2>2. chaCalls' \in Seq(ChatCalls)
    BY <1>0, <1>1, <1>3 DEF ChatOK
  <2> QED  BY <1>0, <1>1, <1>2, <1>4, <2>1, <2>2 DEF ChatOK
<1>7. OneUnderWay'
  <2>1. chaCutOff \/ \A u \in Turns : ~InFlight(u)  BY <1>1 DEF ChatInv, OneUnderWay
  <2>2. \A u \in Turns : InFlight(u)' <=> InFlight(u)  BY <1>4 DEF InFlight
  <2> QED  BY <1>1, <1>4, <2>1, <2>2 DEF OneUnderWay
<1>8. QuestionIsNewest'
  <2>1. chaCutOff \/ \A u \in Turns : ~InFlight(u)  BY <1>1 DEF ChatInv, OneUnderWay
  <2>2. \A u \in Turns : (InFlight(u)' <=> InFlight(u)) /\ u # 0
    BY <1>0, <1>4 DEF InFlight, ChatOK, Turns
  <2> QED  BY <1>1, <1>2, <1>4, <1>5, <2>1, <2>2 DEF QuestionIsNewest
<1>9. AnswersFollowQuestions'
  <2> SUFFICES ASSUME ~chaCutOff, NEW i \in DOMAIN chaMessages', chaMessages'[i].role = "assistant"
               PROVE  /\ i > 1 /\ chaMessages'[i - 1].role = "user"
                      /\ chaMessages'[i - 1].turn = chaMessages'[i].turn
    BY <1>1 DEF AnswersFollowQuestions
  <2>1. i \in DOMAIN chaMessages  BY <1>2, <1>5
  <2>2. chaMessages'[i] = chaMessages[i]  BY <1>5, <2>1
  <2>3. /\ i > 1 /\ chaMessages[i - 1].role = "user" /\ chaMessages[i - 1].turn = chaMessages[i].turn
    BY <2>1, <2>2 DEF ChatInv, AnswersFollowQuestions
  <2>4. chaMessages'[i - 1] = chaMessages[i - 1]  BY <1>5, <2>1, <2>3
  <2> QED  BY <2>2, <2>3, <2>4
<1>10. AskedAreShort'  BY <1>3, <1>4 DEF ChatInv, AskedAreShort
<1>11. RefusedForLength'  BY <1>3, <1>4 DEF ChatInv, RefusedForLength
<1> QED  BY <1>6, <1>7, <1>8, <1>9, <1>10, <1>11 DEF ChatInv

LEMMA RetryKeeps ==
    ASSUME ChatInv, Retry
    PROVE  ChatInv'
<1>0. ChatOK  BY DEF ChatInv
<1>1. /\ ~chaSending /\ chaSending' = TRUE /\ chaFailed' = 0 /\ chaNewest' = chaFailed
      /\ chaCalls' = [chaCalls EXCEPT ![chaFailed].stage = "sent"]
      /\ UNCHANGED <<chaClient, chaMessages, chaCutOff>>
  BY DEF Retry, Follow
<1>2. PICK t \in Turns : t = chaFailed  BY <1>0 DEF Retry, ChatOK, Turns
<1>3. chaCalls' = [chaCalls EXCEPT ![t].stage = "sent"]  BY <1>1, <1>2
<1>4. /\ chaCalls' \in Seq(ChatCalls)
      /\ Len(chaCalls') = Len(chaCalls) /\ Turns' = Turns
      /\ \A u \in Turns : /\ chaCalls'[u].asked = chaCalls[u].asked
                          /\ chaCalls'[u].stage = IF u = t THEN "sent" ELSE chaCalls[u].stage
  BY <1>0, <1>3, StageChanges
<1>5. chaCutOff \/ \A u \in Turns : ~InFlight(u)  BY <1>1 DEF ChatInv, OneUnderWay
<1>6. \A u \in Turns \ {t} : InFlight(u)' <=> InFlight(u)  BY <1>4 DEF InFlight
<1>7. ChatOK'  BY <1>0, <1>1, <1>4 DEF ChatOK
<1>8. OneUnderWay'  BY <1>1, <1>2, <1>4, <1>5, <1>6 DEF OneUnderWay
<1>9. QuestionIsNewest'
  <2>1. chaFailed' \notin Turns  BY <1>0, <1>1 DEF ChatOK, Turns
  <2> QED  BY <1>1, <1>2, <1>4, <1>5, <1>6, <2>1 DEF ChatInv, QuestionIsNewest
<1>10. AnswersFollowQuestions'  BY <1>1 DEF ChatInv, AnswersFollowQuestions
<1>11. AskedAreShort' /\ RefusedForLength'  BY <1>4 DEF ChatInv, AskedAreShort, RefusedForLength
<1> QED  BY <1>7, <1>8, <1>9, <1>10, <1>11 DEF ChatInv

\* The end of the only request under way, as far as the calls are concerned.
LEMMA EndingKeeps ==
    ASSUME ChatInv, NEW t \in Turns, InFlight(t), NEW failed \in {0, t}, Ended(t, failed)
    PROVE  /\ chaCalls' \in Seq(ChatCalls)
           /\ Len(chaCalls') = Len(chaCalls) /\ Turns' = Turns
           /\ chaSending' \in BOOLEAN /\ chaFailed' \in 0 .. Len(chaCalls)
           /\ UNCHANGED <<chaNewest, chaCutOff>>
           /\ OneUnderWay' /\ AskedAreShort' /\ RefusedForLength'
           /\ chaCutOff \/ (chaFailed' = failed /\ \A u \in Turns : ~InFlight(u)')
<1>0. ChatOK  BY DEF ChatInv
<1>1. chaCalls' = [chaCalls EXCEPT ![t].stage = "ended"] /\ UNCHANGED <<chaNewest, chaCutOff>>
  BY DEF Ended
<1>2. /\ chaCalls' \in Seq(ChatCalls)
      /\ Len(chaCalls') = Len(chaCalls) /\ Turns' = Turns
      /\ \A u \in Turns : /\ chaCalls'[u].asked = chaCalls[u].asked
                          /\ chaCalls'[u].stage = IF u = t THEN "ended" ELSE chaCalls[u].stage
  BY <1>0, <1>1, StageChanges
<1>3. t \in 1 .. Len(chaCalls)  BY <1>0, TurnFields
<1>4. chaSending' \in BOOLEAN /\ chaFailed' \in 0 .. Len(chaCalls)
  <2>1. chaSending \in BOOLEAN /\ chaFailed \in 0 .. Len(chaCalls)  BY <1>0 DEF ChatOK
  <2>2. failed \in 0 .. Len(chaCalls)  BY <1>3
  <2> QED  BY <2>1, <2>2 DEF Ended
<1>5. chaCutOff \/ (chaFailed' = failed /\ \A u \in Turns : ~InFlight(u)')
  <2> SUFFICES ASSUME ~chaCutOff  PROVE chaFailed' = failed /\ \A u \in Turns : ~InFlight(u)'
    OBVIOUS
  <2>1. chaNewest = t  BY DEF ChatInv, OneUnderWay
  <2>2. \A u \in Turns \ {t} : ~InFlight(u)  BY <2>1 DEF ChatInv, OneUnderWay
  <2>3. \A u \in Turns : ~InFlight(u)'  BY <1>2, <2>2 DEF InFlight
  <2> QED  BY <2>1, <2>3 DEF Ended, Followed
<1>6. OneUnderWay'  BY <1>1, <1>2, <1>5 DEF OneUnderWay
<1>7. AskedAreShort' /\ RefusedForLength'  BY <1>2 DEF ChatInv, AskedAreShort, RefusedForLength
<1> QED  BY <1>1, <1>2, <1>4, <1>5, <1>6, <1>7

LEMMA RequestFailsKeeps ==
    ASSUME ChatInv, NEW t \in Turns, RequestFails(t)
    PROVE  ChatInv'
<1>0. ChatOK /\ InFlight(t) /\ Ended(t, t) /\ chaMessages' = chaMessages  BY DEF ChatInv, RequestFails
<1>1. /\ chaCalls' \in Seq(ChatCalls)
      /\ Len(chaCalls') = Len(chaCalls) /\ Turns' = Turns
      /\ chaSending' \in BOOLEAN /\ chaFailed' \in 0 .. Len(chaCalls)
      /\ UNCHANGED <<chaNewest, chaCutOff>>
      /\ OneUnderWay' /\ AskedAreShort' /\ RefusedForLength'
      /\ chaCutOff \/ (chaFailed' = t /\ \A u \in Turns : ~InFlight(u)')
  BY <1>0, EndingKeeps
<1>2. ChatOK'  BY <1>0, <1>1 DEF ChatOK
<1>3. QuestionIsNewest'  BY <1>0, <1>1 DEF ChatInv, QuestionIsNewest
<1>4. AnswersFollowQuestions'  BY <1>0, <1>1 DEF ChatInv, AnswersFollowQuestions
<1> QED  BY <1>1, <1>2, <1>3, <1>4 DEF ChatInv

\* The answer of the only request stands below its question, which is the
\* newest message.
LEMMA ReplyArrivesKeeps ==
    ASSUME ChatInv, NEW t \in Turns, NEW long \in BOOLEAN, ReplyArrives(t, long)
    PROVE  ChatInv'
<1> DEFINE reply == Message("assistant", t, long)
<1>0. /\ ChatOK /\ InFlight(t) /\ Ended(t, 0) /\ t \in Nat
      /\ chaMessages' = Append(chaMessages, reply) /\ reply \in ChatMessages
      /\ reply.role = "assistant" /\ reply.turn = t
  BY TurnFields DEF ChatInv, ReplyArrives, InFlight, Message, ChatMessages
<1> HIDE DEF reply
<1>1. /\ chaCalls' \in Seq(ChatCalls)
      /\ Len(chaCalls') = Len(chaCalls) /\ Turns' = Turns
      /\ chaSending' \in BOOLEAN /\ chaFailed' \in 0 .. Len(chaCalls)
      /\ UNCHANGED <<chaNewest, chaCutOff>>
      /\ OneUnderWay' /\ AskedAreShort' /\ RefusedForLength'
      /\ chaCutOff \/ (chaFailed' = 0 /\ \A u \in Turns : ~InFlight(u)')
  BY <1>0, EndingKeeps
<1>2. ChatOK'
  <2>1. chaMessages' \in Seq(ChatMessages)  BY <1>0 DEF ChatOK
  <2> QED  BY <1>0, <1>1, <2>1 DEF ChatOK, ReplyArrives, Ended
<1>3. QuestionIsNewest'
  <2>1. \A u \in Turns : u # 0  BY <1>0 DEF ChatOK, Turns
  <2> QED  BY <1>1, <2>1 DEF QuestionIsNewest
<1>4. AnswersFollowQuestions'
  <2> SUFFICES ASSUME ~chaCutOff, NEW i \in DOMAIN chaMessages', chaMessages'[i].role = "assistant"
               PROVE  /\ i > 1 /\ chaMessages'[i - 1].role = "user"
                      /\ chaMessages'[i - 1].turn = chaMessages'[i].turn
    BY <1>1 DEF AnswersFollowQuestions
  <2>1. /\ Len(chaMessages) \in Nat
        /\ DOMAIN chaMessages = 1 .. Len(chaMessages) /\ DOMAIN chaMessages' = 1 .. Len(chaMessages) + 1
        /\ \A j \in DOMAIN chaMessages : chaMessages'[j] = chaMessages[j]
        /\ chaMessages'[Len(chaMessages) + 1] = reply
    BY <1>0 DEF ChatOK
  <2>2. CASE i \in DOMAIN chaMessages
    <3>1. /\ i > 1 /\ chaMessages[i - 1].role = "user" /\ chaMessages[i - 1].turn = chaMessages[i].turn
      BY <2>1, <2>2 DEF ChatInv, AnswersFollowQuestions
    <3>2. chaMessages'[i - 1] = chaMessages[i - 1]  BY <2>1, <2>2, <3>1
    <3> QED  BY <2>1, <2>2, <3>1, <3>2
  <2>3. CASE i = Len(chaMessages) + 1
    <3>1. /\ chaMessages # <<>> /\ chaMessages[Len(chaMessages)].role = "user"
          /\ chaMessages[Len(chaMessages)].turn = t
      BY <1>0 DEF ChatInv, QuestionIsNewest
    <3>2. Len(chaMessages) > 0  BY <1>0, <3>1 DEF ChatOK
    <3>3. i - 1 = Len(chaMessages) /\ i > 1 /\ i - 1 \in DOMAIN chaMessages  BY <2>1, <2>3, <3>2
    <3> QED  BY <1>0, <2>1, <2>3, <3>1, <3>3
  <2> QED  BY <2>1, <2>2, <2>3
<1> QED  BY <1>1, <1>2, <1>3, <1>4 DEF ChatInv

\* Nothing is left below which an answer could stand wrongly, unless one is
\* still to come.
LEMMA ClearChatKeeps ==
    ASSUME ChatInv, ClearChat
    PROVE  ChatInv'
<1>0. /\ chaMessages' = <<>> /\ chaSending' = FALSE /\ chaFailed' = 0 /\ chaCalls' = chaCalls
      /\ chaCutOff' = (\E t \in Turns : InFlight(t))
  BY DEF ClearChat
<1>1. ChatOK'
  <2>1. chaMessages' \in Seq(ChatMessages)  BY <1>0, EmptySeq
  <2>5. chaSending' \in BOOLEAN  BY <1>0, Zenon
  <2>4. chaCutOff' \in BOOLEAN  BY <1>0, Zenon
  <2>2. chaCalls \in Seq(ChatCalls)  BY DEF ChatInv, ChatOK
  <2>3. chaFailed' \in 0 .. Len(chaCalls)  BY <1>0, <2>2
  <2> QED  BY <1>0, <2>1, <2>2, <2>3, <2>4, <2>5 DEF ChatOK
<1>2. ~chaCutOff' => \A t \in Turns : ~InFlight(t)'  BY <1>0 DEF InFlight
<1>3. OneUnderWay'  BY <1>0, <1>2 DEF OneUnderWay, Turns
<1>4. QuestionIsNewest'
  <2>1. \A t \in Turns : t # 0  BY DEF ChatInv, ChatOK, Turns
  <2> QED  BY <1>0, <1>2, <2>1 DEF QuestionIsNewest, Turns
<1>5. AnswersFollowQuestions'  BY <1>0 DEF AnswersFollowQuestions
<1>6. AskedAreShort' /\ RefusedForLength'  BY <1>0 DEF ChatInv, AskedAreShort, RefusedForLength, Turns
<1> QED  BY <1>1, <1>3, <1>4, <1>5, <1>6 DEF ChatInv

LEMMA ChatAlways == ChatSpec => []ChatInv
<1>1. ChatInit => ChatInv
  <2> SUFFICES ASSUME ChatInit  PROVE ChatInv
    OBVIOUS
  <2>1. chaMessages = <<>> /\ chaCalls = <<>> /\ chaSending = FALSE /\ chaCutOff = FALSE /\ chaFailed = 0
    BY DEF ChatInit, ChatStart
  <2>2. chaMessages \in Seq(ChatMessages) /\ chaCalls \in Seq(ChatCalls) /\ Len(chaCalls) = 0 /\ Turns = {}
    BY <2>1 DEF Turns
  <2>3. ChatOK
    <3>1. chaSending \in BOOLEAN /\ chaCutOff \in BOOLEAN  BY <2>1
    <3>2. chaFailed \in 0 .. Len(chaCalls)  BY <2>1, <2>2
    <3> QED  BY <2>2, <3>1, <3>2 DEF ChatOK
  <2> QED
    BY <2>1, <2>2, <2>3 DEF ChatInv, OneUnderWay, QuestionIsNewest, AnswersFollowQuestions, AskedAreShort, RefusedForLength
<1>2. ChatInv /\ [ChatNext]_chaVars => ChatInv'
  <2> SUFFICES ASSUME ChatInv, [ChatNext]_chaVars  PROVE ChatInv'
    OBVIOUS
  <2>1. CASE UNCHANGED chaVars
    BY <2>1 DEF chaVars, ChatInv, ChatOK, OneUnderWay, QuestionIsNewest, AnswersFollowQuestions, AskedAreShort,
                RefusedForLength, Turns, InFlight
  <2>2. CASE ChatNext
    BY <2>2, ChatKeeps, SendMessageKeeps, RetryKeeps, RequestFailsKeeps, ReplyArrivesKeeps, ClearChatKeeps
       DEF ChatNext
  <2> QED  BY <2>1, <2>2
<1> QED  BY <1>1, <1>2, PTL DEF ChatSpec

\* In both clients' conversations an answer stands below its own question,
\* whatever fails and is sent again, unless the conversation was cleared with a
\* request under way.
THEOREM AnswersAlwaysFollow == ChatSpec => []AnswersFollowQuestions
<1>1. ChatInv => AnswersFollowQuestions  BY DEF ChatInv
<1> QED  BY <1>1, ChatAlways, PTL

\* validateConversation refuses what a client sends for the length of a text
\* alone, as long as the server takes as many entries as a client sends.
THEOREM OnlyLengthIsRefused == ChatSpec => []RefusedForLength
<1>1. ChatInv => RefusedForLength  BY DEF ChatInv
<1> QED  BY <1>1, ChatAlways, PTL


-----------------------------------------------------------------------------
(* The mobile app's cache.                                                 *)

MobileValues == [session : Nat, rows : [Rows -> Nat]]

EntryRecords ==
    [ state : {"data", "loading", "error"}, value : SUBSET MobileValues,
      age : {"none", "fresh", "stale"}, pending : SUBSET Fetches ]

FetchRecords ==
    [ stage : {"idle", "sent", "refused", "answered"}, session : Nat,
      answer : SUBSET MobileValues, previous : SUBSET MobileValues ]

Pushes == [row : Rows, version : Nat, whole : BOOLEAN]

CacheOK ==
    /\ mobRows \in [Rows -> Nat] /\ mobHeard \in [Rows -> Nat] /\ mobSession \in Nat
    /\ mobEntry \subseteq EntryRecords /\ mobFetch \in [Fetches -> FetchRecords]
    /\ mobChannel \in Seq(Pushes) /\ mobOnline \in BOOLEAN
    /\ mobStoring \in Seq({"write", "clear"})

OfSession(values) == \A value \in values : value.session = mobSession

\* Until a session is outlived by a request, or replaced, everything is of who
\* signed in last.
AllOfSession ==
    ~MayInherit =>
        /\ OfSession(ValueShown)
        /\ \A f \in Fetches :
              /\ mobFetch[f].stage = "sent" => mobFetch[f].session = mobSession
              /\ OfSession(mobFetch[f].answer) /\ OfSession(mobFetch[f].previous)

\* A session that is over has been closed, or will be once the store is cleared.
OverIsClosed ==
    /\ mobSignedIn => mobSocket
    /\ mobSocket => mobSignedIn \/ \E i \in DOMAIN mobStoring : mobStoring[i] = "clear"
    /\ mobOnline => mobSocket

\* After a session is closed nothing of it is left, and nothing comes.
NothingLeft ==
    ~MayInherit /\ ~mobSocket =>
        /\ ValueShown = {}
        /\ \A f \in Fetches : /\ mobFetch[f].stage \in {"idle", "refused"}
                               /\ mobFetch[f].answer = {} /\ mobFetch[f].previous = {}

\* What has been heard of a row is no newer than the row; what has been heard
\* and what is on its way end with its newest version.
ChannelIsComplete ==
    /\ ~mobOnline => mobChannel = <<>>
    /\ \A row \in Rows : mobHeard[row] <= mobRows[row]
    /\ \A i \in DOMAIN mobChannel : mobChannel[i].version <= mobRows[mobChannel[i].row]
    /\ mobOnline => \A row \in Rows :
          /\ (\A i \in DOMAIN mobChannel : mobChannel[i].row # row) => mobHeard[row] = mobRows[row]
          /\ \A i \in DOMAIN mobChannel :
                mobChannel[i].row = row /\ (\A j \in DOMAIN mobChannel : j > i => mobChannel[j].row # row)
                => mobChannel[i].version = mobRows[row]

NotAhead(values) == \A value \in values : \A row \in Rows : value.rows[row] <= mobRows[row]

\* Nothing that is on show, or may be, is newer than the server's rows.
NoneAhead ==
    /\ NotAhead(ValueShown)
    /\ \A f \in Fetches : NotAhead(mobFetch[f].answer) /\ NotAhead(mobFetch[f].previous)

NoneUnderWay == \A f \in Fetches : mobFetch[f] = NoFetch

\* When no request is left, and no cause noted, an entry waits for none and
\* has, if it counts as fetched, all that was heard.
EntryKeepsUp ==
    mobCauses = {} /\ NoneUnderWay => \A e \in mobEntry :
        /\ e.age # "none"
        /\ e.age = "fresh" => \A value \in e.value : ~Outdated(value)

CacheInv ==
    CacheOK /\ AllOfSession /\ OverIsClosed /\ NothingLeft /\ ChannelIsComplete /\ NoneAhead /\ EntryKeepsUp

LEMMA ValuesShown ==
    ASSUME CacheOK
    PROVE  ValueShown \subseteq MobileValues
BY DEF CacheOK, ValueShown, EntryRecords

LEMMA FetchFields ==
    ASSUME CacheOK, NEW f \in Fetches
    PROVE  /\ mobFetch[f].stage \in {"idle", "sent", "refused", "answered"} /\ mobFetch[f].session \in Nat
           /\ mobFetch[f].answer \subseteq MobileValues /\ mobFetch[f].previous \subseteq MobileValues
BY DEF CacheOK, FetchRecords

LEMMA NoFetchFields ==
    NoFetch \in FetchRecords /\ NoFetch.stage = "idle" /\ NoFetch.answer = {} /\ NoFetch.previous = {}
BY DEF NoFetch, FetchRecords

\* An entry that is copied or begun shows what was on show.
LEMMA SameIsShown ==
    ASSUME CacheOK, Invalidate
    PROVE  /\ mobEntry' \subseteq EntryRecords /\ ValueShown' = ValueShown
           /\ \A e \in mobEntry' : e.age = "stale"
<1>1. ASSUME NEW e \in mobEntry
      PROVE  /\ CopyStale(e) \in EntryRecords /\ CopyStale(e).value = e.value
             /\ CopyStale(e).age = "stale"
  BY DEF CacheOK, CopyStale, EntryRecords
<1>2. mobEntry' = {CopyStale(e) : e \in mobEntry}  BY DEF Invalidate
<1>3. ValueShown' = ValueShown  BY <1>1, <1>2 DEF ValueShown
<1> QED  BY <1>1, <1>2, <1>3

LEMMA OneEntryShown ==
    ASSUME NEW state, NEW values, NEW age, NEW pending, mobEntry' = {Entry(state, values, age, pending)}
    PROVE  ValueShown' = values
BY DEF ValueShown, Entry

LEMMA Noted ==
    ASSUME NEW cause, cause \notin {"outlived", "replaced"}, mobCauses' = Blame(cause)
    PROVE  mobCauses' # {} /\ (MayInherit' <=> MayInherit)
BY DEF Blame, MayInherit

\* The fetches, after one has moved to another record.
LEMMA OneFetchMoves ==
    ASSUME CacheOK, NEW f \in Fetches, NEW fetch \in FetchRecords, mobFetch' = [mobFetch EXCEPT ![f] = fetch]
    PROVE  /\ mobFetch' \in [Fetches -> FetchRecords]
           /\ mobFetch'[f] = fetch
           /\ \A g \in Fetches \ {f} : mobFetch'[g] = mobFetch[g]
BY DEF CacheOK

LEMMA RefreshKeeps ==
    ASSUME CacheInv, NEW f \in Fetches, Refresh(f)
    PROVE  CacheInv'
<1>0. CacheOK  BY DEF CacheInv
<1>1. PICK fetch : fetch = [NoFetch EXCEPT !.stage = IF mobSignedIn THEN "sent" ELSE "refused",
                                            !.session = mobSession, !.previous = ValueShown]
  OBVIOUS
<1>2. /\ fetch \in FetchRecords /\ fetch.stage = (IF mobSignedIn THEN "sent" ELSE "refused")
      /\ fetch.session = mobSession
      /\ fetch.answer = {} /\ fetch.previous = ValueShown
  BY <1>0, <1>1, ValuesShown DEF NoFetch, FetchRecords, CacheOK
<1>3. /\ mobFetch' = [mobFetch EXCEPT ![f] = fetch]
      /\ mobEntry' = {Entry("loading", ValueShown, "none", {f})}
      /\ UNCHANGED <<mobRows, mobSession, mobSignedIn, mobStoring, mobSocket, mobOnline, mobChannel, mobHeard, mobCauses>>
  BY <1>1 DEF Refresh, sessionVars
<1>4. ValueShown' = ValueShown  BY <1>3, OneEntryShown
<1>5. CacheOK'
  <2>1. mobEntry' \subseteq EntryRecords  BY <1>0, <1>3, ValuesShown DEF Entry, EntryRecords
  <2> QED  BY <1>0, <1>2, <1>3, <2>1, OneFetchMoves DEF CacheOK
<1>6. AllOfSession'
  BY <1>0, <1>2, <1>3, <1>4, OneFetchMoves DEF CacheInv, AllOfSession, OfSession, MayInherit
<1>c. OverIsClosed'  BY <1>3 DEF CacheInv, OverIsClosed
<1>l. NothingLeft'
  <2>1. ~mobSocket => ~mobSignedIn  BY DEF CacheInv, OverIsClosed
  <2>2. ~mobSocket => fetch.stage = "refused"  BY <1>2, <2>1
  <2> QED  BY <1>0, <1>2, <1>3, <1>4, <2>2, OneFetchMoves DEF CacheInv, NothingLeft, MayInherit
<1>7. NoneAhead'
  BY <1>0, <1>2, <1>3, <1>4, OneFetchMoves DEF CacheInv, NoneAhead, NotAhead
<1>8. ChannelIsComplete'  BY <1>3 DEF CacheInv, ChannelIsComplete
<1>9. EntryKeepsUp'
  BY <1>0, <1>2, <1>3, OneFetchMoves, NoFetchFields DEF EntryKeepsUp, NoneUnderWay
<1> QED  BY <1>5, <1>6, <1>c, <1>l, <1>7, <1>8, <1>9 DEF CacheInv

LEMMA ServerAnswersKeeps ==
    ASSUME CacheInv, NEW f \in Fetches, ServerAnswers(f)
    PROVE  CacheInv'
<1>0. CacheOK  BY DEF CacheInv
<1>1. PICK fetch : fetch = [mobFetch[f] EXCEPT !.stage = "answered", !.answer = {Value(mobFetch[f].session, mobRows)}]
  OBVIOUS
<1>v. Value(mobFetch[f].session, mobRows) \in MobileValues
  BY <1>0, FetchFields DEF Value, MobileValues, CacheOK
<1>2. /\ fetch \in FetchRecords /\ fetch.stage = "answered" /\ fetch.session = mobFetch[f].session
      /\ fetch.answer = {Value(mobFetch[f].session, mobRows)} /\ fetch.previous = mobFetch[f].previous
  BY <1>0, <1>1, <1>v DEF FetchRecords, CacheOK
<1>3. /\ mobFetch' = [mobFetch EXCEPT ![f] = fetch]
      /\ UNCHANGED <<mobRows, mobSession, mobSignedIn, mobStoring, mobSocket, mobEntry, mobOnline, mobChannel, mobHeard, mobCauses>>
  BY <1>0, <1>1 DEF ServerAnswers, CacheOK, sessionVars
<1>4. ValueShown' = ValueShown  BY <1>3 DEF ValueShown
<1>5. CacheOK'  BY <1>0, <1>2, <1>3, OneFetchMoves DEF CacheOK
<1>6. AllOfSession'
  <2>1. mobFetch[f].stage = "sent"  BY DEF ServerAnswers
  <2>2. ~MayInherit => OfSession(fetch.answer) /\ OfSession(fetch.previous) /\ fetch.session = mobSession
    BY <1>2, <2>1 DEF CacheInv, AllOfSession, OfSession, Value
  <2> QED
    BY <1>0, <1>2, <1>3, <1>4, <2>2, OneFetchMoves DEF CacheInv, AllOfSession, OfSession, MayInherit
<1>c. OverIsClosed'  BY <1>3 DEF CacheInv, OverIsClosed
<1>l. NothingLeft'
  <2>1. mobFetch[f].stage = "sent"  BY DEF ServerAnswers
  <2>2. MayInherit \/ mobSocket  BY <2>1 DEF CacheInv, NothingLeft
  <2> QED  BY <1>3, <2>2 DEF NothingLeft, MayInherit
<1>7. NoneAhead'
  <2>1. NotAhead(fetch.answer) /\ NotAhead(fetch.previous)
    BY <1>0, <1>2 DEF CacheInv, NoneAhead, NotAhead, Value, CacheOK
  <2> QED  BY <1>0, <1>2, <1>3, <1>4, <2>1, OneFetchMoves DEF CacheInv, NoneAhead, NotAhead
<1>8. ChannelIsComplete'  BY <1>3 DEF CacheInv, ChannelIsComplete
<1>9. EntryKeepsUp'
  BY <1>0, <1>2, <1>3, OneFetchMoves, NoFetchFields DEF EntryKeepsUp, NoneUnderWay
<1> QED  BY <1>5, <1>6, <1>c, <1>l, <1>7, <1>8, <1>9 DEF CacheInv

\* An answer that is older than what was heard is noted.
LEMMA SucceedKeeps ==
    ASSUME CacheInv, NEW f \in Fetches, Succeed(f)
    PROVE  CacheInv'
<1>0. CacheOK  BY DEF CacheInv
<1>1. PICK value \in mobFetch[f].answer :
         /\ SetData(value)
         /\ mobCauses' = IF mobSignedIn /\ value = Value(mobSession, mobRows) /\ NothingElseUnderWay(f) THEN {}
                         ELSE IF Outdated(value) THEN Blame("overtaken")
                         ELSE mobCauses
  BY DEF Succeed
<1>2. /\ mobFetch' = [mobFetch EXCEPT ![f] = NoFetch]
      /\ mobEntry' = {Entry("data", {value}, "fresh", {})}
      /\ UNCHANGED <<mobRows, mobSession, mobSignedIn, mobStoring, mobSocket, mobOnline, mobChannel, mobHeard>>
  BY <1>1 DEF Succeed, Ends, SetData, sessionVars
<1>3. ValueShown' = {value} /\ value \in MobileValues
  BY <1>0, <1>2, FetchFields, OneEntryShown
<1>4. CacheOK'
  <2>1. mobEntry' \subseteq EntryRecords  BY <1>2, <1>3 DEF Entry, EntryRecords
  <2> QED  BY <1>0, <1>2, <2>1, NoFetchFields, OneFetchMoves DEF CacheOK
<1>5. AllOfSession'
  <2>1. CASE mobSignedIn /\ value = Value(mobSession, mobRows) /\ NothingElseUnderWay(f)
    <3>1. value.session = mobSession  BY <2>1 DEF Value
    <3>2. \A g \in Fetches : mobFetch'[g] = NoFetch
      BY <1>0, <1>2, <2>1, NoFetchFields, OneFetchMoves DEF NothingElseUnderWay
    <3> QED  BY <1>2, <1>3, <3>1, <3>2, NoFetchFields DEF AllOfSession, OfSession
  <2>2. CASE ~(mobSignedIn /\ value = Value(mobSession, mobRows) /\ NothingElseUnderWay(f))
    <3>1. MayInherit' <=> MayInherit
      BY <1>1, <2>2, Noted DEF MayInherit
    <3>2. ~MayInherit => value.session = mobSession
      BY DEF CacheInv, AllOfSession, OfSession
    <3> QED
      BY <1>0, <1>2, <1>3, <3>1, <3>2, NoFetchFields, OneFetchMoves DEF CacheInv, AllOfSession, OfSession
  <2> QED  BY <2>1, <2>2
<1>c. OverIsClosed'  BY <1>2 DEF CacheInv, OverIsClosed
<1>l. NothingLeft'
  <2>1. CASE mobSignedIn
    BY <1>2, <2>1 DEF NothingLeft, CacheInv, OverIsClosed
  <2>2. CASE ~mobSignedIn
    <3>1. MayInherit' <=> MayInherit  BY <1>1, <2>2, Noted DEF MayInherit
    <3>2. MayInherit \/ mobSocket  BY DEF CacheInv, NothingLeft
    <3> QED  BY <1>2, <3>1, <3>2 DEF NothingLeft
  <2> QED  BY <2>1, <2>2
<1>6. NoneAhead'
  <2>1. NotAhead({value})  BY DEF CacheInv, NoneAhead, NotAhead
  <2> QED
    BY <1>0, <1>2, <1>3, <2>1, NoFetchFields, OneFetchMoves DEF CacheInv, NoneAhead, NotAhead
<1>7. ChannelIsComplete'  BY <1>2 DEF CacheInv, ChannelIsComplete
<1>8. EntryKeepsUp'
  <2> SUFFICES ASSUME mobCauses' = {}  PROVE ~Outdated(value)
    BY <1>2 DEF EntryKeepsUp, Entry, Outdated
  <2>1. CASE mobSignedIn /\ value = Value(mobSession, mobRows) /\ NothingElseUnderWay(f)
    <3>1. value.rows = mobRows  BY <2>1 DEF Value
    <3> QED  BY <1>0, <3>1 DEF Outdated, CacheInv, ChannelIsComplete, CacheOK
  <2>2. CASE ~(mobSignedIn /\ value = Value(mobSession, mobRows) /\ NothingElseUnderWay(f))
    BY <1>1, <2>2 DEF Blame
  <2> QED  BY <2>1, <2>2
<1> QED  BY <1>4, <1>5, <1>c, <1>l, <1>6, <1>7, <1>8 DEF CacheInv

\* A failure is noted, whatever it brings back.
LEMMA FailuresKeep ==
    ASSUME CacheInv, NEW f \in Fetches, Fail(f) \/ Throw(f)
    PROVE  CacheInv'
<1>0. CacheOK  BY DEF CacheInv
<1>1. /\ mobFetch' = [mobFetch EXCEPT ![f] = NoFetch]
      /\ mobEntry' = mobEntry \/ mobEntry' = {Entry("error", mobFetch[f].previous, "fresh", {})}
      /\ mobCauses' = Blame("failed")
      /\ UNCHANGED <<mobRows, mobSession, mobSignedIn, mobStoring, mobSocket, mobOnline, mobChannel, mobHeard>>
  BY DEF Fail, Throw, Ends, sessionVars
<1>2. ValueShown' = ValueShown \/ ValueShown' = mobFetch[f].previous
  BY <1>1, OneEntryShown DEF ValueShown
<1>3. mobCauses' # {} /\ (MayInherit' <=> MayInherit)
  BY <1>1, Noted
<1>4. CacheOK'
  <2>1. mobEntry' \subseteq EntryRecords
    <3>1. Entry("error", mobFetch[f].previous, "fresh", {}) \in EntryRecords
      BY <1>0, FetchFields DEF Entry, EntryRecords
    <3>2. mobEntry \subseteq EntryRecords  BY <1>0 DEF CacheOK
    <3> QED  BY <1>1, <3>1, <3>2
  <2>2. mobFetch' \in [Fetches -> FetchRecords]  BY <1>0, <1>1, NoFetchFields, OneFetchMoves
  <2> QED  BY <1>0, <1>1, <2>1, <2>2 DEF CacheOK
<1>5. AllOfSession'
  BY <1>0, <1>1, <1>2, <1>3, NoFetchFields, OneFetchMoves DEF CacheInv, AllOfSession, OfSession
<1>c. OverIsClosed'  BY <1>1 DEF CacheInv, OverIsClosed
<1>l. NothingLeft'
  BY <1>0, <1>1, <1>2, <1>3, NoFetchFields, OneFetchMoves DEF CacheInv, NothingLeft
<1>6. NoneAhead'
  BY <1>0, <1>1, <1>2, NoFetchFields, OneFetchMoves DEF CacheInv, NoneAhead, NotAhead
<1>7. ChannelIsComplete'  BY <1>1 DEF CacheInv, ChannelIsComplete
<1>8. EntryKeepsUp'  BY <1>3 DEF EntryKeepsUp
<1> QED  BY <1>4, <1>5, <1>c, <1>l, <1>6, <1>7, <1>8 DEF CacheInv

LEMMA GrowStaleKeeps ==
    ASSUME CacheInv, GrowStale
    PROVE  CacheInv'
<1>0. CacheOK  BY DEF CacheInv
<1>1. PICK e \in mobEntry : mobEntry' = {[e EXCEPT !.age = "stale"]}  BY DEF GrowStale
<1>2. PICK old : mobEntry' = {old} /\ old = [e EXCEPT !.age = "stale"]  BY <1>1
<1>3. old \in EntryRecords /\ old.value = e.value /\ old.age = "stale"
  BY <1>0, <1>2 DEF CacheOK, EntryRecords
<1>4. ValueShown' \subseteq ValueShown  BY <1>2, <1>3 DEF ValueShown
<1>5. UNCHANGED <<mobRows, mobSession, mobSignedIn, mobStoring, mobSocket, mobFetch, mobOnline, mobChannel, mobHeard, mobCauses>>
  BY DEF GrowStale, sessionVars
<1>6. CacheOK'  BY <1>0, <1>2, <1>3, <1>5 DEF CacheOK
<1>7. AllOfSession' /\ NoneAhead'
  BY <1>4, <1>5 DEF CacheInv, AllOfSession, OfSession, NoneAhead, NotAhead, MayInherit
<1>c. OverIsClosed' /\ NothingLeft'
  BY <1>4, <1>5 DEF CacheInv, OverIsClosed, NothingLeft, MayInherit
<1>8. ChannelIsComplete'  BY <1>5 DEF CacheInv, ChannelIsComplete
<1>9. EntryKeepsUp'  BY <1>2, <1>3 DEF EntryKeepsUp
<1> QED  BY <1>6, <1>7, <1>c, <1>8, <1>9 DEF CacheInv

\* A change of a row: what is on its way ends with it, if the socket is up.
LEMMA RowChangesKeeps ==
    ASSUME CacheInv, NEW row \in Rows, NEW whole \in BOOLEAN, RowChanges(row, whole)
    PROVE  CacheInv'
<1>0. CacheOK /\ ChannelIsComplete  BY DEF CacheInv
<1>1. /\ mobRows' = [mobRows EXCEPT ![row] = @ + 1]
      /\ UNCHANGED <<mobSession, mobSignedIn, mobStoring, mobSocket, mobEntry, mobFetch, mobOnline, mobHeard, mobCauses>>
  BY DEF RowChanges, sessionVars
<1>2. PICK push : push = [row |-> row, version |-> mobRows'[row], whole |-> whole]  OBVIOUS
<1>3. /\ mobRows' \in [Rows -> Nat] /\ mobRows'[row] = mobRows[row] + 1
      /\ \A r \in Rows : mobRows[r] <= mobRows'[r] /\ (r # row => mobRows'[r] = mobRows[r])
  BY <1>0, <1>1 DEF CacheOK
<1>4. push \in Pushes /\ push.row = row /\ push.version = mobRows'[row]
  BY <1>2, <1>3 DEF Pushes
<1>5. mobChannel' = IF mobOnline THEN Append(mobChannel, push) ELSE mobChannel
  BY <1>2 DEF RowChanges
<1>6. ValueShown' = ValueShown  BY <1>1 DEF ValueShown
<1>7. CacheOK'
  <2>1. mobChannel' \in Seq(Pushes)  BY <1>0, <1>4, <1>5 DEF CacheOK
  <2> QED  BY <1>0, <1>1, <1>3, <2>1 DEF CacheOK
<1>8. AllOfSession' /\ OverIsClosed' /\ NothingLeft'
  BY <1>1, <1>6 DEF CacheInv, AllOfSession, OfSession, OverIsClosed, NothingLeft, MayInherit
<1>9. NoneAhead'
  <2>1. ASSUME NEW values, values \subseteq MobileValues, NotAhead(values)
        PROVE  \A value \in values : \A r \in Rows : value.rows[r] <= mobRows'[r]
    <3> SUFFICES ASSUME NEW value \in values, NEW r \in Rows  PROVE value.rows[r] <= mobRows'[r]
      OBVIOUS
    <3>1. value.rows[r] \in Nat /\ value.rows[r] <= mobRows[r]  BY <2>1 DEF MobileValues, NotAhead
    <3> QED  BY <1>0, <1>3, <3>1 DEF CacheOK
  <2>2. NotAhead(ValueShown)'
    BY <1>0, <1>6, <2>1, ValuesShown DEF CacheInv, NoneAhead, NotAhead
  <2>3. ASSUME NEW f \in Fetches  PROVE NotAhead(mobFetch[f].answer)' /\ NotAhead(mobFetch[f].previous)'
    BY <1>0, <1>1, <2>1, FetchFields DEF CacheInv, NoneAhead, NotAhead
  <2> QED  BY <2>2, <2>3 DEF NoneAhead
<1>10. ChannelIsComplete'
  <2>1. \A r \in Rows : mobHeard'[r] <= mobRows'[r]
    BY <1>0, <1>1, <1>3 DEF ChannelIsComplete, CacheOK
  <2>2. CASE ~mobOnline
    BY <1>0, <1>1, <1>5, <2>1, <2>2 DEF ChannelIsComplete
  <2>3. CASE mobOnline
    <3>1. /\ DOMAIN mobChannel = 1 .. Len(mobChannel) /\ Len(mobChannel) \in Nat
          /\ DOMAIN mobChannel' = 1 .. Len(mobChannel) + 1
          /\ mobChannel'[Len(mobChannel) + 1] = push
          /\ \A i \in DOMAIN mobChannel : mobChannel'[i] = mobChannel[i] /\ mobChannel[i] \in Pushes
      BY <1>0, <1>4, <1>5, <2>3 DEF CacheOK
    <3>2. \A i \in DOMAIN mobChannel' : mobChannel'[i].version <= mobRows'[mobChannel'[i].row]
      <4> TAKE i \in DOMAIN mobChannel'
      <4>1. CASE i = Len(mobChannel) + 1
        BY <1>3, <1>4, <3>1, <4>1
      <4>2. CASE i \in DOMAIN mobChannel
        <5>1. /\ mobChannel'[i] = mobChannel[i] /\ mobChannel[i].row \in Rows /\ mobChannel[i].version \in Nat
              /\ mobChannel[i].version <= mobRows[mobChannel[i].row]
          BY <1>0, <3>1, <4>2 DEF Pushes, ChannelIsComplete
        <5> QED  BY <1>0, <1>3, <5>1 DEF CacheOK
      <4> QED  BY <3>1, <4>1, <4>2
    <3>3. ASSUME NEW r \in Rows, \A i \in DOMAIN mobChannel' : mobChannel'[i].row # r
          PROVE  mobHeard'[r] = mobRows'[r]
      <4>1. r # row  BY <1>4, <3>1, <3>3
      <4>2. \A i \in DOMAIN mobChannel : mobChannel[i].row # r  BY <3>1, <3>3
      <4> QED  BY <1>0, <1>1, <1>3, <2>3, <4>1, <4>2 DEF ChannelIsComplete
    <3>4. ASSUME NEW r \in Rows, NEW i \in DOMAIN mobChannel', mobChannel'[i].row = r,
                 \A j \in DOMAIN mobChannel' : j > i => mobChannel'[j].row # r
          PROVE  mobChannel'[i].version = mobRows'[r]
      <4>1. CASE i = Len(mobChannel) + 1
        BY <1>4, <3>1, <3>4, <4>1
      <4>2. CASE i \in DOMAIN mobChannel
        <5>1. r # row  BY <1>4, <3>1, <3>4, <4>2
        <5>2. \A j \in DOMAIN mobChannel : j > i => mobChannel[j].row # r  BY <3>1, <3>4
        <5>3. mobChannel[i].version = mobRows[r]
          BY <1>0, <2>3, <3>1, <3>4, <4>2, <5>2 DEF ChannelIsComplete
        <5> QED  BY <1>3, <3>1, <4>2, <5>1, <5>3
      <4> QED  BY <3>1, <4>1, <4>2
    <3> QED  BY <1>1, <2>1, <2>3, <3>2, <3>3, <3>4 DEF ChannelIsComplete
  <2> QED  BY <2>2, <2>3
<1>11. EntryKeepsUp'  BY <1>1 DEF CacheInv, EntryKeepsUp, NoneUnderWay, Outdated
<1> QED  BY <1>7, <1>8, <1>9, <1>10, <1>11 DEF CacheInv

\* What a push brings is heard, and taken off the channel.
LEMMA ChannelAdvances ==
    ASSUME CacheInv, HearPush
    PROVE  /\ ChannelIsComplete' /\ mobChannel' \in Seq(Pushes) /\ mobHeard' \in [Rows -> Nat]
           /\ mobChannel[1] \in Pushes /\ mobChannel[1] = Head(mobChannel)
           /\ mobChannel[1].version <= mobRows[mobChannel[1].row]
<1>0. CacheOK /\ ChannelIsComplete  BY DEF CacheInv
<1>1. /\ mobChannel # <<>> /\ mobChannel' = Tail(mobChannel)
      /\ mobHeard' = [mobHeard EXCEPT ![Head(mobChannel).row] = Head(mobChannel).version]
      /\ UNCHANGED <<mobRows, mobOnline>>
  BY DEF HearPush
<1>2. /\ mobChannel' \in Seq(Pushes) /\ Head(mobChannel) = mobChannel[1] /\ mobChannel[1] \in Pushes
      /\ 1 \in DOMAIN mobChannel
      /\ \A i \in DOMAIN mobChannel' : /\ i \in Nat /\ i > 0 /\ i + 1 \in DOMAIN mobChannel
                                       /\ mobChannel'[i] = mobChannel[i + 1]
      /\ \A j \in DOMAIN mobChannel : j \in Nat /\ (j = 1 \/ (j > 1 /\ j - 1 \in DOMAIN mobChannel'))
  BY <1>0, <1>1 DEF CacheOK
<1>3. PICK push \in Pushes : push = mobChannel[1]  BY <1>2
<1>4. push.row \in Rows /\ push.version \in Nat /\ push.version <= mobRows[push.row]
  BY <1>0, <1>2, <1>3 DEF ChannelIsComplete, Pushes
<1>5. mobHeard' = [mobHeard EXCEPT ![push.row] = push.version]  BY <1>1, <1>2, <1>3
<1>6. mobHeard' \in [Rows -> Nat] /\ \A r \in Rows : mobHeard'[r] <= mobRows[r]
  BY <1>0, <1>4, <1>5 DEF CacheOK, ChannelIsComplete
<1>7. \A i \in DOMAIN mobChannel' : mobChannel'[i].version <= mobRows[mobChannel'[i].row]
  BY <1>0, <1>2 DEF ChannelIsComplete
<1>8. mobOnline  BY <1>0, <1>1 DEF ChannelIsComplete
<1>9. \A j \in DOMAIN mobChannel : j > 1 => mobChannel[j] = mobChannel'[j - 1] /\ j - 1 \in DOMAIN mobChannel'
  BY <1>2
<1>10. ASSUME NEW r \in Rows, \A i \in DOMAIN mobChannel' : mobChannel'[i].row # r
       PROVE  mobHeard'[r] = mobRows[r]
  <2>1. \A j \in DOMAIN mobChannel : j > 1 => mobChannel[j].row # r  BY <1>9, <1>10
  <2>2. CASE push.row = r
    <3>1. push.version = mobRows[r]  BY <1>0, <1>2, <1>3, <1>8, <2>1, <2>2 DEF ChannelIsComplete
    <3> QED  BY <1>0, <1>5, <2>2, <3>1 DEF CacheOK
  <2>3. CASE push.row # r
    <3>1. \A j \in DOMAIN mobChannel : mobChannel[j].row # r  BY <1>2, <1>3, <2>1, <2>3
    <3>2. mobHeard[r] = mobRows[r]  BY <1>0, <1>8, <3>1 DEF ChannelIsComplete
    <3> QED  BY <1>0, <1>5, <2>3, <3>2 DEF CacheOK
  <2> QED  BY <2>2, <2>3
<1>11. ASSUME NEW r \in Rows, NEW i \in DOMAIN mobChannel', mobChannel'[i].row = r,
              \A j \in DOMAIN mobChannel' : j > i => mobChannel'[j].row # r
       PROVE  mobChannel'[i].version = mobRows[r]
  <2>1. i \in Nat /\ i > 0 /\ i + 1 \in DOMAIN mobChannel /\ mobChannel'[i] = mobChannel[i + 1]  BY <1>2
  <2>2. ASSUME NEW j \in DOMAIN mobChannel, j > i + 1  PROVE mobChannel[j].row # r
    <3>1. j \in Nat /\ j > 1 /\ j - 1 > i  BY <1>2, <2>1, <2>2
    <3> QED  BY <1>9, <1>11, <3>1
  <2> QED  BY <1>0, <1>8, <1>11, <2>1, <2>2 DEF ChannelIsComplete
<1>12. ChannelIsComplete'
  BY <1>1, <1>6, <1>7, <1>8, <1>10, <1>11 DEF ChannelIsComplete
<1> QED  BY <1>2, <1>3, <1>4, <1>6, <1>12

\* A push that patches what counts as fetched leaves it with all that was
\* heard; patching what had been invalidated is noted.
LEMMA HearPushKeeps ==
    ASSUME CacheInv, HearPush
    PROVE  CacheInv'
<1>0. CacheOK  BY DEF CacheInv
<1>1. PICK push \in Pushes : push = Head(mobChannel) /\ push.version <= mobRows[push.row]
  BY ChannelAdvances
<1>2. /\ IF push.whole /\ ValueShown # {}
            THEN \E value \in ValueShown : SetData([value EXCEPT !.rows[push.row] = push.version])
            ELSE Invalidate
      /\ mobHeard' = [mobHeard EXCEPT ![push.row] = push.version]
      /\ mobCauses' = IF push.whole /\ \E e \in mobEntry : e.age = "stale" /\ e.value # {}
                         THEN Blame("freshened") ELSE mobCauses
      /\ UNCHANGED <<mobRows, mobSession, mobSignedIn, mobStoring, mobSocket, mobFetch, mobOnline>>
  BY <1>1 DEF HearPush, sessionVars
<1>3. push.row \in Rows /\ push.version \in Nat  BY DEF Pushes
<1>4. /\ MayInherit' <=> MayInherit
      /\ mobCauses' = {} => /\ mobCauses = {}
                            /\ push.whole => \A e \in mobEntry : e.age = "stale" => e.value = {}
  <2>1. CASE push.whole /\ \E e \in mobEntry : e.age = "stale" /\ e.value # {}
    <3>1. mobCauses' = Blame("freshened")  BY <1>2, <2>1
    <3> QED  BY <3>1, Noted
  <2>2. CASE ~(push.whole /\ \E e \in mobEntry : e.age = "stale" /\ e.value # {})
    BY <1>2, <2>2 DEF MayInherit
  <2> QED  BY <2>1, <2>2
<1>c. mobSocket /\ OverIsClosed' /\ NothingLeft'
  <2>1. mobSocket  BY DEF HearPush, CacheInv, ChannelIsComplete, OverIsClosed
  <2> QED  BY <1>2, <2>1 DEF CacheInv, OverIsClosed, NothingLeft
<1>5. ChannelIsComplete' /\ mobChannel' \in Seq(Pushes) /\ mobHeard' \in [Rows -> Nat]
  BY ChannelAdvances
<1>6. CASE push.whole /\ ValueShown # {}
  <2>1. PICK value \in ValueShown : SetData([value EXCEPT !.rows[push.row] = push.version])
    BY <1>2, <1>6
  <2>2. PICK patched : patched = [value EXCEPT !.rows[push.row] = push.version]  OBVIOUS
  <2>3. value \in MobileValues  BY <1>0, ValuesShown
  <2>4. /\ patched \in MobileValues /\ patched.session = value.session
        /\ patched.rows = [value.rows EXCEPT ![push.row] = push.version]
    BY <1>3, <2>2, <2>3 DEF MobileValues
  <2>5. mobEntry' = {Entry("data", {patched}, "fresh", {})}  BY <2>1, <2>2 DEF SetData
  <2>6. ValueShown' = {patched}  BY <2>5, OneEntryShown
  <2>7. CacheOK'
    <3>1. mobEntry' \subseteq EntryRecords  BY <2>4, <2>5 DEF Entry, EntryRecords
    <3> QED  BY <1>0, <1>2, <1>5, <3>1 DEF CacheOK
  <2>8. AllOfSession'
    BY <1>2, <1>4, <2>4, <2>6 DEF CacheInv, AllOfSession, OfSession
  <2>9. NoneAhead'
    <3>1. \A r \in Rows : value.rows[r] <= mobRows[r]  BY DEF CacheInv, NoneAhead, NotAhead
    <3>2. value.rows \in [Rows -> Nat]  BY <2>3 DEF MobileValues
    <3>3. \A r \in Rows : patched.rows[r] <= mobRows[r]  BY <1>1, <1>3, <2>4, <3>1, <3>2
    <3> QED  BY <1>2, <2>6, <3>3 DEF CacheInv, NoneAhead, NotAhead
  <2>10. EntryKeepsUp'
    <3> SUFFICES ASSUME mobCauses' = {}, NoneUnderWay'
                 PROVE  \A r \in Rows : ~(patched.rows[r] < mobHeard'[r])
      BY <2>5 DEF EntryKeepsUp, Entry, Outdated
    <3>1. mobCauses = {} /\ NoneUnderWay  BY <1>2, <1>4 DEF NoneUnderWay
    <3>2. PICK e \in mobEntry : value \in e.value  BY DEF ValueShown
    <3>3. e.age = "fresh"
      <4>1. e.age # "stale"  BY <1>4, <1>6, <3>2
      <4>2. e.age # "none"  BY <3>1 DEF CacheInv, EntryKeepsUp
      <4> QED  BY <1>0, <4>1, <4>2 DEF CacheOK, EntryRecords
    <3>4. \A r \in Rows : ~(value.rows[r] < mobHeard[r])
      BY <3>1, <3>2, <3>3 DEF CacheInv, EntryKeepsUp, Outdated
    <3>5. value.rows \in [Rows -> Nat] /\ mobHeard \in [Rows -> Nat]  BY <1>0, <2>3 DEF MobileValues, CacheOK
    <3> QED  BY <1>2, <1>3, <2>4, <3>4, <3>5
  <2> QED  BY <1>5, <1>c, <2>7, <2>8, <2>9, <2>10 DEF CacheInv
<1>7. CASE ~(push.whole /\ ValueShown # {})
  <2>1. Invalidate  BY <1>2, <1>7
  <2>2. mobEntry' \subseteq EntryRecords /\ ValueShown' = ValueShown /\ \A e \in mobEntry' : e.age = "stale"
    BY <1>0, <2>1, SameIsShown
  <2>3. CacheOK'  BY <1>0, <1>2, <1>5, <2>2 DEF CacheOK
  <2>4. AllOfSession'  BY <1>2, <1>4, <2>2 DEF CacheInv, AllOfSession, OfSession
  <2>5. NoneAhead'  BY <1>2, <2>2 DEF CacheInv, NoneAhead, NotAhead
  <2>6. EntryKeepsUp'  BY <2>2 DEF EntryKeepsUp
  <2> QED  BY <1>5, <1>c, <2>3, <2>4, <2>5, <2>6 DEF CacheInv
<1> QED  BY <1>6, <1>7

LEMMA ConnectionsKeep ==
    ASSUME CacheInv, Reconnect \/ LoseConnection
    PROVE  CacheInv'
<1>0. CacheOK  BY DEF CacheInv
<1>1. UNCHANGED <<mobRows, mobSession, mobSignedIn, mobStoring, mobSocket, mobFetch, mobCauses>>  
  BY DEF Reconnect, LoseConnection, sessionVars
<1>2. CASE Reconnect
  <2>1. mobEntry' \subseteq EntryRecords /\ ValueShown' = ValueShown /\ \A e \in mobEntry' : e.age = "stale"
    BY <1>0, <1>2, SameIsShown DEF Reconnect
  <2>2. mobChannel = <<>> /\ mobChannel' = <<>> /\ mobHeard' = mobRows /\ mobOnline'
    BY <1>2 DEF Reconnect, CacheInv, ChannelIsComplete
  <2>3. CacheOK'  BY <1>0, <1>1, <1>2, <2>1, <2>2 DEF CacheOK, Reconnect
  <2>4. AllOfSession' /\ NoneAhead'
    BY <1>1, <2>1 DEF CacheInv, AllOfSession, OfSession, NoneAhead, NotAhead, MayInherit
  <2>c. OverIsClosed' /\ NothingLeft'
    BY <1>1, <1>2, <2>1 DEF CacheInv, OverIsClosed, NothingLeft, MayInherit, Reconnect
  <2>5. ChannelIsComplete'  BY <1>0, <1>1, <2>2 DEF ChannelIsComplete, CacheOK
  <2>6. EntryKeepsUp'  BY <2>1 DEF EntryKeepsUp
  <2> QED  BY <2>3, <2>4, <2>c, <2>5, <2>6 DEF CacheInv
<1>3. CASE LoseConnection
  <2>1. mobChannel' = <<>> /\ mobHeard' = mobHeard /\ mobEntry' = mobEntry /\ mobOnline' = FALSE
    BY <1>3 DEF LoseConnection
  <2>2. ValueShown' = ValueShown  BY <2>1 DEF ValueShown
  <2>3. CacheOK'
    <3>1. mobChannel' \in Seq(Pushes)  BY <2>1, EmptySeq
    <3>2. mobOnline' \in BOOLEAN  BY <2>1
    <3> QED  BY <1>0, <1>1, <2>1, <3>1, <3>2 DEF CacheOK
  <2>4. AllOfSession' /\ NoneAhead'
    BY <1>1, <2>2 DEF CacheInv, AllOfSession, OfSession, NoneAhead, NotAhead, MayInherit
  <2>c. OverIsClosed' /\ NothingLeft'
    BY <1>1, <2>1, <2>2 DEF CacheInv, OverIsClosed, NothingLeft, MayInherit
  <2>5. ChannelIsComplete'  BY <1>1, <2>1 DEF CacheInv, ChannelIsComplete
  <2>6. EntryKeepsUp'  BY <1>1, <2>1 DEF CacheInv, EntryKeepsUp, NoneUnderWay, Outdated
  <2> QED  BY <2>3, <2>4, <2>c, <2>5, <2>6 DEF CacheInv
<1> QED  BY <1>2, <1>3

\* A new socket has brought nothing.
LEMMA SocketIsNew ==
    ASSUME CacheOK, NewSocket, UNCHANGED mobRows
    PROVE  /\ mobOnline' = FALSE /\ mobOnline' \in BOOLEAN /\ mobChannel' \in Seq(Pushes)
           /\ mobHeard' = [row \in Rows |-> 0] /\ mobHeard' \in [Rows -> Nat] /\ ChannelIsComplete'
<1>1. mobOnline' = FALSE /\ mobChannel' = <<>> /\ mobHeard' = [row \in Rows |-> 0]  BY DEF NewSocket
<1>2. mobChannel' \in Seq(Pushes)  BY <1>1, EmptySeq
<1>3. mobOnline' \in BOOLEAN  BY <1>1
<1>4. mobHeard' \in [Rows -> Nat] /\ \A row \in Rows : mobHeard'[row] <= mobRows'[row]
  BY <1>1 DEF CacheOK
<1>5. ChannelIsComplete'  BY <1>1, <1>4 DEF ChannelIsComplete
<1> QED  BY <1>1, <1>2, <1>3, <1>4, <1>5

\* A closed session leaves an empty cache; a request that goes on is noted.
LEMMA ClosingKeeps ==
    ASSUME CacheInv, CloseSession, ~mobSignedIn, mobStoring' \in Seq({"write", "clear"})
    PROVE  CacheInv'
<1>0. CacheOK  BY DEF CacheInv
<1>1. /\ mobEntry' = {} /\ mobSocket' = FALSE /\ mobSignedIn' = mobSignedIn
      /\ UNCHANGED <<mobRows, mobSession, mobFetch>>
  BY DEF CloseSession, Clear
<1>2. MayInherit' \/ \A f \in Fetches : mobFetch[f] = NoFetch
  BY DEF CloseSession, MayInherit
<1>3. ValueShown' = {}  BY <1>1 DEF ValueShown
<1>4. /\ mobOnline' = FALSE /\ mobOnline' \in BOOLEAN /\ mobChannel' \in Seq(Pushes)
      /\ mobHeard' \in [Rows -> Nat] /\ ChannelIsComplete'
  BY <1>0, <1>1, SocketIsNew DEF CloseSession
<1>5. CacheOK'  BY <1>0, <1>1, <1>4 DEF CacheOK
<1>6. AllOfSession' /\ NothingLeft'
  BY <1>1, <1>2, <1>3, NoFetchFields DEF AllOfSession, NothingLeft, OfSession
<1>7. OverIsClosed'  BY <1>1, <1>4 DEF OverIsClosed
<1>8. NoneAhead'  BY <1>1, <1>3 DEF CacheInv, NoneAhead, NotAhead
<1>9. EntryKeepsUp'  BY <1>1 DEF EntryKeepsUp
<1> QED  BY <1>4, <1>5, <1>6, <1>7, <1>8, <1>9 DEF CacheInv

\* When neither the session nor the cache is touched, a clear that is pending
\* must stay so if a session that is over is to be closed.
LEMMA StoringKeeps ==
    ASSUME CacheInv, UNCHANGED <<mobRows, mobSession, mobSocket, mobEntry, mobFetch,
                                mobOnline, mobChannel, mobHeard, mobCauses>>,
           mobStoring' \in Seq({"write", "clear"}), OverIsClosed'
    PROVE  CacheInv'
<1>1. CacheOK /\ ValueShown' = ValueShown /\ (MayInherit' <=> MayInherit)
  BY DEF CacheInv, ValueShown, MayInherit
<1>2. CacheOK'  BY <1>1 DEF CacheOK
<1>3. AllOfSession' /\ NothingLeft' /\ NoneAhead'
  BY <1>1 DEF CacheInv, AllOfSession, NothingLeft, OfSession, NoneAhead, NotAhead
<1>4. ChannelIsComplete'  BY DEF CacheInv, ChannelIsComplete
<1>5. EntryKeepsUp'  BY DEF CacheInv, EntryKeepsUp, NoneUnderWay, Outdated
<1> QED  BY <1>2, <1>3, <1>4, <1>5 DEF CacheInv

LEMMA AppendsKeep ==
    ASSUME CacheInv, LogoutBegins \/ SignInAnswered
    PROVE  CacheInv'
<1>1. PICK operation \in {"write", "clear"} :
         /\ mobStoring' = Append(mobStoring, operation)
         /\ operation = "clear" \/ mobSignedIn' = mobSignedIn
         /\ mobSignedIn' => mobSignedIn
         /\ UNCHANGED <<mobRows, mobSession, mobSocket, mobEntry, mobFetch,
                        mobOnline, mobChannel, mobHeard, mobCauses>>
  <2>1. CASE LogoutBegins  BY <2>1 DEF LogoutBegins
  <2>2. CASE SignInAnswered  BY <2>2 DEF SignInAnswered
  <2> QED  BY <2>1, <2>2
<1>2. /\ mobStoring' \in Seq({"write", "clear"})
      /\ \A i \in DOMAIN mobStoring : i \in DOMAIN mobStoring' /\ mobStoring'[i] = mobStoring[i]
      /\ \E i \in DOMAIN mobStoring' : mobStoring'[i] = operation
  <2>1. mobStoring \in Seq({"write", "clear"})  BY DEF CacheInv, CacheOK
  <2>2. Len(mobStoring) + 1 \in DOMAIN mobStoring' /\ mobStoring'[Len(mobStoring) + 1] = operation
    BY <1>1, <2>1
  <2> QED  BY <1>1, <2>1, <2>2
<1>3. OverIsClosed'
  BY <1>1, <1>2 DEF CacheInv, OverIsClosed
<1> QED  BY <1>1, <1>2, <1>3, StoringKeeps

LEMMA TailIsStoring ==
    ASSUME CacheOK, mobStoring # <<>>, mobStoring' = Tail(mobStoring)
    PROVE  mobStoring' \in Seq({"write", "clear"})
BY DEF CacheOK

LEMMA ClearEndsKeeps ==
    ASSUME CacheInv, ClearEnds
    PROVE  CacheInv'
<1>1. mobStoring' \in Seq({"write", "clear"})  BY TailIsStoring DEF ClearEnds, CacheInv
<1>2. CASE mobSignedIn
  <2>1. UNCHANGED <<mobRows, mobSession, mobSignedIn, mobSocket, mobEntry, mobFetch,
                    mobOnline, mobChannel, mobHeard, mobCauses>>
    BY <1>2 DEF ClearEnds
  <2>2. OverIsClosed'  BY <1>2, <2>1 DEF CacheInv, OverIsClosed
  <2> QED  BY <1>1, <2>1, <2>2, StoringKeeps
<1>3. CASE ~mobSignedIn
  BY <1>1, <1>3, ClosingKeeps DEF ClearEnds
<1> QED  BY <1>2, <1>3

LEMMA ProfileArrivesKeeps ==
    ASSUME CacheInv, ProfileArrives
    PROVE  CacheInv'
<1>1. mobStoring' \in Seq({"write", "clear"})  BY DEF ProfileArrives, CacheInv, CacheOK
<1> QED  BY <1>1, ClosingKeeps DEF ProfileArrives

\* Unless it is noted that it replaces one, a session begins with nothing left.
LEMMA WriteEndsKeeps ==
    ASSUME CacheInv, WriteEnds
    PROVE  CacheInv'
<1>0. CacheOK  BY DEF CacheInv
<1>1. /\ mobSession' = mobSession + 1 /\ mobSignedIn' = TRUE /\ mobSocket' = TRUE /\ NewSocket
      /\ mobStoring # <<>> /\ mobStoring' = Tail(mobStoring)
      /\ UNCHANGED <<mobRows, mobEntry, mobFetch>>
  BY DEF WriteEnds
<1>2. /\ mobOnline' = FALSE /\ mobOnline' \in BOOLEAN /\ mobChannel' \in Seq(Pushes)
      /\ mobHeard' = [row \in Rows |-> 0] /\ mobHeard' \in [Rows -> Nat] /\ ChannelIsComplete'
  BY <1>0, <1>1, SocketIsNew
<1>3. ValueShown' = ValueShown  BY <1>1 DEF ValueShown
<1>4. CacheOK'
  <2>1. mobStoring' \in Seq({"write", "clear"})  BY <1>0, <1>1, TailIsStoring
  <2>2. mobSession' \in Nat  BY <1>0, <1>1 DEF CacheOK
  <2> QED  BY <1>0, <1>1, <1>2, <2>1, <2>2 DEF CacheOK
<1>5. MayInherit' \/ (~MayInherit /\ ~mobSocket)
  <2>1. CASE mobSignedIn \/ "clear" \in ToSet(mobStoring)
    <3>1. mobCauses' = {"replaced"}  BY <2>1 DEF WriteEnds
    <3> QED  BY <3>1 DEF MayInherit
  <2>2. CASE ~(mobSignedIn \/ "clear" \in ToSet(mobStoring))
    <3>1. mobCauses' = mobCauses  BY <2>2 DEF WriteEnds
    <3>2. ~mobSocket  BY <2>2 DEF CacheInv, OverIsClosed, ToSet
    <3> QED  BY <3>1, <3>2 DEF MayInherit
  <2> QED  BY <2>1, <2>2
<1>6. AllOfSession'
  BY <1>1, <1>3, <1>5 DEF CacheInv, NothingLeft, AllOfSession, OfSession
<1>7. OverIsClosed' /\ NothingLeft'  BY <1>1, <1>2 DEF OverIsClosed, NothingLeft
<1>8. NoneAhead'  BY <1>1, <1>3 DEF CacheInv, NoneAhead, NotAhead
<1>9. EntryKeepsUp'
  <2> SUFFICES ASSUME mobCauses' = {}, NoneUnderWay'
               PROVE  mobEntry' = {} \/ \A e \in mobEntry' : /\ e.age # "none"
                                                           /\ \A value \in e.value : ~Outdated(value)'
    BY DEF EntryKeepsUp
  <2>1. mobCauses = {} /\ NoneUnderWay
    BY <1>1 DEF WriteEnds, NoneUnderWay
  <2>2. ASSUME NEW e \in mobEntry, NEW value \in e.value  PROVE \A row \in Rows : ~(value.rows[row] < 0)
    <3>1. value \in MobileValues  BY <1>0, <2>2, ValuesShown DEF ValueShown
    <3> QED  BY <3>1 DEF MobileValues
  <2>3. \A e \in mobEntry : e.age # "none"  BY <2>1 DEF CacheInv, EntryKeepsUp
  <2> QED  BY <1>1, <1>2, <2>2, <2>3 DEF Outdated
<1> QED  BY <1>2, <1>4, <1>6, <1>7, <1>8, <1>9 DEF CacheInv

LEMMA CacheAlways == MobileSpec => []CacheInv
<1>1. MobileInit => CacheInv
  <2> SUFFICES ASSUME MobileInit  PROVE CacheInv
    OBVIOUS
  <2>1. /\ mobRows = [row \in Rows |-> 0] /\ mobHeard = [row \in Rows |-> 0] /\ mobSession = 1
        /\ mobSignedIn = TRUE /\ mobSocket = TRUE /\ mobStoring = <<>> /\ mobEntry = {} /\ mobFetch = [f \in Fetches |-> NoFetch] /\ mobOnline = FALSE /\ mobChannel = <<>>
    BY DEF MobileInit
  <2>2. CacheOK
    <3>1. mobChannel \in Seq(Pushes)  BY <2>1, EmptySeq
    <3>2. mobOnline \in BOOLEAN  BY <2>1
    <3>3. mobStoring \in Seq({"write", "clear"})  BY <2>1, EmptySeq
    <3> QED  BY <2>1, <3>1, <3>2, <3>3, NoFetchFields DEF CacheOK
  <2>3. ValueShown = {} /\ \A f \in Fetches : mobFetch[f] = NoFetch  BY <2>1 DEF ValueShown
  <2>4. AllOfSession /\ NoneAhead  BY <2>3, NoFetchFields DEF AllOfSession, OfSession, NoneAhead, NotAhead
  <2>c. OverIsClosed /\ NothingLeft  BY <2>1 DEF OverIsClosed, NothingLeft
  <2>5. ChannelIsComplete  BY <2>1 DEF ChannelIsComplete
  <2>6. EntryKeepsUp  BY <2>1 DEF EntryKeepsUp
  <2> QED  BY <2>2, <2>4, <2>c, <2>5, <2>6 DEF CacheInv
<1>2. CacheInv /\ [MobileNext]_mobVars => CacheInv'
  <2> SUFFICES ASSUME CacheInv, [MobileNext]_mobVars  PROVE CacheInv'
    OBVIOUS
  <2>1. CASE UNCHANGED mobVars
    <3>1. /\ UNCHANGED <<mobRows, mobSession, mobSignedIn, mobStoring, mobSocket, mobEntry, mobFetch>>
          /\ UNCHANGED <<mobOnline, mobChannel, mobHeard, mobCauses>>
      BY <2>1 DEF mobVars, sessionVars
    <3>2. mobStoring' \in Seq({"write", "clear"}) /\ OverIsClosed'
      BY <3>1 DEF CacheInv, CacheOK, OverIsClosed
    <3> QED  BY <3>1, <3>2, StoringKeeps
  <2>2. CASE MobileNext
    BY <2>2, RefreshKeeps, ServerAnswersKeeps, SucceedKeeps, FailuresKeep, RowChangesKeeps, GrowStaleKeeps,
       HearPushKeeps, ConnectionsKeep, AppendsKeep, ClearEndsKeeps, ProfileArrivesKeeps,
       WriteEndsKeeps DEF MobileNext
  <2> QED  BY <2>1, <2>2
<1> QED  BY <1>1, <1>2, PTL DEF MobileSpec

\* What QueryCache shows was fetched by who signed in last, for any number of
\* sign-ins and logouts, unless a request was in flight when the session before
\* was closed, or a sign-in replaced a session that had not been.
THEOREM NothingEverInherited == MobileSpec => []NothingIsInherited
<1>1. CacheInv => NothingIsInherited
  BY DEF CacheInv, AllOfSession, OfSession, NothingIsInherited
<1> QED  BY <1>1, CacheAlways, PTL

\* At rest, what QueryCache counts as fetched is what the server has, unless a
\* cause is noted: for any number of rows, requests, changes and sessions.
THEOREM FreshEntriesAreCurrent == MobileSpec => []FreshEntryIsCurrent
<1>1. CacheInv => FreshEntryIsCurrent
  <2> SUFFICES ASSUME CacheInv, MobileAtRest, mobCauses = {}, NEW e \in mobEntry, ~isStale(e), NEW value \in e.value
               PROVE  value.rows = mobRows
    BY DEF FreshEntryIsCurrent
  <2>1. \A row \in Rows : mobHeard[row] = mobRows[row]
    BY DEF MobileAtRest, CacheInv, ChannelIsComplete
  <2>2. \A row \in Rows : ~(value.rows[row] < mobHeard[row])
    BY DEF MobileAtRest, CacheInv, EntryKeepsUp, NoneUnderWay, isStale, Outdated
  <2>3. value \in ValueShown /\ value \in MobileValues
    BY ValuesShown DEF ValueShown, CacheInv
  <2>4. \A row \in Rows : value.rows[row] <= mobRows[row]
    BY <2>3 DEF CacheInv, NoneAhead, NotAhead
  <2>5. value.rows \in [Rows -> Nat] /\ mobRows \in [Rows -> Nat] /\ mobHeard \in [Rows -> Nat]
    BY <2>3 DEF MobileValues, CacheInv, CacheOK
  <2>6. \A row \in Rows : value.rows[row] = mobRows[row]  BY <2>1, <2>2, <2>4, <2>5
  <2> QED  BY <2>5, <2>6
<1> QED  BY <1>1, CacheAlways, PTL

-----------------------------------------------------------------------------
(* The workflow screens, for any number of them open.  A choice of the     *)
(* booking's own route was made on a status that comes before the queue,   *)
(* so once the booking is queued it is a choice made on an older status;   *)
(* and until one of those is served, booking and entry move together.      *)

-----------------------------------------------------------------------------
(* What the screens offer and what is served.                              *)

\* The acts there are, field by field.
LEMMA ActsAreTyped ==
    /\ \A to \in {"CONFIRMED", "REJECTED", "ARRIVED", "CANCELLED"} :
         /\ MoveBooking(to) \in Acts
         /\ MoveBooking(to).call = "PATCH /bookings"
         /\ MoveBooking(to).to = to
    /\ AddToQueue \in Acts /\ AddToQueue.call # "PATCH /bookings"
    /\ \A to \in {"IN_SERVICE", "COMPLETED"} :
         MoveEntry(to) \in Acts /\ MoveEntry(to).call # "PATCH /bookings"
    /\ RemoveFromQueue \in Acts /\ RemoveFromQueue.call # "PATCH /bookings"
BY DEF MoveBooking, AddToQueue, MoveEntry, RemoveFromQueue, Acts

\* Staff are offered the booking route on statuses before the queue only.
LEMMA ProviderActionsAreTyped ==
    ASSUME NEW status, NEW act \in getProviderActions(status)
    PROVE  /\ act \in Acts
           /\ act.call = "PATCH /bookings" =>
                /\ act.to \in {"CONFIRMED", "REJECTED", "ARRIVED", "CANCELLED"}
                /\ status \in {"PENDING", "CONFIRMED", "ARRIVED"}
<1>1. CASE status = "PENDING"     BY <1>1, ActsAreTyped DEF getProviderActions
<1>2. CASE status = "CONFIRMED"   BY <1>2, ActsAreTyped DEF getProviderActions
<1>3. CASE status = "ARRIVED"     BY <1>3, ActsAreTyped DEF getProviderActions
<1>4. CASE status = "IN_QUEUE"    BY <1>4, ActsAreTyped DEF getProviderActions
<1>5. CASE status = "IN_SERVICE"  BY <1>5, ActsAreTyped DEF getProviderActions
<1> QED  BY <1>1, <1>2, <1>3, <1>4, <1>5 DEF getProviderActions

\* Whatever a screen offers is an act, and an early one if of the booking route.
LEMMA OffersAreTyped ==
    ASSUME NEW d \in Desks, NEW act \in Offered(d)
    PROVE  /\ act \in Acts
           /\ act.call = "PATCH /bookings" =>
                /\ act.to \in {"CONFIRMED", "REJECTED", "ARRIVED", "CANCELLED"}
                /\ onScreen[d].booking \in {"PENDING", "CONFIRMED", "ARRIVED"}
<1>1. CASE act \in getProviderActions(onScreen[d].booking)
  BY <1>1, ProviderActionsAreTyped
<1>2. CASE act \in {MoveEntry("IN_SERVICE"), MoveEntry("COMPLETED"), RemoveFromQueue}
  BY <1>2, ActsAreTyped
<1>3. CASE act = MoveBooking("CANCELLED") /\ onScreen[d].booking \in CUSTOMER_CANCELLABLE_STATUSES
  BY <1>3, ActsAreTyped DEF CUSTOMER_CANCELLABLE_STATUSES
<1> QED
  BY <1>1, <1>2, <1>3 DEF Offered, BookingButtons, QueueButtons, CustomerButtons

\* A request that is admitted leaves booking and entry in step, unless it is
\* of the booking's route and the booking has been queued since: then it
\* parts the two.
LEMMA ServedInStep ==
    ASSUME visit \in InStep, NEW choice \in Pressed, NEW role \in Roles,
           SeenBeforeQueued(choice), Admitted(choice.act, role)
    PROVE  IF /\ choice.act.call = "PATCH /bookings"
              /\ visit.entry # "none"
              /\ choice.seen # visit.booking
           THEN Outcome(choice.act) = Parted
           ELSE Outcome(choice.act) \in InStep
<1> DEFINE act == choice.act
<1>0. act \in Acts  BY DEF Pressed
<1>1. CASE act.call = "PATCH /bookings"
  <2>1. <<visit.booking, act.to>> \in Edges /\ act.to \in {"CONFIRMED", "REJECTED", "ARRIVED", "CANCELLED"}
    BY <1>1 DEF Admitted, MayDrive, SeenBeforeQueued
  <2>2. Outcome(act) = [visit EXCEPT !.booking = act.to]  BY <1>1 DEF Outcome
  <2>3. CASE visit.entry = "none"
    <3>1. PICK b \in Statuses : visit = [booking |-> b, entry |-> "none"]
      <4>1. /\ "none" \in Statuses /\ "IN_QUEUE" \in Statuses
            /\ "IN_SERVICE" \in Statuses /\ "COMPLETED" \in Statuses
        BY DEF Statuses, AllStatuses, ActiveStatuses, TerminalStatuses
      <4>2. CASE visit \in {[booking |-> "none", entry |-> e] : e \in EntryStatuses}
        BY <2>3, <4>1, <4>2
      <4>3. CASE visit \in {[booking |-> b, entry |-> "none"] : b \in Statuses \ {"IN_QUEUE", "IN_SERVICE"}}
        BY <4>3
      <4> QED  BY <2>3, <4>2, <4>3 DEF InStep
    <3>2. act.to \in Statuses \ {"IN_QUEUE", "IN_SERVICE"}
      BY <2>1 DEF Statuses, AllStatuses, ActiveStatuses, TerminalStatuses
    <3> HIDE DEF act
    <3>3. [visit EXCEPT !.booking = act.to] = [booking |-> act.to, entry |-> "none"]
      BY <3>1
    <3>4. [booking |-> act.to, entry |-> "none"] \in InStep  BY <3>2 DEF InStep
    <3> QED  BY <2>2, <2>3, <3>3, <3>4 DEF act
  <2>4. CASE visit.entry # "none"
    <3>1. visit = [booking |-> "IN_QUEUE", entry |-> "WAITING"] /\ act.to = "CANCELLED"
      BY <2>1, <2>4 DEF InStep, Edges, EntryStatuses
    <3>2. choice.seen # visit.booking  BY <1>1, <3>1 DEF SeenBeforeQueued
    <3> QED  BY <1>1, <2>2, <2>4, <3>1, <3>2 DEF Parted
  <2> QED  BY <2>3, <2>4
<1>2. CASE act.call = "POST /queue"
  BY <1>2 DEF Admitted, Outcome, InStep
<1>3. CASE act.call = "PATCH /queue"
  BY <1>3 DEF Admitted, Outcome, InStep, linked, Syncs, MayDrive, Edges, Statuses, EntryStatuses, AllStatuses,
              ActiveStatuses, TerminalStatuses
<1>4. CASE act.call = "DELETE /queue"
  <2>1. /\ visit.entry # "none"
        /\ ~(linked /\ visit.entry = "IN_SERVICE")
        /\ visit.entry = "WAITING" => Syncs("CANCELLED", role)
    BY <1>4 DEF Admitted
  <2> DEFINE b == IF linked /\ visit.entry = "WAITING" THEN "CANCELLED" ELSE visit.booking
  <2>2. Outcome(act) = [booking |-> b, entry |-> "none"]
    BY <1>4 DEF Outcome
  <2>3. visit.booking \in {"none", "IN_QUEUE", "COMPLETED"}
    BY <2>1 DEF InStep, linked
  <2>4. visit.booking = "IN_QUEUE" => visit.entry = "WAITING"
    BY <2>1 DEF InStep
  <2>5. b \in Statuses \ {"IN_QUEUE", "IN_SERVICE"}
    BY <2>3, <2>4 DEF linked, Statuses, AllStatuses, TerminalStatuses
  <2> HIDE DEF b
  <2>6. Outcome(act) \in InStep  BY <2>2, <2>5 DEF InStep
  <2> QED  BY <1>4, <2>6
<1> QED  BY <1>0, <1>1, <1>2, <1>3, <1>4 DEF Acts

\* Nothing is admitted of a booking parted from its entry.
LEMMA PartedForGood ==
    ASSUME visit = Parted, NEW choice \in Pressed, NEW role \in Roles, SeenBeforeQueued(choice)
    PROVE  ~Admitted(choice.act, role)
<1>1. choice.act \in Acts  BY DEF Pressed
<1>2. visit.booking = "CANCELLED" /\ visit.entry = "WAITING"  BY DEF Parted
<1>3. \A to : ~MayDrive(role, "CANCELLED", to)  BY DEF MayDrive, Edges
<1>4. linked /\ \A to : ~Syncs(to, role)  BY <1>2, <1>3 DEF linked, Syncs
<1> QED  BY <1>1, <1>2, <1>3, <1>4 DEF Admitted, Acts

\* Statuses that go together are statuses.
LEMMA InStepIsTyped == InStep \cup {Parted} \subseteq [booking : Statuses, entry : EntryStatuses]
BY DEF InStep, Parted, Statuses, EntryStatuses, AllStatuses, ActiveStatuses, TerminalStatuses

\* A served request keeps booking and entry in step or parts them for good.
LEMMA VisitServed ==
    ASSUME WorkflowInv, NEW d \in Desks, Serve(d)
    PROVE  /\ VisitInStep'
           /\ visit' \in [booking : Statuses, entry : EntryStatuses]
           /\ overtaken' \in BOOLEAN
<1> DEFINE choice == sending[d]
<1>1. choice \in Pressed /\ SeenBeforeQueued(choice) /\ Admitted(choice.act, Role(d))
  BY DEF WorkflowInv, WorkflowTypeOK, BookingRouteIsEarly, Serve
<1>2. Role(d) \in Roles  BY DEF Role, Roles, Staff
<1>3. ~overtaken /\ visit \in InStep
  BY <1>1, <1>2, PartedForGood DEF WorkflowInv, VisitInStep, WorkflowTypeOK
<1>4. /\ visit' = Outcome(choice.act)
      /\ overtaken' = /\ choice.act.call = "PATCH /bookings"
                      /\ visit.entry # "none"
                      /\ choice.seen # visit.booking
  BY <1>3 DEF Serve
<1> HIDE DEF choice
<1>5. VisitInStep'
  BY <1>1, <1>2, <1>3, <1>4, ServedInStep DEF VisitInStep, InStep, Parted
<1> QED  BY <1>4, <1>5, InStepIsTyped DEF VisitInStep, InStep, Parted

-----------------------------------------------------------------------------
(* The invariant.                                                          *)

LEMMA WorkflowInvInit == WorkflowStart(AnyKind) => WorkflowInv
<1> SUFFICES ASSUME WorkflowStart(AnyKind) PROVE WorkflowInv  OBVIOUS
<1>0. visit \in [booking : Statuses, entry : EntryStatuses]
  BY DEF WorkflowStart, Statuses, EntryStatuses, AllStatuses, ActiveStatuses
<1>1. WorkflowTypeOK
  <2>1. deskKind \in [Desks -> AnyKind]  BY DEF WorkflowStart
  <2>2. onScreen \in [Desks -> [booking : Statuses, entry : EntryStatuses]]
    BY <1>0 DEF WorkflowStart
  <2>3. dialog \in [Desks -> Pressed \cup {NoChoice}] /\ sending \in [Desks -> Pressed \cup {NoChoice}]
    BY DEF WorkflowStart
  <2>4. overtaken \in BOOLEAN  BY DEF WorkflowStart
  <2> QED  BY <1>0, <2>1, <2>2, <2>3, <2>4 DEF WorkflowTypeOK
<1>2. BookingRouteIsEarly
  BY DEF WorkflowStart, BookingRouteIsEarly, SeenBeforeQueued, NoChoice
<1>3. VisitInStep
  BY DEF WorkflowStart, VisitInStep, InStep, Statuses, EntryStatuses, AllStatuses, ActiveStatuses
<1> QED  BY <1>1, <1>2, <1>3 DEF WorkflowInv

LEMMA WorkflowInvNext ==
    ASSUME WorkflowInv, [WorkflowNext]_wfVars
    PROVE  WorkflowInv'
<1>0. WorkflowTypeOK /\ BookingRouteIsEarly /\ VisitInStep  BY DEF WorkflowInv
<1>1. CASE UNCHANGED wfVars
  BY <1>0, <1>1 DEF WorkflowInv, WorkflowTypeOK, BookingRouteIsEarly, VisitInStep, wfVars
<1>2. ASSUME NEW d \in Desks, RefreshBooking(d) \/ RefreshEntry(d)
      PROVE  WorkflowInv'
  BY <1>0, <1>2 DEF RefreshBooking, RefreshEntry, WorkflowInv, WorkflowTypeOK, BookingRouteIsEarly, VisitInStep
<1>3. ASSUME NEW d \in Desks, PressButton(d)
      PROVE  WorkflowInv'
  <2>1. PICK act \in Offered(d) :
          LET choice == [act |-> act, seen |-> onScreen[d].booking]
          IN  \/ dialog' = [dialog EXCEPT ![d] = choice] /\ UNCHANGED sending
              \/ sending' = [sending EXCEPT ![d] = choice] /\ UNCHANGED dialog
    BY <1>3 DEF PressButton
  <2> DEFINE choice == [act |-> act, seen |-> onScreen[d].booking]
  <2>2. choice \in Pressed /\ SeenBeforeQueued(choice)
    BY <1>0, OffersAreTyped DEF Pressed, SeenBeforeQueued, WorkflowTypeOK
  <2> HIDE DEF choice
  <2>3. UNCHANGED <<deskKind, visit, onScreen, overtaken>>  BY <1>3 DEF PressButton
  <2>4. WorkflowTypeOK'  BY <1>0, <2>1, <2>2, <2>3 DEF WorkflowTypeOK, choice
  <2>5. BookingRouteIsEarly'
    BY <1>0, <2>1, <2>2 DEF BookingRouteIsEarly, WorkflowTypeOK, choice
  <2> QED  BY <1>0, <2>3, <2>4, <2>5 DEF WorkflowInv, VisitInStep
<1>4. ASSUME NEW d \in Desks, ConfirmChoice(d) \/ ConfirmInVain(d) \/ DismissDialog(d)
      PROVE  WorkflowInv'
  <2>1. SeenBeforeQueued(NoChoice)  BY DEF SeenBeforeQueued, NoChoice
  <2>2. \/ sending' = sending
        \/ sending' = [sending EXCEPT ![d] = dialog[d]]
    BY <1>4 DEF ConfirmChoice, ConfirmInVain, DismissDialog
  <2>3. dialog' = dialog \/ dialog' = [dialog EXCEPT ![d] = NoChoice]
    BY <1>4 DEF ConfirmChoice, ConfirmInVain, DismissDialog
  <2>4. UNCHANGED <<deskKind, visit, onScreen, overtaken>>
    BY <1>4 DEF ConfirmChoice, ConfirmInVain, DismissDialog
  <2>5. WorkflowTypeOK'  BY <1>0, <2>2, <2>3, <2>4 DEF WorkflowTypeOK
  <2>6. BookingRouteIsEarly'
    BY <1>0, <2>1, <2>2, <2>3 DEF BookingRouteIsEarly, WorkflowTypeOK
  <2> QED  BY <1>0, <2>4, <2>5, <2>6 DEF WorkflowInv, VisitInStep
<1>5. ASSUME NEW d \in Desks, Serve(d) \/ Refuse(d)
      PROVE  WorkflowInv'
  <2>1. SeenBeforeQueued(NoChoice)  BY DEF SeenBeforeQueued, NoChoice
  <2>2. /\ sending' = [sending EXCEPT ![d] = NoChoice]
        /\ dialog' = dialog \/ dialog' = [dialog EXCEPT ![d] = NoChoice]
        /\ UNCHANGED <<deskKind, onScreen>>
    BY <1>5 DEF Serve, Refuse
  <2>3. BookingRouteIsEarly'
    BY <1>0, <2>1, <2>2 DEF BookingRouteIsEarly, WorkflowTypeOK
  <2>4. VisitInStep' /\ visit' \in [booking : Statuses, entry : EntryStatuses] /\ overtaken' \in BOOLEAN
    <3>1. CASE Refuse(d)
      BY <1>0, <3>1 DEF Refuse, VisitInStep, WorkflowTypeOK
    <3>2. CASE Serve(d)
      BY <1>0, <3>2, VisitServed
    <3> QED  BY <1>5, <3>1, <3>2
  <2>5. WorkflowTypeOK'  BY <1>0, <2>2, <2>4 DEF WorkflowTypeOK
  <2> QED  BY <2>3, <2>4, <2>5 DEF WorkflowInv
<1> QED  BY <1>1, <1>2, <1>3, <1>4, <1>5 DEF WorkflowNext
\* The invariant holds of every state: the statuses are typed, the booking
\* route is chosen on early statuses only, and the entry follows its booking
\* until a choice overtaken by the queue parts the two for good.
THEOREM WorkflowInvariant == WorkflowSpec => []WorkflowInv
<1>1. WorkflowInv /\ [WorkflowNext]_wfVars => WorkflowInv'  BY WorkflowInvNext
<1> QED  BY <1>1, WorkflowInvInit, PTL DEF WorkflowSpec

-----------------------------------------------------------------------------
(* What is offered of the status that is, is admitted.                     *)

\* The provider's staff and the customer, by the screen.
LEMMA RoleOfScreen ==
    ASSUME WorkflowTypeOK, NEW d \in Desks
    PROVE  /\ deskKind[d] \in StaffBookingKinds \cup QueueKinds \cup CustomerKinds
           /\ deskKind[d] \in StaffBookingKinds \cup QueueKinds => Role(d) = "PROVIDER"
           /\ deskKind[d] \in CustomerKinds => Role(d) = "CUSTOMER"
BY DEF WorkflowTypeOK, AnyKind, Role, StaffBookingKinds, QueueKinds, CustomerKinds

\* What it takes for each call to be admitted.
LEMMA Admission ==
    ASSUME NEW role \in Roles
    PROVE  /\ \A to : Admitted(MoveBooking(to), role) <=> MayDrive(role, visit.booking, to)
           /\ Admitted(AddToQueue, role) <=> visit.entry = "none" /\ visit.booking = "ARRIVED"
           /\ \A to : Admitted(MoveEntry(to), role) <=>
                       /\ <<visit.entry, to>> \in {<<"WAITING", "IN_SERVICE">>, <<"IN_SERVICE", "COMPLETED">>}
                       /\ Syncs(to, role)
           /\ Admitted(RemoveFromQueue, role) <=>
                       /\ visit.entry # "none"
                       /\ ~(linked /\ visit.entry = "IN_SERVICE")
                       /\ visit.entry = "WAITING" => Syncs("CANCELLED", role)
BY DEF Admitted, MoveBooking, AddToQueue, MoveEntry, RemoveFromQueue

\* The roles the screens' users have.
LEMMA ScreenRoles == "PROVIDER" \in Roles /\ "CUSTOMER" \in Roles
BY DEF Staff, Roles

\* The provider's staff may drive each edge their screens offer.
LEMMA StaffDriving ==
    /\ MayDrive("PROVIDER", "PENDING", "CONFIRMED") /\ MayDrive("PROVIDER", "PENDING", "REJECTED")
    /\ MayDrive("PROVIDER", "CONFIRMED", "ARRIVED") /\ MayDrive("PROVIDER", "CONFIRMED", "CANCELLED")
    /\ MayDrive("PROVIDER", "ARRIVED", "CANCELLED")
    /\ MayDrive("PROVIDER", "IN_QUEUE", "IN_SERVICE") /\ MayDrive("PROVIDER", "IN_QUEUE", "CANCELLED")
    /\ MayDrive("PROVIDER", "IN_SERVICE", "COMPLETED")
BY DEF MayDrive, Edges, Staff

\* The entry's moves the queue offers, for a visit in step.
LEMMA EntryMovesAdmitted ==
    ASSUME visit \in InStep
    PROVE  /\ visit.entry = "WAITING" =>
                Admitted(MoveEntry("IN_SERVICE"), "PROVIDER") /\ Admitted(RemoveFromQueue, "PROVIDER")
           /\ visit.entry = "IN_SERVICE" =>
                /\ Admitted(MoveEntry("COMPLETED"), "PROVIDER")
                /\ linked \/ Admitted(RemoveFromQueue, "PROVIDER")
<1>1. CASE visit.entry = "WAITING"
  <2>1. visit.booking \in {"none", "IN_QUEUE"}  BY <1>1 DEF InStep
  <2>2. Syncs("IN_SERVICE", "PROVIDER") /\ Syncs("CANCELLED", "PROVIDER")
    BY <2>1, StaffDriving DEF Syncs, linked
  <2> QED  BY <1>1, <2>2, Admission, ScreenRoles
<1>2. CASE visit.entry = "IN_SERVICE"
  <2>1. visit.booking \in {"none", "IN_SERVICE"}  BY <1>2 DEF InStep
  <2>2. Syncs("COMPLETED", "PROVIDER")  BY <2>1, StaffDriving DEF Syncs, linked
  <2> QED  BY <1>2, <2>2, Admission, ScreenRoles
<1> QED  BY <1>1, <1>2

\* A booking's buttons, for a visit in step.
LEMMA BookingButtonsAdmitted ==
    ASSUME visit \in InStep, NEW d \in Desks, onScreen[d] = visit, NEW act \in BookingButtons(d)
    PROVE  Admitted(act, "PROVIDER")
<1>0. act \in getProviderActions(visit.booking)
  BY DEF BookingButtons
<1>1. CASE visit.booking = "PENDING"
  <2>1. act \in {MoveBooking("CONFIRMED"), MoveBooking("REJECTED")}  BY <1>0, <1>1 DEF getProviderActions
  <2> QED  BY <1>1, <2>1, Admission, ScreenRoles, StaffDriving
<1>2. CASE visit.booking = "CONFIRMED"
  <2>1. act \in {MoveBooking("ARRIVED"), MoveBooking("CANCELLED")}  BY <1>0, <1>2 DEF getProviderActions
  <2> QED  BY <1>2, <2>1, Admission, ScreenRoles, StaffDriving
<1>3. CASE visit.booking = "ARRIVED"
  <2>1. act \in {AddToQueue, MoveBooking("CANCELLED")}  BY <1>0, <1>3 DEF getProviderActions
  <2>2. visit.entry = "none"  BY <1>3 DEF InStep
  <2> QED  BY <1>3, <2>1, <2>2, Admission, ScreenRoles, StaffDriving
<1>4. CASE visit.booking = "IN_QUEUE"
  <2>1. act \in {MoveEntry("IN_SERVICE"), RemoveFromQueue}  BY <1>0, <1>4 DEF getProviderActions
  <2>2. visit.entry = "WAITING"  BY <1>4 DEF InStep
  <2> QED  BY <2>1, <2>2, EntryMovesAdmitted
<1>5. CASE visit.booking = "IN_SERVICE"
  <2>1. act = MoveEntry("COMPLETED")  BY <1>0, <1>5 DEF getProviderActions
  <2>2. visit.entry = "IN_SERVICE"  BY <1>5 DEF InStep
  <2> QED  BY <2>1, <2>2, EntryMovesAdmitted
<1> QED  BY <1>0, <1>1, <1>2, <1>3, <1>4, <1>5 DEF getProviderActions

\* A queue's buttons, but for Remove of a booking in service.
LEMMA QueueButtonsAdmitted ==
    ASSUME visit \in InStep, NEW d \in Desks, onScreen[d] = visit, NEW act \in QueueButtons(d)
    PROVE  \/ Admitted(act, "PROVIDER")
           \/ deskKind[d] = "webQueue" /\ act = RemoveFromQueue /\ linked /\ visit.entry = "IN_SERVICE"
<1>1. CASE visit.entry = "WAITING"
  <2>1. act \in {MoveEntry("IN_SERVICE"), RemoveFromQueue}  BY <1>1 DEF QueueButtons
  <2> QED  BY <1>1, <2>1, EntryMovesAdmitted
<1>2. CASE visit.entry = "IN_SERVICE"
  <2>1. act = MoveEntry("COMPLETED") \/ (act = RemoveFromQueue /\ deskKind[d] = "webQueue")
    BY <1>2 DEF QueueButtons
  <2> QED  BY <1>2, <2>1, EntryMovesAdmitted
<1> QED  BY <1>1, <1>2 DEF QueueButtons

\* The customer's one button.
LEMMA CustomerButtonsAdmitted ==
    ASSUME visit \in InStep, NEW d \in Desks, onScreen[d] = visit, NEW act \in CustomerButtons(d)
    PROVE  Admitted(act, "CUSTOMER")
<1>1. act = MoveBooking("CANCELLED") /\ visit.booking \in {"PENDING", "CONFIRMED"}
  BY DEF CustomerButtons, CUSTOMER_CANCELLABLE_STATUSES
<1>2. MayDrive("CUSTOMER", "PENDING", "CANCELLED") /\ MayDrive("CUSTOMER", "CONFIRMED", "CANCELLED")
  BY DEF MayDrive, Edges, CustomerEdges
<1> QED  BY <1>1, <1>2, Admission, ScreenRoles

\* A screen that shows the visit as it is offers nothing the backend would
\* refuse, but for the web Queue page's Remove of a booking in service, for
\* any number of screens; and only an overtaken choice parts booking from entry.
THEOREM OfferedAdmitted == WorkflowSpec => []OfferedIsAdmitted
<1>1. WorkflowInv => OfferedIsAdmitted
  <2> SUFFICES ASSUME WorkflowInv, ~overtaken, NEW d \in Desks, onScreen[d] = visit, NEW act \in Offered(d)
               PROVE  \/ Admitted(act, Role(d))
                      \/ /\ deskKind[d] = "webQueue" /\ act = RemoveFromQueue
                         /\ linked /\ visit.entry = "IN_SERVICE"
    BY DEF WorkflowInv, VisitInStep, OfferedIsAdmitted
  <2>1. WorkflowTypeOK /\ visit \in InStep  BY DEF WorkflowInv, VisitInStep
  <2>2. CASE deskKind[d] \in StaffBookingKinds
    <3>1. act \in BookingButtons(d)
      <4>1. deskKind[d] \notin QueueKinds  BY <2>2 DEF StaffBookingKinds, QueueKinds
      <4> QED  BY <2>2, <4>1 DEF Offered
    <3> QED  BY <2>1, <2>2, <3>1, RoleOfScreen, BookingButtonsAdmitted
  <2>3. CASE deskKind[d] \in QueueKinds
    <3>1. act \in QueueButtons(d)  BY <2>3 DEF Offered, StaffBookingKinds, QueueKinds
    <3> QED  BY <2>1, <2>3, <3>1, RoleOfScreen, QueueButtonsAdmitted
  <2>4. CASE deskKind[d] \in CustomerKinds
    <3>1. act \in CustomerButtons(d)
      <4>1. deskKind[d] \notin StaffBookingKinds \cup QueueKinds
        BY <2>4 DEF StaffBookingKinds, QueueKinds, CustomerKinds
      <4> QED  BY <4>1 DEF Offered
    <3> QED  BY <2>1, <2>4, <3>1, RoleOfScreen, CustomerButtonsAdmitted
  <2> QED  BY <2>1, <2>2, <2>3, <2>4, RoleOfScreen
<1> QED  BY <1>1, WorkflowInvariant, PTL

===============================================================================
