------------------------------ MODULE MobileCache -----------------------------
(***************************************************************************)
(* One key of the mobile app's QueryCache, the customer's own queue, with  *)
(* the socket handler that patches or invalidates it.  Unlike the web      *)
(* client's, an entry that is written or invalidated forgets its request,  *)
(* which goes on: several may be in flight, and the last to end wins.      *)
(* The cache is cleared by what AuthState tells its listeners: when nobody *)
(* is signed in then.                                                      *)
(***************************************************************************)
EXTENDS Integers, SequencesExt

CONSTANTS Rows,          \* the rows the key's value consists of
          Fetches,       \* requests that may be in flight
          MaxChanges,    \* changes of the rows are explored up to this many
          MaxSessions    \* and accounts that sign in one after another

VARIABLES mobRows,       \* the server's rows, as versions
          mobSession,    \* who signed in last, the worst case being another account each time
          mobSignedIn,   \* isAuthenticated: _token is there
          mobStoring,    \* the token store's operations under way: "write", "clear"
          mobEntry,      \* the cache's entry for the key: {} or {entry}
          mobFetch,      \* how far each request has come
          mobSocket, mobOnline, mobChannel,   \* the socket, if it is connected, pushes on their way
          mobHeard,      \* the newest version of each row a push brought
          mobCauses      \* why the entry may be out of date: {} or {the first cause}

sessionVars == <<mobSession, mobSignedIn, mobStoring, mobSocket>>

mobVars == <<mobRows, sessionVars, mobEntry, mobFetch, mobOnline, mobChannel, mobHeard, mobCauses>>

-----------------------------------------------------------------------------

\* What a screen is shown: whose rows, and which.
Value(session, rows) == [session |-> session, rows |-> rows]

\* age: "none" is fetchedAt = null.  pending: the request the entry waits for.
Entry(state, value, age, pending) == [state |-> state, value |-> value, age |-> age, pending |-> pending]

inFlight(e) == e.age = "none" /\ e.pending # {}
isStale(e)  == e.age # "fresh"

ValueShown == UNION {e.value : e \in mobEntry}

\* previous: what was on show when the request began.
NoFetch == [stage |-> "idle", session |-> 0, answer |-> {}, previous |-> {}]

SetData(value) == mobEntry' = {Entry("data", {value}, "fresh", {})}

\* The first cause is kept.
Blame(cause) == IF mobCauses = {} THEN {cause} ELSE mobCauses

\* Mutant of CopyStale: the entry is not backdated.
CopyOnly(e) == [e EXCEPT !.pending = {}]

CopyStale(e) == [e EXCEPT !.age = "stale", !.pending = {}]

Invalidate == mobEntry' = {CopyStale(e) : e \in mobEntry}

-----------------------------------------------------------------------------
(* refresh, which watch calls when there is no entry or a stale one, and a *)
(* screen whenever it likes.  A request in flight is joined.  One that is  *)
(* sent without a token is refused.                                        *)

Refresh(f) ==
    /\ mobFetch[f] = NoFetch
    /\ \A e \in mobEntry : ~inFlight(e)
    /\ mobFetch' = [mobFetch EXCEPT ![f] = [NoFetch EXCEPT !.stage = IF mobSignedIn THEN "sent" ELSE "refused",
                                                            !.session = mobSession, !.previous = ValueShown]]
    /\ mobEntry' = {Entry("loading", ValueShown, "none", {f})}
    /\ UNCHANGED <<mobRows, sessionVars, mobOnline, mobChannel, mobHeard, mobCauses>>

ServerAnswers(f) ==
    /\ mobFetch[f].stage = "sent"
    /\ mobFetch' = [mobFetch EXCEPT ![f].stage = "answered", 
                                      ![f].answer = {Value(mobFetch[f].session, mobRows)}]
    /\ UNCHANGED <<mobRows, sessionVars, mobEntry, mobOnline, mobChannel, mobHeard, mobCauses>>

NothingElseUnderWay(f) == mobChannel = <<>> /\ \A g \in Fetches \ {f} : mobFetch[g] = NoFetch

Ends(f) == mobFetch' = [mobFetch EXCEPT ![f] = NoFetch]

\* Are these rows older than what has been heard?
Outdated(value) == \E row \in Rows : value.rows[row] < mobHeard[row]

Succeed(f) ==
    /\ mobFetch[f].stage = "answered"
    /\ \E value \in mobFetch[f].answer :
         /\ SetData(value)
         /\ mobCauses' = IF mobSignedIn /\ value = Value(mobSession, mobRows) /\ NothingElseUnderWay(f) THEN {}
                         ELSE IF Outdated(value) THEN Blame("overtaken")
                         ELSE mobCauses
    /\ Ends(f)
    /\ UNCHANGED <<mobRows, sessionVars, mobOnline, mobChannel, mobHeard>>

\* An ApiException: what was on show when the request began comes back, and
\* counts as fetched now.
Fail(f) ==
    /\ mobFetch[f].stage # "idle"
    /\ mobEntry' = {Entry("error", mobFetch[f].previous, "fresh", {})}
    /\ Ends(f)
    /\ mobCauses' = Blame("failed")
    /\ UNCHANGED <<mobRows, sessionVars, mobOnline, mobChannel, mobHeard>>

\* Any other error, such as an answer that does not parse, is not caught.
Throw(f) ==
    /\ mobFetch[f].stage = "answered"
    /\ Ends(f)
    /\ mobCauses' = Blame("failed")
    /\ UNCHANGED <<mobRows, sessionVars, mobEntry, mobOnline, mobChannel, mobHeard>>

\* staleAfter has passed.
GrowStale ==
    /\ \E e \in mobEntry : e.age = "fresh" /\ mobEntry' = {[e EXCEPT !.age = "stale"]}
    /\ UNCHANGED <<mobRows, sessionVars, mobFetch, mobOnline, mobChannel, mobHeard, mobCauses>>

-----------------------------------------------------------------------------
(* The socket.                                                             *)

\* A row changes and is pushed: whole (queue:my_update), or as a hint that it
\* has changed (booking:status_changed).
RowChanges(row, whole) ==
    /\ mobRows[row] < MaxChanges
    /\ mobRows' = [mobRows EXCEPT ![row] = @ + 1]
    /\ mobChannel' = IF mobOnline THEN Append(mobChannel, [row |-> row, version |-> mobRows'[row], whole |-> whole])
                                  ELSE mobChannel
    /\ UNCHANGED <<sessionVars, mobEntry, mobFetch, mobOnline, mobHeard, mobCauses>>

\* onMyQueueUpdate patches a value that is there, which then counts as fetched
\* now even if it had been invalidated; otherwise, and for
\* onBookingStatusChanged, the entry is invalidated.
HearPush ==
    /\ mobChannel # <<>>
    /\ LET push == Head(mobChannel)
       IN  /\ IF push.whole /\ ValueShown # {}
              THEN \E value \in ValueShown : SetData([value EXCEPT !.rows[push.row] = push.version])
              ELSE Invalidate
           /\ mobHeard' = [mobHeard EXCEPT ![push.row] = push.version]
           /\ mobCauses' = IF push.whole /\ \E e \in mobEntry : e.age = "stale" /\ e.value # {}
                           THEN Blame("freshened") ELSE mobCauses
    /\ mobChannel' = Tail(mobChannel)
    /\ UNCHANGED <<mobRows, sessionVars, mobFetch, mobOnline>>

\* onReconnected invalidates: that stands for all that was missed.
Reconnect ==
    /\ mobSocket /\ ~mobOnline /\ mobOnline' = TRUE
    /\ Invalidate
    /\ mobHeard' = mobRows
    /\ UNCHANGED <<mobRows, sessionVars, mobFetch, mobChannel, mobCauses>>

LoseConnection ==
    /\ mobOnline /\ mobOnline' = FALSE
    /\ mobChannel' = <<>>
    /\ UNCHANGED <<mobRows, sessionVars, mobEntry, mobFetch, mobHeard, mobCauses>>

-----------------------------------------------------------------------------
(* Signing in and out, and what _onAuthChanged makes of it.                *)

\* Mutant of Clear: the entry is kept, to be fetched again.
ClearLater == Invalidate

Clear == mobEntry' = {}

NewSocket ==
    /\ mobOnline' = FALSE /\ mobChannel' = <<>>
    /\ mobHeard' = [row \in Rows |-> 0]

\* The listeners are told and nobody is signed in.  Requests go on.
CloseSession ==
    /\ mobSocket' = FALSE /\ NewSocket
    /\ Clear
    /\ mobCauses' = IF \E f \in Fetches : mobFetch[f] # NoFetch THEN {"outlived"} ELSE {}
    /\ UNCHANGED <<mobRows, mobSession, mobSignedIn, mobFetch>>

\* logout gives up the token at once and tells nobody until the store is cleared.
LogoutBegins ==
    /\ mobSignedIn /\ mobSignedIn' = FALSE
    /\ mobStoring' = Append(mobStoring, "clear")
    /\ UNCHANGED <<mobRows, mobSession, mobSocket, mobEntry, mobFetch, mobOnline, mobChannel, mobHeard, mobCauses>>

ClearEnds ==
    /\ mobStoring # <<>> /\ Head(mobStoring) = "clear"
    /\ mobStoring' = Tail(mobStoring)
    /\ IF mobSignedIn
       THEN UNCHANGED <<mobRows, mobSession, mobSignedIn, mobSocket, mobEntry, mobFetch,
                        mobOnline, mobChannel, mobHeard, mobCauses>>
       ELSE CloseSession

\* updateProfile tells the listeners too, whoever is signed in by then.
ProfileArrives == ~mobSignedIn /\ CloseSession /\ UNCHANGED mobStoring

\* signIn or register is answered.  The request may have been sent long ago,
\* and another sign-in been answered since.
SignInAnswered ==
    /\ mobSession + Len(SelectSeq(mobStoring, LAMBDA operation : operation = "write")) < MaxSessions
    /\ mobStoring' = Append(mobStoring, "write")
    /\ UNCHANGED <<mobRows, mobSession, mobSignedIn, mobSocket, mobEntry, mobFetch,
                   mobOnline, mobChannel, mobHeard, mobCauses>>

\* The token is stored, and then the session is the new one's.  connect()
\* replaces the socket; the cache is left as it is.
WriteEnds ==
    /\ mobStoring # <<>> /\ Head(mobStoring) = "write"
    /\ mobStoring' = Tail(mobStoring)
    /\ mobSession' = mobSession + 1 /\ mobSignedIn' = TRUE
    /\ mobSocket' = TRUE /\ NewSocket
    /\ mobCauses' = IF mobSignedIn \/ "clear" \in ToSet(mobStoring) THEN {"replaced"} ELSE mobCauses
    /\ UNCHANGED <<mobRows, mobEntry, mobFetch>>

-----------------------------------------------------------------------------

MobileInit ==
    /\ mobRows = [row \in Rows |-> 0]
    /\ mobSession = 1 /\ mobSignedIn = TRUE /\ mobStoring = <<>> /\ mobSocket = TRUE
    /\ mobEntry = {} /\ mobFetch = [f \in Fetches |-> NoFetch]
    /\ mobOnline = FALSE /\ mobChannel = <<>> /\ mobHeard = [row \in Rows |-> 0]
    /\ mobCauses = {}

MobileNext ==
    \/ \E f \in Fetches : Refresh(f) \/ ServerAnswers(f) \/ Succeed(f) \/ Fail(f) \/ Throw(f)
    \/ \E row \in Rows, whole \in BOOLEAN : RowChanges(row, whole)
    \/ GrowStale \/ HearPush \/ Reconnect \/ LoseConnection
    \/ LogoutBegins \/ ClearEnds \/ ProfileArrives \/ SignInAnswered \/ WriteEnds

MobileSpec == MobileInit /\ [][MobileNext]_mobVars

-----------------------------------------------------------------------------
(* Properties.                                                             *)

MayInherit == mobCauses \cap {"outlived", "replaced"} # {}

\* What is on show was fetched by who signed in last, unless a request was in
\* flight when the session before was closed, or it never was: its successor's
\* sign-in landed on it while it lived, or between its logout and the end of
\* the store's clear.  In both cases QueryCache is not cleared for the
\* successor, and "the next account never sees the previous one's cached data"
\* does not hold; the run checks that it holds otherwise.
NothingIsInherited == ~MayInherit => \A value \in ValueShown : value.session = mobSession

MobileAtRest == mobOnline /\ mobChannel = <<>> /\ \A f \in Fetches : mobFetch[f] = NoFetch

\* While the socket is connected and nothing is on its way, an entry that
\* counts as fetched shows the server's rows, unless since the last answer
\* at rest an answer was older than a push, a push patched an entry that had
\* been invalidated, a request failed (and brought back what was on show
\* when it began), one outlived its session, or a sign-in replaced one.
FreshEntryIsCurrent ==
    MobileAtRest /\ mobCauses = {} =>
        \A e \in mobEntry : e.state = "data" /\ ~isStale(e) => \A value \in e.value : value.rows = mobRows

=============================================================================
