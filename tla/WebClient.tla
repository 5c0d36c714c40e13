------------------------------- MODULE WebClient ------------------------------
(***************************************************************************)
(* One tab of the web application at work: somebody follows links, sends   *)
(* changes, signs in and out, and the pages load what they show.  A page   *)
(* asks for its queries again whenever it is opened (staleTime 0), a query *)
(* under way is joined rather than asked twice, and a change that succeeds *)
(* drops the keys its hook names.  The socket is down, and every request   *)
(* for a page is answered in the end; the cache's own failures and retries *)
(* are QueryCache's, the tokens shared by tabs WebSession's.               *)
(***************************************************************************)
EXTENDS WebPages, Integers

CONSTANT MaxLeft

ASSUME MaxLeftAssumption == MaxLeft \in Nat

VARIABLES
    place, \* the page shown
    user,  \* the role of whoever is signed in, or "nobody"
    cache, \* by key shown or under way: what there is of its answer
    call   \* the change under way and the page that sent it

webcVars == <<place, user, cache, call>>

\* "asked": the answer will be read after whatever has been changed so far;
\* "late": it has been read before a change; "shown"; "outdated": shown by
\* the page that has changed it; "overtaken": shown, but changed from a page
\* left since, or by an answer that the change overtook.
Statuses == {"asked", "late", "shown", "outdated", "overtaken"}

NoCall == [phase |-> "none", change |-> Change(PatchMe, {}), from |-> "Home", left |-> 0]

\* A call under way outlives MaxLeft pages.
Elsewhere == /\ call.phase # "none" => call.left < MaxLeft
             /\ call' = IF call.phase = "none" THEN call ELSE [call EXCEPT !.left = @ + 1]

Page    == AppRoutes[place].parts[user]
KeysOf(page, role) == {q.key : q \in AppRoutes[page].parts[role].asks}
PageKeys == KeysOf(place, user)
UnderWay == {k \in PageKeys : cache[k] \in {"asked", "late"}}

IsPrefixOf(drop, key) == Len(drop) <= Len(key) /\ SubSeq(key, 1, Len(drop)) = drop
Dropped(drops) == {k \in PageKeys : \E d \in drops : IsPrefixOf(d, k)}

dashboardByRole ==
    [CUSTOMER |-> "DiscoveryPage", PROVIDER |-> "ProviderDashboardPage", ADMIN |-> "AdminDashboardPage"]

\* The keys shown or under way whose answers the change makes different.
Affected(change) ==
    {q.key : q \in {r \in Page.asks : r.get.reads \cap change.send.writes # {}}}

-----------------------------------------------------------------------------
(* Opening a page.                                                         *)

\* ProtectedRoute, RoleRoute.
Guarded(page, role) == IF role \in AppRoutes[page].roles THEN page
                       ELSE IF role = "nobody" THEN "LoginPage" ELSE "UnauthorizedPage"

\* Its queries are asked again; those under way that the last page asked too
\* are joined, and the others are answered before they are asked again.
Opened(to, role, kept) == [k \in KeysOf(to, role) |-> IF k \in UnderWay THEN kept[k] ELSE "asked"]

Mount(page, role) ==
    LET to == Guarded(page, role)
    IN  /\ place' = to
        /\ user' = role
        /\ cache' = Opened(to, role, cache)

FollowLink == (\E page \in Page.links : Mount(page, user)) /\ Elsewhere

LoadPage == /\ UnderWay # {}
        /\ cache' = [k \in PageKeys |-> CASE cache[k] = "asked" -> "shown"
                                         [] cache[k] = "late" -> "overtaken"
                                         [] OTHER -> cache[k]]
        /\ UNCHANGED <<place, user, call>>

-----------------------------------------------------------------------------
(* A change: sent, committed, answered.                                    *)

SendChange == /\ call.phase = "none"
        /\ \E change \in Page.offers : call' = [phase |-> "sent", change |-> change, from |-> place, left |-> 0]
        /\ UNCHANGED <<place, user, cache>>

\* Some of the answers under way have been read already.
ChangeCommits ==
    /\ call.phase = "sent"
    /\ call' = [call EXCEPT !.phase = "committed"]
    /\ \E read \in SUBSET (Affected(call.change) \cap UnderWay) :
         cache' = [k \in PageKeys |->
                     IF k \in read THEN "late"
                     ELSE IF k \in Affected(call.change) /\ cache[k] = "shown"
                          THEN IF place = call.from THEN "outdated" ELSE "overtaken"
                     ELSE cache[k]]
    /\ UNCHANGED <<place, user>>

\* invalidateQueries: what is shown is asked again, and so is what is under
\* way unless it is a first load, which is joined.
AskedAgain(drops, joined) ==
    [k \in PageKeys |-> IF k \in Dropped(drops) \ joined THEN "asked" ELSE cache[k]]

ChangeSucceeds ==
    /\ call.phase = "committed"
    /\ call' = NoCall
    /\ \E joined \in SUBSET {k \in Dropped(call.change.drops) : cache[k] = "late"} :
         LET kept == [k \in PageKeys |-> IF k \in call.change.sets /\ cache[k] \in {"outdated", "overtaken"}
                                             THEN "shown" ELSE AskedAgain(call.change.drops, joined)[k]]
             to   == IF call.change.leads = {} THEN place ELSE CHOOSE p \in call.change.leads : TRUE
             role == IF to = "LoginPage" THEN "nobody" ELSE user
         IN  IF call.change.leads = {}
             THEN cache' = kept /\ UNCHANGED <<place, user>>
             ELSE /\ place' = Guarded(to, role)
                  /\ user' = role
                  /\ cache' = Opened(Guarded(to, role), role, kept)

ChangeRefused ==
    /\ call.phase = "sent"
    /\ call' = NoCall
    /\ cache' = AskedAgain(call.change.refused, {})
    /\ UNCHANGED <<place, user>>

-----------------------------------------------------------------------------
(* Signing in and out.                                                     *)

WebLogin == \E role \in AnyRole : place = "LoginPage" /\ Mount(dashboardByRole[role], role) /\ Elsewhere

\* Registering signs nobody in.
WebRegister == place = "RegisterPage" /\ Mount("Home", user) /\ Elsewhere

WebLogout ==
    /\ user # "nobody"
    /\ place = "UnauthorizedPage" \/ "nobody" \notin AppRoutes[place].roles
    /\ Mount("LoginPage", "nobody")
    /\ Elsewhere

WebClientInit == /\ user \in AnyRole \cup {"nobody"}
                 /\ \E page \in DOMAIN AppRoutes : place = Guarded(page, user)
                 /\ cache = [k \in KeysOf(place, user) |-> "asked"]
                 /\ call = NoCall

WebClientNext == \/ FollowLink \/ LoadPage
                 \/ SendChange \/ ChangeCommits \/ ChangeSucceeds \/ ChangeRefused
                 \/ WebLogin \/ WebRegister \/ WebLogout

WebClientSpec == WebClientInit /\ [][WebClientNext]_webcVars

-----------------------------------------------------------------------------

\* Whoever signs in after whom, no link, button or sign-in of the application
\* leads to a page that is not open to the user, and no page sends a request
\* or offers a change that the backend refuses the user's role.
LinksStayWithinRole ==
    [][/\ place' = "UnauthorizedPage" => ~(FollowLink \/ WebLogin \/ WebRegister \/ WebLogout)
       /\ \A q \in Page'.asks : user' \in q.get.may
       /\ \A change \in Page'.offers : user' \in change.send.may]_webcVars

\* What a page of the web application does not ask again after its own changes.
KnownGaps == {<<"ProviderDashboardPage", <<"provider", "me", "analytics">>>>,
              <<"ProviderBookingDetailsPage", <<"finance", "me", "transactions">>>>}

\* Once a change has been answered, the page that made it shows nothing that
\* the change has made out of date, but for the gaps named.
ScreenShowsOwnWork ==
    call.phase = "none" => \A k \in PageKeys : cache[k] = "outdated" => <<place, k>> \in KnownGaps

===============================================================================
