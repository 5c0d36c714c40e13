---------------------------- MODULE WebClientProofs ----------------------------
(***************************************************************************)
(* Proofs about WebClient, for however many pages a call may outlive.  The *)
(* invariant is short: what a page shows and has itself made out of date   *)
(* is what the call it has under way affects, or a gap that is named.  It  *)
(* is kept because of what the pages are made of, and most of this module  *)
(* is that: for every page, which queries it asks and which changes it     *)
(* offers, and that each change has every query asked again that reads     *)
(* what it writes.                                                         *)
(***************************************************************************)
EXTENDS WebClient, SequenceTheorems, TLAPS

-----------------------------------------------------------------------------
(* Keys.  invalidateQueries matches a key by its beginning.                *)

\* A key begins with itself and with its first component.
LEMMA KeyPrefixes ==
    ASSUME NEW a, NEW b
    PROVE  /\ IsPrefixOf(<<a>>, <<a>>) /\ IsPrefixOf(<<a, b>>, <<a, b>>)
           /\ IsPrefixOf(<<a>>, <<a, b>>)
<1> DEFINE S == {a, b}
<1>1. a \in S /\ b \in S
  OBVIOUS
<1> HIDE DEF S
<1>2. <<a>> \in Seq(S) /\ Len(<<a>>) = 1 /\ <<a>>[1] = a
  BY <1>1
<1>3. <<a, b>> \in Seq(S) /\ Len(<<a, b>>) = 2 /\ <<a, b>>[1] = a
  BY <1>1
<1>4. ASSUME NEW d \in Seq(S), NEW s \in Seq(S), d = s \/ (Len(d) = 1 /\ Len(s) = 2 /\ s[1] = d[1])
      PROVE  IsPrefixOf(d, s)
  <2>1. Len(d) \in Nat /\ Len(d) <= Len(s) /\ \A i \in 1 .. Len(d) : s[i] = d[i]
    BY <1>4
  <2>2. SubSeq(s, 1, Len(d)) \in Seq(S) /\ Len(SubSeq(s, 1, Len(d))) = Len(d)
        /\ \A i \in 1 .. Len(d) : SubSeq(s, 1, Len(d))[i] = s[i]
    BY <2>1
  <2>3. SubSeq(s, 1, Len(d)) = d
    BY <2>1, <2>2, SeqEqual
  <2> QED BY <2>1, <2>3 DEF IsPrefixOf
<1>5. IsPrefixOf(<<a>>, <<a>>)
  BY <1>2, <1>4
<1>6. IsPrefixOf(<<a, b>>, <<a, b>>)
  BY <1>3, <1>4
<1>7. IsPrefixOf(<<a>>, <<a, b>>)
  <2> DEFINE d == <<a>>
             s == <<a, b>>
  <2>1. d \in Seq(S) /\ s \in Seq(S) /\ Len(d) = 1 /\ Len(s) = 2 /\ s[1] = d[1]
    BY <1>2, <1>3
  <2> HIDE DEF d, s
  <2>2. IsPrefixOf(d, s)
    BY <2>1, <1>4
  <2> QED BY <2>2 DEF d, s
<1> QED BY <1>5, <1>6, <1>7

-----------------------------------------------------------------------------
(* What it takes for a change to leave nothing out of date.                *)

\* Once c has succeeded, the answer under the key k is asked for again,
\* written, or no longer on the page shown.
Renews(c, k) == c.leads # {} \/ k \in c.sets \/ \E d \in c.drops : IsPrefixOf(d, k)

\* What q shows on page is not changed by c, renewed after it, or a known gap.
Covered(c, q, page) == \/ q.get.reads \cap c.send.writes = {}
                       \/ Renews(c, q.key)
                       \/ <<page, q.key>> \in KnownGaps

Sends(send, roles, facts) == roles \subseteq send.may /\ send.writes \subseteq facts

\* The roles may send c, it changes nothing but the facts, and renews the keys.
Touches(c, roles, facts, keys) ==
    /\ Sends(c.send, roles, facts)
    /\ c.leads \subseteq DOMAIN AppRoutes
    /\ \A k \in keys : Renews(c, k)

\* The pages a link may lead somebody of that role to.
PagesOf(role) == {p \in DOMAIN AppRoutes : role \in AppRoutes[p].roles} \ {"UnauthorizedPage"}

\* What is asked of a page that role may open, leaving aside the layout
\* around it, which is about notifications.
PageHolds(page, name, role) ==
    /\ \A q \in page.asks : role \in q.get.may /\ "notification" \notin q.get.reads
    /\ \A c \in page.offers : /\ role \in c.send.may /\ "notification" \notin c.send.writes
                              /\ c.leads \subseteq DOMAIN AppRoutes
    /\ \A c \in page.offers, q \in page.asks : Covered(c, q, name)
    /\ page.links \subseteq PagesOf(role)

LEMMA QueryIs ==
    ASSUME NEW key, NEW get
    PROVE  Query(key, get).key = key /\ Query(key, get).get = get
BY DEF Query

LEMMA ChangeIs ==
    ASSUME NEW send, NEW drops
    PROVE  /\ Change(send, drops).send = send
           /\ Change(send, drops).drops = drops
           /\ Change(send, drops).leads = {}
BY DEF Change

\* A change that drops keys has every key asked again that begins with one.
LEMMA Drops ==
    ASSUME NEW send, NEW roles, NEW facts, Sends(send, roles, facts), NEW drops, NEW keys,
           \A k \in keys : \E d \in drops : IsPrefixOf(d, k)
    PROVE  Touches(Change(send, drops), roles, facts, keys)
BY ChangeIs DEF Touches, Renews

\* A change whose answer is written under keys renews those.
LEMMA Rewrites ==
    ASSUME NEW send, NEW roles, NEW facts, Sends(send, roles, facts), NEW drops, NEW keys
    PROVE  Touches([Change(send, drops) EXCEPT !.sets = keys], roles, facts, keys)
BY DEF Touches, Renews, Change

LEMMA TouchesOne ==
    ASSUME NEW c, NEW facts, NEW keys, Touches(c, AnyRole, facts, keys), NEW role \in AnyRole
    PROVE  Touches(c, {role}, facts, keys)
BY DEF Touches, Sends

\* How a query is shown to be covered.
LEMMA CoveredWhen ==
    ASSUME NEW c, NEW q, NEW page, NEW roles, NEW facts, NEW keys, Touches(c, roles, facts, keys),
           q.get.reads \cap facts = {} \/ q.key \in keys \/ <<page, q.key>> \in KnownGaps
    PROVE  Covered(c, q, page)
BY DEF Covered, Touches, Sends

-----------------------------------------------------------------------------
(* The routes, and who may open what.                                      *)

LEMMA PublicPages ==
    DOMAIN publicRoutes =
       {"Home", "LoginPage", "RegisterPage", "ForgotPasswordPage", "ResetPasswordPage",
        "UnauthorizedPage", "NotFoundPage"}
BY DEF publicRoutes

LEMMA SharedPages == DOMAIN sharedRoutes = {"NotificationsPage", "AiAssistantPage"}
BY DEF sharedRoutes

LEMMA ProviderPages ==
    DOMAIN providerRoutes =
       {"ProviderDashboardPage", "ServicesPage", "QueuePage", "BusinessProfilePage",
        "LiveStatusPage", "ProviderReviewsPage", "ProviderSettingsPage", "ProviderBookingsPage",
        "ProviderBookingDetailsPage", "AnalyticsPage", "ProviderFinancePage"}
BY DEF providerRoutes

LEMMA AdminPages ==
    DOMAIN adminRoutes =
       {"AdminDashboardPage", "CategoriesPage", "AdminFuelPage", "AdminProvidersPage",
        "AdminUsersPage", "AdminBookingsPage", "AdminReviewsPage", "AdminComplaintsPage",
        "AdminAnalyticsPage", "AdminFinancePage", "AdminSettingsPage", "AdminAuditLogPage"}
BY DEF adminRoutes

LEMMA CustomerPages ==
    DOMAIN customerRoutes =
       {"DiscoveryPage", "ProviderDetailsPage", "LiveStationPage", "BookingHistoryPage",
        "BookingDetailsPage", "CustomerSettingsPage", "MyReviewsPage", "FavoritesPage",
        "MyComplaintsPage", "MyVehiclesPage"}
BY DEF customerRoutes

\* The five tables have no page in common.
LEMMA RoutesAre ==
    /\ DOMAIN AppRoutes = UNION {DOMAIN publicRoutes, DOMAIN sharedRoutes, DOMAIN providerRoutes,
                                 DOMAIN adminRoutes, DOMAIN customerRoutes}
    /\ \A p \in DOMAIN publicRoutes : AppRoutes[p] = publicRoutes[p]
    /\ \A p \in DOMAIN sharedRoutes : AppRoutes[p] = sharedRoutes[p]
    /\ \A p \in DOMAIN providerRoutes : AppRoutes[p] = For("PROVIDER", providerRoutes[p])
    /\ \A p \in DOMAIN adminRoutes : AppRoutes[p] = For("ADMIN", adminRoutes[p])
    /\ \A p \in DOMAIN customerRoutes : AppRoutes[p] = For("CUSTOMER", customerRoutes[p])
<1>1. \A p \in DOMAIN publicRoutes : AppRoutes[p] = publicRoutes[p]
  BY PublicPages, SharedPages, ProviderPages, AdminPages, CustomerPages DEF AppRoutes
<1>2. \A p \in DOMAIN sharedRoutes : AppRoutes[p] = sharedRoutes[p]
  BY PublicPages, SharedPages, ProviderPages, AdminPages, CustomerPages DEF AppRoutes
<1>3. \A p \in DOMAIN providerRoutes : AppRoutes[p] = For("PROVIDER", providerRoutes[p])
  BY PublicPages, SharedPages, ProviderPages, AdminPages, CustomerPages DEF AppRoutes
<1>4. \A p \in DOMAIN adminRoutes : AppRoutes[p] = For("ADMIN", adminRoutes[p])
  BY PublicPages, SharedPages, ProviderPages, AdminPages, CustomerPages DEF AppRoutes
<1>5. \A p \in DOMAIN customerRoutes : AppRoutes[p] = For("CUSTOMER", customerRoutes[p])
  BY PublicPages, SharedPages, ProviderPages, AdminPages, CustomerPages DEF AppRoutes
<1> QED BY <1>1, <1>2, <1>3, <1>4, <1>5 DEF AppRoutes

\* Who may open a page.
LEMMA RolesAre ==
    /\ \A p \in DOMAIN publicRoutes : AppRoutes[p].roles = AnyRole \cup {"nobody"}
    /\ \A p \in DOMAIN sharedRoutes : AppRoutes[p].roles = AnyRole
    /\ \A p \in DOMAIN providerRoutes : AppRoutes[p].roles = {"PROVIDER"}
    /\ \A p \in DOMAIN adminRoutes : AppRoutes[p].roles = {"ADMIN"}
    /\ \A p \in DOMAIN customerRoutes : AppRoutes[p].roles = {"CUSTOMER"}
<1>1. \A p \in DOMAIN publicRoutes : publicRoutes[p].roles = AnyRole \cup {"nobody"}
  BY PublicPages DEF publicRoutes, Open
<1>2. \A p \in DOMAIN sharedRoutes : sharedRoutes[p].roles = AnyRole
  BY SharedPages DEF sharedRoutes, ForAll
<1>3. \A role, page : For(role, page).roles = {role}
  BY DEF For
<1> QED BY <1>1, <1>2, <1>3, RoutesAre

\* Every page open to a role is one that a link may lead it to, but for the
\* page that says it may not.
LEMMA TablesAreOpen ==
    /\ (UNION {DOMAIN publicRoutes, DOMAIN sharedRoutes, DOMAIN customerRoutes}) \ {"UnauthorizedPage"}
          \subseteq PagesOf("CUSTOMER")
    /\ (UNION {DOMAIN publicRoutes, DOMAIN sharedRoutes, DOMAIN providerRoutes}) \ {"UnauthorizedPage"}
          \subseteq PagesOf("PROVIDER")
    /\ (UNION {DOMAIN publicRoutes, DOMAIN sharedRoutes, DOMAIN adminRoutes}) \ {"UnauthorizedPage"}
          \subseteq PagesOf("ADMIN")
    /\ DOMAIN publicRoutes \ {"UnauthorizedPage"} \subseteq PagesOf("nobody")
BY RoutesAre, RolesAre DEF PagesOf, AnyRole

\* The same, page by page.
LEMMA OpenPages ==
    /\ {"DiscoveryPage", "ProviderDetailsPage", "LiveStationPage", "BookingHistoryPage",
        "BookingDetailsPage", "CustomerSettingsPage", "MyReviewsPage", "FavoritesPage",
        "MyComplaintsPage", "MyVehiclesPage", "NotificationsPage", "AiAssistantPage", "Home",
        "LoginPage", "RegisterPage", "ForgotPasswordPage", "ResetPasswordPage", "NotFoundPage"}
          \subseteq PagesOf("CUSTOMER")
    /\ {"ProviderDashboardPage", "ServicesPage", "QueuePage", "BusinessProfilePage",
        "LiveStatusPage", "ProviderReviewsPage", "ProviderSettingsPage", "ProviderBookingsPage",
        "ProviderBookingDetailsPage", "AnalyticsPage", "ProviderFinancePage", "NotificationsPage",
        "AiAssistantPage", "Home", "LoginPage", "RegisterPage", "ForgotPasswordPage",
        "ResetPasswordPage", "NotFoundPage"}
          \subseteq PagesOf("PROVIDER")
    /\ {"AdminDashboardPage", "CategoriesPage", "AdminFuelPage", "AdminProvidersPage",
        "AdminUsersPage", "AdminBookingsPage", "AdminReviewsPage", "AdminComplaintsPage",
        "AdminAnalyticsPage", "AdminFinancePage", "AdminSettingsPage", "AdminAuditLogPage",
        "NotificationsPage", "AiAssistantPage", "Home", "LoginPage", "RegisterPage",
        "ForgotPasswordPage", "ResetPasswordPage", "NotFoundPage"}
          \subseteq PagesOf("ADMIN")
    /\ {"Home", "LoginPage", "RegisterPage", "ForgotPasswordPage", "ResetPasswordPage",
        "NotFoundPage"}
          \subseteq PagesOf("nobody")
BY TablesAreOpen, PublicPages, SharedPages, CustomerPages, ProviderPages, AdminPages

-----------------------------------------------------------------------------
(* The changes the pages offer: who may send each, what it changes, and    *)
(* which keys it renews.  Those whose keys are a set of several are named. *)

reviewDeleted == Change(DelReview, {myReviewsKey, <<"bookings">>})
bookingCancelled == Change(PatchBooking, {<<"bookings">>, <<"bookings", "id">>})
reviewCreated == Change(PostReview, {myReviewsKey, <<"bookings", "id">>, <<"bookings">>})
reviewRemoved == Change(DelReview, {<<"admin", "reviews">>, overviewKey})
profileUpdated == [Change(PatchOwnProfile, {providersKey}) EXCEPT !.sets = {ownProfileKey}]
hoursUpdated ==
    [Change(PutOwnHours, {<<"providerHours">>, <<"availability">>})
        EXCEPT !.sets = {ownHoursKey}]
preferencesUpdated == [Change(PatchPreferences, {}) EXCEPT !.sets = {preferencesKey}]
accountDeactivated == [Change(PostDeactivate, {}) EXCEPT !.leads = {"LoginPage"}]
bookingPosted ==
    [useCreateBooking EXCEPT !.leads = {"BookingDetailsPage"},
                             !.refused = {<<"availability", "id">>}]
commissionSet ==
    Change(PutCommission, {<<"adminFinance", "commission">>, <<"adminFinance", "provider">>,
                           <<"finance", "me", "commission">>, <<"finance", "me", "summary">>})
fuelUpdated ==
    Change(PutFuel, {<<"adminFuel", "id">>, <<"adminFuelHistory", "id">>, <<"fuel", "id">>,
                     <<"fuelHistory", "id">>, <<"fuel", "me">>})

queueFacts == {"booking", "queue", "ledger", "audit"}
queueKeys  == {<<"queue">>, <<"bookings">>, <<"bookings", "id">>}
ledgerKeys == {<<"adminFinance", "summary">>, <<"adminFinance", "transactions">>}
fuelKeys   == {<<"adminFuel", "id">>, <<"adminFuelHistory", "id">>, <<"fuelHistory", "id">>}

LEMMA Favoring ==
    \A c \in {Change(PostFavorite, {favoritesKey}), Change(DelFavorite, {favoritesKey})} :
        Touches(c, {"CUSTOMER"}, {"favorite"}, {favoritesKey})
<1>1. Sends(PostFavorite, {"CUSTOMER"}, {"favorite"})
  BY DEF Sends, PostFavorite, Writes, Customer
<1>2. Sends(DelFavorite, {"CUSTOMER"}, {"favorite"})
  BY DEF Sends, DelFavorite, Writes, Customer
<1>3. IsPrefixOf(favoritesKey, favoritesKey)
  BY KeyPrefixes DEF favoritesKey
<1> QED BY <1>1, <1>2, <1>3, Drops

LEMMA BookingPosted ==
    Touches(bookingPosted, {"CUSTOMER"}, {"booking"}, {<<"availability", "id">>})
<1>1. Sends(PostBooking, {"CUSTOMER"}, {"booking"})
  BY DEF Sends, PostBooking, Writes, Customer
<1> QED BY <1>1, OpenPages DEF PagesOf, Touches, Renews, Change, useCreateBooking, bookingPosted

LEMMA BookingCancelled ==
    Touches(bookingCancelled, {"CUSTOMER"}, {"booking", "ledger", "audit"}, {<<"bookings", "id">>})
<1>1. Sends(PatchBooking, {"CUSTOMER"}, {"booking", "ledger", "audit"})
  BY DEF Sends, PatchBooking, Writes, AnyRole
<1>2. IsPrefixOf(<<"bookings", "id">>, <<"bookings", "id">>)
  BY KeyPrefixes
<1> QED BY <1>1, <1>2, Drops DEF bookingCancelled

LEMMA ReviewCreated ==
    Touches(reviewCreated, {"CUSTOMER"}, {"review"}, {<<"bookings", "id">>})
<1>1. Sends(PostReview, {"CUSTOMER"}, {"review"})
  BY DEF Sends, PostReview, Writes, Customer
<1>2. IsPrefixOf(<<"bookings", "id">>, <<"bookings", "id">>)
  BY KeyPrefixes
<1> QED BY <1>1, <1>2, Drops DEF reviewCreated

LEMMA ReviewDeleted ==
    Touches(reviewDeleted, {"CUSTOMER"}, {"review"}, {myReviewsKey})
<1>1. Sends(DelReview, {"CUSTOMER"}, {"review"})
  BY DEF Sends, DelReview, Writes
<1>2. IsPrefixOf(myReviewsKey, myReviewsKey)
  BY KeyPrefixes DEF myReviewsKey
<1> QED BY <1>1, <1>2, Drops DEF reviewDeleted

LEMMA Complaining ==
    Touches(Change(PostComplaint, {complaintsKey}), {"CUSTOMER"}, {"complaint"}, {complaintsKey})
<1>1. Sends(PostComplaint, {"CUSTOMER"}, {"complaint"})
  BY DEF Sends, PostComplaint, Writes, Customer
<1>2. IsPrefixOf(complaintsKey, complaintsKey)
  BY KeyPrefixes DEF complaintsKey
<1> QED BY <1>1, <1>2, Drops

LEMMA VehicleChanges ==
    \A c \in {Change(PostVehicle, {vehiclesKey}), Change(PatchVehicle, {vehiclesKey}),
              Change(DelVehicle, {vehiclesKey})} :
        Touches(c, {"CUSTOMER"}, {"vehicle"}, {vehiclesKey})
<1>1. Sends(PostVehicle, {"CUSTOMER"}, {"vehicle"})
  BY DEF Sends, PostVehicle, Writes, Customer
<1>2. Sends(PatchVehicle, {"CUSTOMER"}, {"vehicle"})
  BY DEF Sends, PatchVehicle, Writes, Customer
<1>3. Sends(DelVehicle, {"CUSTOMER"}, {"vehicle"})
  BY DEF Sends, DelVehicle, Writes, Customer
<1>4. IsPrefixOf(vehiclesKey, vehiclesKey)
  BY KeyPrefixes DEF vehiclesKey
<1> QED BY <1>1, <1>2, <1>3, <1>4, Drops

LEMMA OwnDetails ==
    Touches(Change(PatchMe, {}), AnyRole, {"account", "contact"}, {})
<1>1. Sends(PatchMe, AnyRole, {"account", "contact"})
  BY DEF Sends, PatchMe, Writes, AnyRole
<1> QED BY <1>1, Drops

LEMMA OwnPassword ==
    Touches(Change(PatchPassword, {}), AnyRole, {}, {})
<1>1. Sends(PatchPassword, AnyRole, {})
  BY DEF Sends, PatchPassword, Writes, AnyRole
<1> QED BY <1>1, Drops

LEMMA ProfileUpdated ==
    Touches(profileUpdated, {"PROVIDER"}, {"business", "open", "contact"}, {ownProfileKey})
<1>1. Sends(PatchOwnProfile, {"PROVIDER"}, {"business", "open", "contact"})
  BY DEF Sends, PatchOwnProfile, Writes, Provider
<1> QED BY <1>1, Rewrites DEF profileUpdated

LEMMA HoursUpdated ==
    Touches(hoursUpdated, {"PROVIDER"}, {"hours"}, {ownHoursKey})
<1>1. Sends(PutOwnHours, {"PROVIDER"}, {"hours"})
  BY DEF Sends, PutOwnHours, Writes, Provider
<1> QED BY <1>1, Rewrites DEF hoursUpdated

LEMMA QueueChanges ==
    ASSUME NEW send \in {PatchBooking, PostQueue, PatchQueue, PatchReorder, DelQueue}
    PROVE  Touches(queueChange(send), {"PROVIDER"}, queueFacts,
                   queueKeys)
<1>1. Sends(send, {"PROVIDER"}, queueFacts)
  BY DEF Sends, PatchBooking, PostQueue, PatchQueue, PatchReorder, DelQueue, Writes, Staff,
         AnyRole, queueFacts
<1>2. /\ IsPrefixOf(<<"queue">>, <<"queue">>) /\ IsPrefixOf(<<"bookings">>, <<"bookings">>)
      /\ IsPrefixOf(<<"bookings">>, <<"bookings", "id">>)
  BY KeyPrefixes
<1> QED BY <1>1, <1>2, Drops DEF queueChange, queueKeys

LEMMA ServiceChanges ==
    \A c \in {Change(PostService, {ownProfileKey, providersKey}),
              Change(PatchService, {ownProfileKey, providersKey}),
              Change(DelService, {ownProfileKey, providersKey})} :
        Touches(c, {"PROVIDER"}, {"service"}, {ownProfileKey})
<1>1. Sends(PostService, {"PROVIDER"}, {"service"})
  BY DEF Sends, PostService, Writes, Provider
<1>2. Sends(PatchService, {"PROVIDER"}, {"service"})
  BY DEF Sends, PatchService, Writes, Provider
<1>3. Sends(DelService, {"PROVIDER"}, {"service"})
  BY DEF Sends, DelService, Writes, Provider
<1>4. IsPrefixOf(ownProfileKey, ownProfileKey)
  BY KeyPrefixes DEF ownProfileKey
<1> QED BY <1>1, <1>2, <1>3, <1>4, Drops

LEMMA PreferencesUpdated ==
    Touches(preferencesUpdated, AnyRole, {"preference"}, {preferencesKey})
<1>1. Sends(PatchPreferences, AnyRole, {"preference"})
  BY DEF Sends, PatchPreferences, Writes, AnyRole
<1> QED BY <1>1, Rewrites DEF preferencesUpdated

LEMMA AccountDeactivated ==
    Touches(accountDeactivated, {"PROVIDER"}, {"open", "contact"}, {ownProfileKey})
<1>1. Sends(PostDeactivate, {"PROVIDER"}, {"open", "contact"})
  BY DEF Sends, PostDeactivate, Writes, Provider
<1> QED BY <1>1, OpenPages DEF PagesOf, Touches, Renews, Change, accountDeactivated

LEMMA Approving ==
    Touches(Change(PatchApproval, {providersKey, overviewKey}),
            {"ADMIN"}, {"approval", "audit"}, {providersKey, overviewKey})
<1>1. Sends(PatchApproval, {"ADMIN"}, {"approval", "audit"})
  BY DEF Sends, PatchApproval, Writes, Admin
<1>2. /\ IsPrefixOf(providersKey, providersKey)
      /\ IsPrefixOf(overviewKey, overviewKey)
  BY KeyPrefixes DEF overviewKey, providersKey
<1> QED BY <1>1, <1>2, Drops

LEMMA CommissionSet ==
    Touches(commissionSet, {"ADMIN"}, {"rate", "audit"}, {<<"adminFinance", "commission">>})
<1>1. Sends(PutCommission, {"ADMIN"}, {"rate", "audit"})
  BY DEF Sends, PutCommission, Writes, Admin
<1>2. IsPrefixOf(<<"adminFinance", "commission">>, <<"adminFinance", "commission">>)
  BY KeyPrefixes
<1> QED BY <1>1, <1>2, Drops DEF commissionSet

LEMMA ReviewRemoved ==
    Touches(reviewRemoved, {"ADMIN"}, {"review"}, {<<"admin", "reviews">>})
<1>1. Sends(DelReview, {"ADMIN"}, {"review"})
  BY DEF Sends, DelReview, Writes
<1>2. IsPrefixOf(<<"admin", "reviews">>, <<"admin", "reviews">>)
  BY KeyPrefixes
<1> QED BY <1>1, <1>2, Drops DEF reviewRemoved

LEMMA ComplaintHandled ==
    Touches(Change(PatchComplaint, {<<"admin", "complaints">>, overviewKey}),
            {"ADMIN"}, {"complaint"}, {<<"admin", "complaints">>})
<1>1. Sends(PatchComplaint, {"ADMIN"}, {"complaint"})
  BY DEF Sends, PatchComplaint, Writes, Admin
<1>2. IsPrefixOf(<<"admin", "complaints">>, <<"admin", "complaints">>)
  BY KeyPrefixes
<1> QED BY <1>1, <1>2, Drops

LEMMA Settling ==
    Touches(Change(PatchSettlement, {<<"adminFinance">>, <<"finance", "me">>}),
            {"ADMIN"}, {"ledger", "audit"}, ledgerKeys)
<1>1. Sends(PatchSettlement, {"ADMIN"}, {"ledger", "audit"})
  BY DEF Sends, PatchSettlement, Writes, Admin
<1>2. /\ IsPrefixOf(<<"adminFinance">>, <<"adminFinance", "summary">>)
      /\ IsPrefixOf(<<"adminFinance">>, <<"adminFinance", "transactions">>)
  BY KeyPrefixes
<1> QED BY <1>1, <1>2, Drops DEF ledgerKeys

LEMMA FuelUpdated ==
    Touches(fuelUpdated,
            {"ADMIN"}, {"fuel", "fuelHistory", "audit"}, fuelKeys)
<1>1. Sends(PutFuel, {"ADMIN"}, {"fuel", "fuelHistory", "audit"})
  BY DEF Sends, PutFuel, Writes, Admin
<1>2. /\ IsPrefixOf(<<"adminFuel", "id">>, <<"adminFuel", "id">>)
      /\ IsPrefixOf(<<"adminFuelHistory", "id">>, <<"adminFuelHistory", "id">>)
      /\ IsPrefixOf(<<"fuelHistory", "id">>, <<"fuelHistory", "id">>)
  BY KeyPrefixes
<1> QED BY <1>1, <1>2, Drops DEF fuelUpdated, fuelKeys

LEMMA CategoryChanges ==
    ASSUME NEW send \in {PostCategory, PutCategory, DelCategory}
    PROVE  Touches([Change(send, {}) EXCEPT !.sets = {<<"useAdminCategories">>}],
                   {"ADMIN"}, {"category", "audit"}, {<<"useAdminCategories">>})
<1>1. Sends(send, {"ADMIN"}, {"category", "audit"})
  BY DEF Sends, PostCategory, PutCategory, DelCategory, Writes, Admin
<1> QED BY <1>1, Rewrites

LEMMA PolicyUpdated ==
    Touches([Change(PatchPolicy, {}) EXCEPT !.sets = {<<"adminBookingPolicy">>}],
            {"ADMIN"}, {"policy", "audit"}, {<<"adminBookingPolicy">>})
<1>1. Sends(PatchPolicy, {"ADMIN"}, {"policy", "audit"})
  BY DEF Sends, PatchPolicy, Writes, Admin
<1> QED BY <1>1, Rewrites

LEMMA BackingUp ==
    Touches(Change(PostBackup, {}), {"ADMIN"}, {"audit"}, {})
<1>1. Sends(PostBackup, {"ADMIN"}, {"audit"})
  BY DEF Sends, PostBackup, Writes, Admin
<1> QED BY <1>1, Drops

LEMMA Asking ==
    Touches(Change(PostChat, {}), AnyRole, {}, {})
<1>1. Sends(PostChat, AnyRole, {})
  BY DEF Sends, PostChat, Reads, AnyRole
<1> QED BY <1>1, Drops

-----------------------------------------------------------------------------
(* What the pages are made of and what holds of each: the queries it asks, *)
(* the changes it offers, and where it leads; then, query by query, that its *)
(* role may ask it and that each change leaves it alone or renews it.      *)

LEMMA useCancelBookingIs ==
    /\ useCancelBooking.asks = {}
    /\ useCancelBooking.offers = {bookingCancelled}
    /\ useCancelBooking.links = {}
BY DEF useCancelBooking, bookingCancelled, Offers

LEMMA useCreateReviewIs ==
    /\ useCreateReview.asks = {}
    /\ useCreateReview.offers = {reviewCreated}
    /\ useCreateReview.links = {}
BY DEF useCreateReview, reviewCreated, Offers

LEMMA useDeleteReviewIs ==
    /\ useDeleteReview.asks = {}
    /\ useDeleteReview.offers = {reviewDeleted}
    /\ useDeleteReview.links = {}
BY DEF useDeleteReview, reviewDeleted, Offers

LEMMA useUpdateOwnProfileIs ==
    /\ useUpdateOwnProfile.asks = {}
    /\ useUpdateOwnProfile.offers = {profileUpdated}
    /\ useUpdateOwnProfile.links = {}
BY DEF useUpdateOwnProfile, profileUpdated, Offers

LEMMA useUpdateOwnHoursIs ==
    /\ useUpdateOwnHours.asks = {}
    /\ useUpdateOwnHours.offers = {hoursUpdated}
    /\ useUpdateOwnHours.links = {}
BY DEF useUpdateOwnHours, hoursUpdated, Offers

LEMMA useUpdateNotificationPreferencesIs ==
    /\ useUpdateNotificationPreferences.asks = {}
    /\ useUpdateNotificationPreferences.offers = {preferencesUpdated}
    /\ useUpdateNotificationPreferences.links = {}
BY DEF useUpdateNotificationPreferences, preferencesUpdated, Offers

LEMMA useDeactivateAccountIs ==
    /\ useDeactivateAccount.asks = {}
    /\ useDeactivateAccount.offers = {accountDeactivated}
    /\ useDeactivateAccount.links = {}
BY DEF useDeactivateAccount, accountDeactivated, Offers

LEMMA useUpdateProviderCommissionIs ==
    /\ useUpdateProviderCommission.asks = {}
    /\ useUpdateProviderCommission.offers = {commissionSet}
    /\ useUpdateProviderCommission.links = {}
BY DEF useUpdateProviderCommission, commissionSet, Offers

LEMMA useUpdateAdminFuelIs ==
    /\ useUpdateAdminFuel.asks = {}
    /\ useUpdateAdminFuel.offers = {fuelUpdated}
    /\ useUpdateAdminFuel.links = {}
BY DEF useUpdateAdminFuel, fuelUpdated, Offers

-----------------------------------------------------------------------------
(* The customer's pages.                                                   *)

LEMMA LiveStationCardIs ==
    /\ LiveStationCard.asks = {Query(<<"liveCamera", "id">>, GetLiveCamera)}
    /\ LiveStationCard.offers = {}
    /\ LiveStationCard.links = {"LiveStationPage"}
BY DEF LiveStationCard, useLiveCameraStatus, All, Asks, Offers, LinksTo

LEMMA FavoriteButtonIs ==
    /\ FavoriteButton.asks = {Query(favoritesKey, GetMyFavorites)}
    /\ FavoriteButton.offers = {Change(PostFavorite, {favoritesKey}),
                                Change(DelFavorite, {favoritesKey})}
    /\ FavoriteButton.links = {}
BY DEF FavoriteButton, useMyFavorites, useToggleFavorite, All, Asks, Offers, LinksTo

LEMMA ProviderCardIs ==
    /\ ProviderCard.asks = {Query(<<"queue-summary", "id">>, GetQueueSummary),
                            Query(favoritesKey, GetMyFavorites)}
    /\ ProviderCard.offers = {Change(PostFavorite, {favoritesKey}),
                              Change(DelFavorite, {favoritesKey})}
    /\ ProviderCard.links = {"ProviderDetailsPage"}
BY FavoriteButtonIs DEF ProviderCard, useQueueSummary, All, Asks, Offers, LinksTo

LEMMA DiscoveryPageIs ==
    /\ DiscoveryPage.asks = {Query(providersKey, GetProviders),
                             Query(categoriesKey, GetCategories),
                             Query(<<"rating-summary", "id">>, GetRatingSummary),
                             Query(<<"queue-summary", "id">>, GetQueueSummary),
                             Query(favoritesKey, GetMyFavorites),
                             Query(<<"liveCamera", "id">>, GetLiveCamera)}
    /\ DiscoveryPage.offers = {Change(PostFavorite, {favoritesKey}),
                               Change(DelFavorite, {favoritesKey})}
    /\ DiscoveryPage.links = {"ProviderDetailsPage", "LiveStationPage"}
BY LiveStationCardIs, ProviderCardIs DEF DiscoveryPage, useNearbyProviders, All, Asks, Offers,
       LinksTo

LEMMA DiscoveryPageHolds == PageHolds(DiscoveryPage, "DiscoveryPage", "CUSTOMER")
<1>1. ASSUME NEW q \in DiscoveryPage.asks
      PROVE  /\ "CUSTOMER" \in q.get.may /\ "notification" \notin q.get.reads
             /\ q.get.reads \cap {"favorite"} = {} \/ q.key \in {favoritesKey}
  BY DiscoveryPageIs, QueryIs DEF GetProviders, AnyRole, Profile, GetCategories, GetRatingSummary,
         GetQueueSummary, GetMyFavorites, Customer, GetLiveCamera, Reads
<1>2. ASSUME NEW c \in DiscoveryPage.offers
      PROVE  Touches(c, {"CUSTOMER"}, {"favorite"}, {favoritesKey})
  BY DiscoveryPageIs, Favoring
<1>3. DiscoveryPage.links \subseteq PagesOf("CUSTOMER")
  BY DiscoveryPageIs, OpenPages
<1>4. ASSUME NEW c \in DiscoveryPage.offers, NEW q \in DiscoveryPage.asks
      PROVE  Covered(c, q, "DiscoveryPage")
  BY <1>1, <1>2, CoveredWhen
<1> QED BY <1>1, <1>2, <1>3, <1>4 DEF PageHolds, Touches, Sends

LEMMA CreateBookingModalIs ==
    /\ CreateBookingModal.asks = {Query(<<"availability", "id">>, GetAvailability)}
    /\ CreateBookingModal.offers = {bookingPosted}
    /\ CreateBookingModal.links = {}
BY DEF CreateBookingModal, useAvailability, useCreateBooking, bookingPosted, All, Asks, Offers,
       LinksTo

LEMMA ProviderDetailsPageIs ==
    /\ ProviderDetailsPage.asks = {Query(providersKey, GetProviders),
                                   Query(<<"rating-summary", "id">>, GetRatingSummary),
                                   Query(<<"reviews", "id">>, GetReviewsOf),
                                   Query(<<"queue-summary", "id">>, GetQueueSummary),
                                   Query(<<"providerHours", "id">>, GetHoursOf),
                                   Query(<<"fuel", "id">>, GetFuelOf),
                                   Query(<<"fuelHistory", "id">>, GetFuelHistoryOf),
                                   Query(favoritesKey, GetMyFavorites),
                                   Query(<<"availability", "id">>, GetAvailability)}
    /\ ProviderDetailsPage.offers = {Change(PostFavorite, {favoritesKey}),
                                     Change(DelFavorite, {favoritesKey}), bookingPosted}
    /\ ProviderDetailsPage.links = {"DiscoveryPage"}
<1>1. ProviderDetailsPage.asks = {Query(providersKey, GetProviders),
                                  Query(<<"rating-summary", "id">>, GetRatingSummary),
                                  Query(<<"reviews", "id">>, GetReviewsOf),
                                  Query(<<"queue-summary", "id">>, GetQueueSummary),
                                  Query(<<"providerHours", "id">>, GetHoursOf),
                                  Query(<<"fuel", "id">>, GetFuelOf),
                                  Query(<<"fuelHistory", "id">>, GetFuelHistoryOf),
                                  Query(favoritesKey, GetMyFavorites),
                                  Query(<<"availability", "id">>, GetAvailability)}
  BY CreateBookingModalIs, FavoriteButtonIs DEF ProviderDetailsPage, FuelHistoryChart,
         useProviderDetails, useProviderFuel, useProviderFuelHistory, useProviderHours,
         useProviderRating, useProviderReviews, useQueueSummary, All, Asks, Offers, LinksTo
<1>2. ProviderDetailsPage.offers = {Change(PostFavorite, {favoritesKey}),
                                    Change(DelFavorite, {favoritesKey}), bookingPosted}
  <2>1. ProviderDetailsPage.offers = FavoriteButton.offers \cup CreateBookingModal.offers
    BY DEF ProviderDetailsPage, FuelHistoryChart, useProviderDetails, useProviderFuel,
           useProviderFuelHistory, useProviderHours, useProviderRating, useProviderReviews,
           useQueueSummary, All, Asks, LinksTo
  <2> QED BY <2>1, CreateBookingModalIs, FavoriteButtonIs
<1>3. ProviderDetailsPage.links = {"DiscoveryPage"}
  BY CreateBookingModalIs, FavoriteButtonIs DEF ProviderDetailsPage, FuelHistoryChart,
         useProviderDetails, useProviderFuel, useProviderFuelHistory, useProviderHours,
         useProviderRating, useProviderReviews, useQueueSummary, All, Asks, Offers, LinksTo
<1> QED BY <1>1, <1>2, <1>3

LEMMA ProviderDetailsPageHolds == PageHolds(ProviderDetailsPage, "ProviderDetailsPage", "CUSTOMER")
<1>1. ASSUME NEW q \in ProviderDetailsPage.asks
      PROVE  /\ "CUSTOMER" \in q.get.may /\ "notification" \notin q.get.reads
             /\ q.get.reads \cap {"favorite"} = {} \/ q.key \in {favoritesKey}
             /\ q.get.reads \cap {"booking"} = {} \/ q.key \in {<<"availability", "id">>}
  BY ProviderDetailsPageIs, QueryIs DEF GetProviders, AnyRole, Profile, GetRatingSummary,
         GetReviewsOf, GetQueueSummary, GetHoursOf, GetFuelOf, GetFuelHistoryOf, GetMyFavorites,
         Customer, GetAvailability, Reads
<1>2. ASSUME NEW c \in ProviderDetailsPage.offers
      PROVE  \/ Touches(c, {"CUSTOMER"}, {"favorite"}, {favoritesKey})
             \/ Touches(c, {"CUSTOMER"}, {"booking"}, {<<"availability", "id">>})
  BY ProviderDetailsPageIs, Favoring, BookingPosted
<1>3. ProviderDetailsPage.links \subseteq PagesOf("CUSTOMER")
  BY ProviderDetailsPageIs, OpenPages
<1>4. ASSUME NEW c \in ProviderDetailsPage.offers, NEW q \in ProviderDetailsPage.asks
      PROVE  Covered(c, q, "ProviderDetailsPage")
  <2>1. CASE Touches(c, {"CUSTOMER"}, {"favorite"}, {favoritesKey})
    BY <1>1, <2>1, CoveredWhen
  <2>2. CASE Touches(c, {"CUSTOMER"}, {"booking"}, {<<"availability", "id">>})
    BY <1>1, <2>2, CoveredWhen
  <2> QED BY <1>2, <2>1, <2>2
<1> QED BY <1>1, <1>2, <1>3, <1>4 DEF PageHolds, Touches, Sends

LEMMA LiveStationPageIs ==
    /\ LiveStationPage.asks = {Query(providersKey, GetProviders),
                               Query(<<"queue-summary", "id">>, GetQueueSummary),
                               Query(<<"fuel", "id">>, GetFuelOf),
                               Query(<<"liveCamera", "id">>, GetLiveCamera)}
    /\ LiveStationPage.offers = {}
    /\ LiveStationPage.links = {"DiscoveryPage"}
BY DEF LiveStationPage, useLiveCameraStatus, useProviderDetails, useProviderFuel, useQueueSummary,
       All, Asks, Offers, LinksTo

LEMMA LiveStationPageHolds == PageHolds(LiveStationPage, "LiveStationPage", "CUSTOMER")
<1>1. ASSUME NEW q \in LiveStationPage.asks
      PROVE  /\ "CUSTOMER" \in q.get.may /\ "notification" \notin q.get.reads
  BY LiveStationPageIs, QueryIs DEF GetProviders, AnyRole, Profile, GetQueueSummary, GetFuelOf,
         GetLiveCamera, Reads
<1>2. LiveStationPage.offers = {}
  BY LiveStationPageIs
<1>3. LiveStationPage.links \subseteq PagesOf("CUSTOMER")
  BY LiveStationPageIs, OpenPages
<1> QED BY <1>1, <1>2, <1>3 DEF PageHolds

LEMMA BookingCardIs ==
    /\ BookingCard.asks = {Query(<<"queue">>, GetQueue)}
    /\ BookingCard.offers = {}
    /\ BookingCard.links = {"BookingDetailsPage"}
BY DEF BookingCard, CustomerQueueBadge, useMyQueueEntries, All, Asks, Offers, LinksTo

LEMMA BookingHistoryPageIs ==
    /\ BookingHistoryPage.asks = {Query(<<"bookings">>, GetBookings), Query(<<"queue">>, GetQueue)}
    /\ BookingHistoryPage.offers = {}
    /\ BookingHistoryPage.links = {"BookingDetailsPage"}
BY BookingCardIs DEF BookingHistoryPage, useBookings, All, Asks, Offers, LinksTo

LEMMA BookingHistoryPageHolds == PageHolds(BookingHistoryPage, "BookingHistoryPage", "CUSTOMER")
<1>1. ASSUME NEW q \in BookingHistoryPage.asks
      PROVE  /\ "CUSTOMER" \in q.get.may /\ "notification" \notin q.get.reads
  BY BookingHistoryPageIs, QueryIs DEF GetBookings, AnyRole, Details, GetQueue, Reads
<1>2. BookingHistoryPage.offers = {}
  BY BookingHistoryPageIs
<1>3. BookingHistoryPage.links \subseteq PagesOf("CUSTOMER")
  BY BookingHistoryPageIs, OpenPages
<1> QED BY <1>1, <1>2, <1>3 DEF PageHolds

LEMMA BookingDetailsPageIs ==
    /\ BookingDetailsPage.asks = {Query(<<"bookings", "id">>, GetBooking),
                                  Query(<<"queue">>, GetQueue)}
    /\ BookingDetailsPage.offers = {bookingCancelled, reviewCreated}
    /\ BookingDetailsPage.links = {"BookingHistoryPage"}
BY useCancelBookingIs, useCreateReviewIs DEF BookingDetailsPage, CreateReviewModal,
       CustomerQueueStatusCard, useBookingDetails, useMyQueueEntries, All, Asks, Offers, LinksTo

LEMMA BookingDetailsPageHolds == PageHolds(BookingDetailsPage, "BookingDetailsPage", "CUSTOMER")
<1>1. ASSUME NEW q \in BookingDetailsPage.asks
      PROVE  /\ "CUSTOMER" \in q.get.may /\ "notification" \notin q.get.reads
             /\ q.get.reads \cap {"booking", "ledger", "audit"} = {} \/ q.key \in {<<"bookings", "id">>}
             /\ q.get.reads \cap {"review"} = {} \/ q.key \in {<<"bookings", "id">>}
  BY BookingDetailsPageIs, QueryIs DEF GetBooking, AnyRole, Details, GetQueue, Reads
<1>2. ASSUME NEW c \in BookingDetailsPage.offers
      PROVE  \/ Touches(c, {"CUSTOMER"}, {"booking", "ledger", "audit"}, {<<"bookings", "id">>})
             \/ Touches(c, {"CUSTOMER"}, {"review"}, {<<"bookings", "id">>})
  BY BookingDetailsPageIs, BookingCancelled, ReviewCreated
<1>3. BookingDetailsPage.links \subseteq PagesOf("CUSTOMER")
  BY BookingDetailsPageIs, OpenPages
<1>4. ASSUME NEW c \in BookingDetailsPage.offers, NEW q \in BookingDetailsPage.asks
      PROVE  Covered(c, q, "BookingDetailsPage")
  <2>1. CASE Touches(c, {"CUSTOMER"}, {"booking", "ledger", "audit"}, {<<"bookings", "id">>})
    BY <1>1, <2>1, CoveredWhen
  <2>2. CASE Touches(c, {"CUSTOMER"}, {"review"}, {<<"bookings", "id">>})
    BY <1>1, <2>2, CoveredWhen
  <2> QED BY <1>2, <2>1, <2>2
<1> QED BY <1>1, <1>2, <1>3, <1>4 DEF PageHolds, Touches, Sends

LEMMA CustomerSettingsPageIs ==
    /\ CustomerSettingsPage.asks = {}
    /\ CustomerSettingsPage.offers = {Change(PatchMe, {}), Change(PatchPassword, {})}
    /\ CustomerSettingsPage.links = {}
BY DEF CustomerSettingsPage, useChangePassword, useUpdateProfile, All, Asks, Offers, LinksTo

LEMMA CustomerSettingsPageHolds == PageHolds(CustomerSettingsPage, "CustomerSettingsPage", "CUSTOMER")
<1>1. CustomerSettingsPage.asks = {}
  BY CustomerSettingsPageIs
<1>2. ASSUME NEW c \in CustomerSettingsPage.offers
      PROVE  \/ Touches(c, {"CUSTOMER"}, {"account", "contact"}, {})
             \/ Touches(c, {"CUSTOMER"}, {}, {})
  BY CustomerSettingsPageIs, OwnDetails, OwnPassword, TouchesOne DEF AnyRole
<1>3. CustomerSettingsPage.links \subseteq PagesOf("CUSTOMER")
  BY CustomerSettingsPageIs, OpenPages
<1> QED BY <1>1, <1>2, <1>3 DEF PageHolds, Touches, Sends

LEMMA MyReviewsPageIs ==
    /\ MyReviewsPage.asks = {Query(myReviewsKey, GetMyReviews)}
    /\ MyReviewsPage.offers = {reviewDeleted}
    /\ MyReviewsPage.links = {}
BY useDeleteReviewIs DEF MyReviewsPage, useMyReviews, All, Asks, Offers, LinksTo

LEMMA MyReviewsPageHolds == PageHolds(MyReviewsPage, "MyReviewsPage", "CUSTOMER")
<1>1. ASSUME NEW q \in MyReviewsPage.asks
      PROVE  /\ "CUSTOMER" \in q.get.may /\ "notification" \notin q.get.reads
             /\ q.get.reads \cap {"review"} = {} \/ q.key \in {myReviewsKey}
  BY MyReviewsPageIs, QueryIs DEF GetMyReviews, Customer, Reads
<1>2. ASSUME NEW c \in MyReviewsPage.offers
      PROVE  Touches(c, {"CUSTOMER"}, {"review"}, {myReviewsKey})
  BY MyReviewsPageIs, ReviewDeleted
<1>3. MyReviewsPage.links \subseteq PagesOf("CUSTOMER")
  BY MyReviewsPageIs, OpenPages
<1>4. ASSUME NEW c \in MyReviewsPage.offers, NEW q \in MyReviewsPage.asks
      PROVE  Covered(c, q, "MyReviewsPage")
  BY <1>1, <1>2, CoveredWhen
<1> QED BY <1>1, <1>2, <1>3, <1>4 DEF PageHolds, Touches, Sends

LEMMA FavoritesPageIs ==
    /\ FavoritesPage.asks = {Query(favoritesKey, GetMyFavorites)}
    /\ FavoritesPage.offers = {Change(PostFavorite, {favoritesKey}),
                               Change(DelFavorite, {favoritesKey})}
    /\ FavoritesPage.links = {"ProviderDetailsPage"}
BY FavoriteButtonIs DEF FavoritesPage, useMyFavorites, All, Asks, Offers, LinksTo

LEMMA FavoritesPageHolds == PageHolds(FavoritesPage, "FavoritesPage", "CUSTOMER")
<1>1. ASSUME NEW q \in FavoritesPage.asks
      PROVE  /\ "CUSTOMER" \in q.get.may /\ "notification" \notin q.get.reads
             /\ q.get.reads \cap {"favorite"} = {} \/ q.key \in {favoritesKey}
  BY FavoritesPageIs, QueryIs DEF GetMyFavorites, Customer, Reads
<1>2. ASSUME NEW c \in FavoritesPage.offers
      PROVE  Touches(c, {"CUSTOMER"}, {"favorite"}, {favoritesKey})
  BY FavoritesPageIs, Favoring
<1>3. FavoritesPage.links \subseteq PagesOf("CUSTOMER")
  BY FavoritesPageIs, OpenPages
<1>4. ASSUME NEW c \in FavoritesPage.offers, NEW q \in FavoritesPage.asks
      PROVE  Covered(c, q, "FavoritesPage")
  BY <1>1, <1>2, CoveredWhen
<1> QED BY <1>1, <1>2, <1>3, <1>4 DEF PageHolds, Touches, Sends

LEMMA CreateComplaintModalIs ==
    /\ CreateComplaintModal.asks = {Query(providersKey, GetProviders)}
    /\ CreateComplaintModal.offers = {Change(PostComplaint, {complaintsKey})}
    /\ CreateComplaintModal.links = {}
BY DEF CreateComplaintModal, useCreateComplaint, All, Asks, Offers, LinksTo

LEMMA MyComplaintsPageIs ==
    /\ MyComplaintsPage.asks = {Query(complaintsKey, GetMyComplaints),
                                Query(providersKey, GetProviders)}
    /\ MyComplaintsPage.offers = {Change(PostComplaint, {complaintsKey})}
    /\ MyComplaintsPage.links = {}
BY CreateComplaintModalIs DEF MyComplaintsPage, useMyComplaints, All, Asks, Offers, LinksTo

LEMMA MyComplaintsPageHolds == PageHolds(MyComplaintsPage, "MyComplaintsPage", "CUSTOMER")
<1>1. ASSUME NEW q \in MyComplaintsPage.asks
      PROVE  /\ "CUSTOMER" \in q.get.may /\ "notification" \notin q.get.reads
             /\ q.get.reads \cap {"complaint"} = {} \/ q.key \in {complaintsKey}
  BY MyComplaintsPageIs, QueryIs DEF GetMyComplaints, Customer, GetProviders, AnyRole, Profile,
         Reads
<1>2. ASSUME NEW c \in MyComplaintsPage.offers
      PROVE  Touches(c, {"CUSTOMER"}, {"complaint"}, {complaintsKey})
  BY MyComplaintsPageIs, Complaining
<1>3. MyComplaintsPage.links \subseteq PagesOf("CUSTOMER")
  BY MyComplaintsPageIs, OpenPages
<1>4. ASSUME NEW c \in MyComplaintsPage.offers, NEW q \in MyComplaintsPage.asks
      PROVE  Covered(c, q, "MyComplaintsPage")
  BY <1>1, <1>2, CoveredWhen
<1> QED BY <1>1, <1>2, <1>3, <1>4 DEF PageHolds, Touches, Sends

LEMMA VehicleFormModalIs ==
    /\ VehicleFormModal.asks = {}
    /\ VehicleFormModal.offers = {Change(PostVehicle, {vehiclesKey}),
                                  Change(PatchVehicle, {vehiclesKey})}
    /\ VehicleFormModal.links = {}
BY DEF VehicleFormModal, useCreateVehicle, useUpdateVehicle, All, Asks, Offers, LinksTo

LEMMA MyVehiclesPageIs ==
    /\ MyVehiclesPage.asks = {Query(vehiclesKey, GetVehicles)}
    /\ MyVehiclesPage.offers = {Change(PostVehicle, {vehiclesKey}),
                                Change(PatchVehicle, {vehiclesKey}),
                                Change(DelVehicle, {vehiclesKey})}
    /\ MyVehiclesPage.links = {}
BY VehicleFormModalIs DEF MyVehiclesPage, useDeleteVehicle, useMyVehicles, All, Asks, Offers,
       LinksTo

LEMMA MyVehiclesPageHolds == PageHolds(MyVehiclesPage, "MyVehiclesPage", "CUSTOMER")
<1>1. ASSUME NEW q \in MyVehiclesPage.asks
      PROVE  /\ "CUSTOMER" \in q.get.may /\ "notification" \notin q.get.reads
             /\ q.get.reads \cap {"vehicle"} = {} \/ q.key \in {vehiclesKey}
  BY MyVehiclesPageIs, QueryIs DEF GetVehicles, Customer, Reads
<1>2. ASSUME NEW c \in MyVehiclesPage.offers
      PROVE  Touches(c, {"CUSTOMER"}, {"vehicle"}, {vehiclesKey})
  BY MyVehiclesPageIs, VehicleChanges
<1>3. MyVehiclesPage.links \subseteq PagesOf("CUSTOMER")
  BY MyVehiclesPageIs, OpenPages
<1>4. ASSUME NEW c \in MyVehiclesPage.offers, NEW q \in MyVehiclesPage.asks
      PROVE  Covered(c, q, "MyVehiclesPage")
  BY <1>1, <1>2, CoveredWhen
<1> QED BY <1>1, <1>2, <1>3, <1>4 DEF PageHolds, Touches, Sends

LEMMA CustomerPagesHold ==
    ASSUME NEW p \in DOMAIN customerRoutes
    PROVE  PageHolds(customerRoutes[p], p, "CUSTOMER")
BY CustomerPages, DiscoveryPageHolds, ProviderDetailsPageHolds, LiveStationPageHolds,
   BookingHistoryPageHolds, BookingDetailsPageHolds, CustomerSettingsPageHolds,
   MyReviewsPageHolds, FavoritesPageHolds, MyComplaintsPageHolds, MyVehiclesPageHolds DEF
   customerRoutes

-----------------------------------------------------------------------------
(* The provider's pages.                                                   *)

LEMMA AddWalkInModalIs ==
    /\ AddWalkInModal.asks = {
                              Query(<<"own-provider-services">>, Keeping(GetProviders, {"service"}))}
    /\ AddWalkInModal.offers = {queueChange(PostQueue)}
    /\ AddWalkInModal.links = {}
BY DEF AddWalkInModal, addWalkInCustomer, useOwnProviderServices, All, Asks, Offers, LinksTo

LEMMA useProviderDashboardIs ==
    /\ useProviderDashboard.asks = {Query(ownProfileKey, GetOwnProfile),
                                    Query(<<"bookings">>, Keeping(GetBookings, {"booking", "service"})),
                                    Query(<<"provider", "me", "analytics">>, GetOwnAnalytics),
                                    Query(<<"provider", "me", "reviews">>, GetReviewsOf)}
    /\ useProviderDashboard.offers = {}
    /\ useProviderDashboard.links = {}
BY DEF useProviderDashboard, ownAnalytics, ownReviews, useOwnProviderProfile, useProviderBookings,
       All, Asks, Offers, LinksTo

LEMMA ProviderOverviewIs ==
    /\ ProviderOverview.asks = {Query(ownProfileKey, GetOwnProfile),
                                Query(<<"bookings">>, Keeping(GetBookings, {"booking", "service"})),
                                Query(<<"provider", "me", "analytics">>, GetOwnAnalytics),
                                Query(<<"provider", "me", "reviews">>, GetReviewsOf),
                                Query(<<"queue">>, Keeping(GetQueue, {"queue", "service"})),
                                Query(<<"own-provider-services">>, Keeping(GetProviders, {"service"}))}
    /\ ProviderOverview.offers = {profileUpdated, queueChange(PatchQueue), queueChange(PostQueue)}
    /\ ProviderOverview.links = {"ServicesPage", "ProviderBookingsPage", "BusinessProfilePage",
                                 "AnalyticsPage"}
BY AddWalkInModalIs, useProviderDashboardIs, useUpdateOwnProfileIs DEF ProviderOverview,
       QuickActions, beginService, useProviderQueue, All, Asks, Offers, LinksTo

LEMMA ProviderOverviewHolds == PageHolds(ProviderOverview, "ProviderDashboardPage", "PROVIDER")
<1>1. ASSUME NEW q \in ProviderOverview.asks
      PROVE  /\ "PROVIDER" \in q.get.may /\ "notification" \notin q.get.reads
             /\ q.get.reads \cap {"business", "open", "contact"} = {} \/ q.key \in {ownProfileKey}
             /\ \/ q.get.reads \cap queueFacts = {}
                \/ q.key \in queueKeys
                \/ <<"ProviderDashboardPage", q.key>> \in KnownGaps
  BY ProviderOverviewIs, QueryIs DEF GetOwnProfile, Provider, Profile, GetBookings, Keeping,
         AnyRole, GetOwnAnalytics, GetReviewsOf, GetQueue, GetProviders, Reads, KnownGaps,
         queueFacts, queueKeys
<1>2. ASSUME NEW c \in ProviderOverview.offers
      PROVE  \/ Touches(c, {"PROVIDER"}, {"business", "open", "contact"}, {ownProfileKey})
             \/ Touches(c, {"PROVIDER"}, queueFacts, queueKeys)
  BY ProviderOverviewIs, ProfileUpdated, QueueChanges
<1>3. ProviderOverview.links \subseteq PagesOf("PROVIDER")
  BY ProviderOverviewIs, OpenPages
<1>4. ASSUME NEW c \in ProviderOverview.offers, NEW q \in ProviderOverview.asks
      PROVE  Covered(c, q, "ProviderDashboardPage")
  <2>1. CASE Touches(c, {"PROVIDER"}, {"business", "open", "contact"}, {ownProfileKey})
    BY <1>1, <2>1, CoveredWhen
  <2>2. CASE Touches(c, {"PROVIDER"}, queueFacts, queueKeys)
    BY <1>1, <2>2, CoveredWhen
  <2> QED BY <1>2, <2>1, <2>2
<1> QED BY <1>1, <1>2, <1>3, <1>4 DEF PageHolds, Touches, Sends, queueFacts

LEMMA useProviderServicesIs ==
    /\ useProviderServices.asks = {Query(ownProfileKey, GetOwnProfile),
                                   Query(categoriesKey, GetCategories)}
    /\ useProviderServices.offers = {Change(PostService, {ownProfileKey, providersKey}),
                                     Change(PatchService, {ownProfileKey, providersKey}),
                                     Change(DelService, {ownProfileKey, providersKey})}
    /\ useProviderServices.links = {}
BY DEF useProviderServices, useOwnProviderProfile, All, Asks, Offers, LinksTo

LEMMA ServicesPageIs ==
    /\ ServicesPage.asks = {Query(ownProfileKey, GetOwnProfile),
                            Query(categoriesKey, GetCategories)}
    /\ ServicesPage.offers = {Change(PostService, {ownProfileKey, providersKey}),
                              Change(PatchService, {ownProfileKey, providersKey}),
                              Change(DelService, {ownProfileKey, providersKey})}
    /\ ServicesPage.links = {}
BY useProviderServicesIs DEF ServicesPage

LEMMA ServicesPageHolds == PageHolds(ServicesPage, "ServicesPage", "PROVIDER")
<1>1. ASSUME NEW q \in ServicesPage.asks
      PROVE  /\ "PROVIDER" \in q.get.may /\ "notification" \notin q.get.reads
             /\ q.get.reads \cap {"service"} = {} \/ q.key \in {ownProfileKey}
  BY ServicesPageIs, QueryIs DEF GetOwnProfile, Provider, Profile, GetCategories, AnyRole, Reads
<1>2. ASSUME NEW c \in ServicesPage.offers
      PROVE  Touches(c, {"PROVIDER"}, {"service"}, {ownProfileKey})
  BY ServicesPageIs, ServiceChanges
<1>3. ServicesPage.links \subseteq PagesOf("PROVIDER")
  BY ServicesPageIs, OpenPages
<1>4. ASSUME NEW c \in ServicesPage.offers, NEW q \in ServicesPage.asks
      PROVE  Covered(c, q, "ServicesPage")
  BY <1>1, <1>2, CoveredWhen
<1> QED BY <1>1, <1>2, <1>3, <1>4 DEF PageHolds, Touches, Sends

LEMMA QueuePageIs ==
    /\ QueuePage.asks = {Query(<<"queue">>, Keeping(GetQueue, {"queue", "service"})),
                         Query(<<"own-provider-services">>, Keeping(GetProviders, {"service"}))}
    /\ QueuePage.offers = {queueChange(PatchQueue), queueChange(PostQueue),
                           queueChange(PatchReorder), queueChange(DelQueue)}
    /\ QueuePage.links = {}
BY AddWalkInModalIs DEF QueuePage, beginService, useProviderQueue, All, Asks, Offers, LinksTo

LEMMA QueuePageHolds == PageHolds(QueuePage, "QueuePage", "PROVIDER")
<1>1. ASSUME NEW q \in QueuePage.asks
      PROVE  /\ "PROVIDER" \in q.get.may /\ "notification" \notin q.get.reads
             /\ q.get.reads \cap queueFacts = {} \/ q.key \in queueKeys
  BY QueuePageIs, QueryIs DEF GetQueue, Keeping, AnyRole, GetProviders, Reads, queueFacts, queueKeys
<1>2. ASSUME NEW c \in QueuePage.offers
      PROVE  Touches(c, {"PROVIDER"}, queueFacts, queueKeys)
  BY QueuePageIs, QueueChanges
<1>3. QueuePage.links \subseteq PagesOf("PROVIDER")
  BY QueuePageIs, OpenPages
<1>4. ASSUME NEW c \in QueuePage.offers, NEW q \in QueuePage.asks
      PROVE  Covered(c, q, "QueuePage")
  BY <1>1, <1>2, CoveredWhen
<1> QED BY <1>1, <1>2, <1>3, <1>4 DEF PageHolds, Touches, Sends, queueFacts

LEMMA OperatingHoursEditorIs ==
    /\ OperatingHoursEditor.asks = {Query(ownHoursKey, GetOwnHours)}
    /\ OperatingHoursEditor.offers = {hoursUpdated}
    /\ OperatingHoursEditor.links = {}
BY useUpdateOwnHoursIs DEF OperatingHoursEditor, useOwnHours, All, Asks, Offers, LinksTo

LEMMA BusinessProfilePageIs ==
    /\ BusinessProfilePage.asks = {Query(ownProfileKey, GetOwnProfile),
                                   Query(<<"fuel", "me">>, GetOwnFuel),
                                   Query(ownHoursKey, GetOwnHours)}
    /\ BusinessProfilePage.offers = {profileUpdated, hoursUpdated}
    /\ BusinessProfilePage.links = {}
BY OperatingHoursEditorIs, useUpdateOwnProfileIs DEF BusinessProfilePage, useOwnFuel,
       useOwnProviderProfile, All, Asks, Offers, LinksTo

LEMMA BusinessProfilePageHolds == PageHolds(BusinessProfilePage, "BusinessProfilePage", "PROVIDER")
<1>1. ASSUME NEW q \in BusinessProfilePage.asks
      PROVE  /\ "PROVIDER" \in q.get.may /\ "notification" \notin q.get.reads
             /\ q.get.reads \cap {"business", "open", "contact"} = {} \/ q.key \in {ownProfileKey}
             /\ q.get.reads \cap {"hours"} = {} \/ q.key \in {ownHoursKey}
  BY BusinessProfilePageIs, QueryIs DEF GetOwnProfile, Provider, Profile, GetOwnFuel, GetOwnHours,
         Reads
<1>2. ASSUME NEW c \in BusinessProfilePage.offers
      PROVE  \/ Touches(c, {"PROVIDER"}, {"business", "open", "contact"}, {ownProfileKey})
             \/ Touches(c, {"PROVIDER"}, {"hours"}, {ownHoursKey})
  BY BusinessProfilePageIs, ProfileUpdated, HoursUpdated
<1>3. BusinessProfilePage.links \subseteq PagesOf("PROVIDER")
  BY BusinessProfilePageIs, OpenPages
<1>4. ASSUME NEW c \in BusinessProfilePage.offers, NEW q \in BusinessProfilePage.asks
      PROVE  Covered(c, q, "BusinessProfilePage")
  <2>1. CASE Touches(c, {"PROVIDER"}, {"business", "open", "contact"}, {ownProfileKey})
    BY <1>1, <2>1, CoveredWhen
  <2>2. CASE Touches(c, {"PROVIDER"}, {"hours"}, {ownHoursKey})
    BY <1>1, <2>2, CoveredWhen
  <2> QED BY <1>2, <2>1, <2>2
<1> QED BY <1>1, <1>2, <1>3, <1>4 DEF PageHolds, Touches, Sends

LEMMA LiveStatusPageIs ==
    /\ LiveStatusPage.asks = {Query(ownProfileKey, GetOwnProfile),
                              Query(<<"queue">>, Keeping(GetQueue, {"queue", "service"}))}
    /\ LiveStatusPage.offers = {profileUpdated}
    /\ LiveStatusPage.links = {}
BY useUpdateOwnProfileIs DEF LiveStatusPage, useOwnProviderProfile, useProviderQueue, All, Asks,
       Offers, LinksTo

LEMMA LiveStatusPageHolds == PageHolds(LiveStatusPage, "LiveStatusPage", "PROVIDER")
<1>1. ASSUME NEW q \in LiveStatusPage.asks
      PROVE  /\ "PROVIDER" \in q.get.may /\ "notification" \notin q.get.reads
             /\ q.get.reads \cap {"business", "open", "contact"} = {} \/ q.key \in {ownProfileKey}
  BY LiveStatusPageIs, QueryIs DEF GetOwnProfile, Provider, Profile, GetQueue, Keeping, AnyRole,
         Reads
<1>2. ASSUME NEW c \in LiveStatusPage.offers
      PROVE  Touches(c, {"PROVIDER"}, {"business", "open", "contact"}, {ownProfileKey})
  BY LiveStatusPageIs, ProfileUpdated
<1>3. LiveStatusPage.links \subseteq PagesOf("PROVIDER")
  BY LiveStatusPageIs, OpenPages
<1>4. ASSUME NEW c \in LiveStatusPage.offers, NEW q \in LiveStatusPage.asks
      PROVE  Covered(c, q, "LiveStatusPage")
  BY <1>1, <1>2, CoveredWhen
<1> QED BY <1>1, <1>2, <1>3, <1>4 DEF PageHolds, Touches, Sends

LEMMA ProviderReviewsPageIs ==
    /\ ProviderReviewsPage.asks = {Query(ownProfileKey, GetOwnProfile),
                                   Query(<<"provider", "me", "reviews">>, GetReviewsOf)}
    /\ ProviderReviewsPage.offers = {}
    /\ ProviderReviewsPage.links = {}
BY DEF ProviderReviewsPage, ownReviews, useOwnProviderProfile, All, Asks, Offers, LinksTo

LEMMA ProviderReviewsPageHolds == PageHolds(ProviderReviewsPage, "ProviderReviewsPage", "PROVIDER")
<1>1. ASSUME NEW q \in ProviderReviewsPage.asks
      PROVE  /\ "PROVIDER" \in q.get.may /\ "notification" \notin q.get.reads
  BY ProviderReviewsPageIs, QueryIs DEF GetOwnProfile, Provider, Profile, GetReviewsOf, AnyRole,
         Reads
<1>2. ProviderReviewsPage.offers = {}
  BY ProviderReviewsPageIs
<1>3. ProviderReviewsPage.links \subseteq PagesOf("PROVIDER")
  BY ProviderReviewsPageIs, OpenPages
<1> QED BY <1>1, <1>2, <1>3 DEF PageHolds

LEMMA NotificationPreferencesCardIs ==
    /\ NotificationPreferencesCard.asks = {Query(preferencesKey, GetPreferences)}
    /\ NotificationPreferencesCard.offers = {preferencesUpdated}
    /\ NotificationPreferencesCard.links = {}
BY useUpdateNotificationPreferencesIs DEF NotificationPreferencesCard, useNotificationPreferences,
       All, Asks, Offers, LinksTo

LEMMA ProviderSettingsPageIs ==
    /\ ProviderSettingsPage.asks = {Query(ownProfileKey, GetOwnProfile),
                                    Query(preferencesKey, GetPreferences)}
    /\ ProviderSettingsPage.offers = {profileUpdated, preferencesUpdated,
                                      Change(PatchPassword, {}), accountDeactivated}
    /\ ProviderSettingsPage.links = {"BusinessProfilePage"}
BY NotificationPreferencesCardIs, useDeactivateAccountIs, useUpdateOwnProfileIs DEF
       ProviderSettingsPage, useChangePassword, useOwnProviderProfile, All, Asks, Offers, LinksTo

LEMMA ProviderSettingsPageHolds == PageHolds(ProviderSettingsPage, "ProviderSettingsPage", "PROVIDER")
<1>1. ASSUME NEW q \in ProviderSettingsPage.asks
      PROVE  /\ "PROVIDER" \in q.get.may /\ "notification" \notin q.get.reads
             /\ q.get.reads \cap {"business", "open", "contact"} = {} \/ q.key \in {ownProfileKey}
             /\ q.get.reads \cap {"preference"} = {} \/ q.key \in {preferencesKey}
             /\ q.get.reads \cap {"open", "contact"} = {} \/ q.key \in {ownProfileKey}
  BY ProviderSettingsPageIs, QueryIs DEF GetOwnProfile, Provider, Profile, GetPreferences, AnyRole,
         Reads
<1>2. ASSUME NEW c \in ProviderSettingsPage.offers
      PROVE  \/ Touches(c, {"PROVIDER"}, {"business", "open", "contact"}, {ownProfileKey})
             \/ Touches(c, {"PROVIDER"}, {"preference"}, {preferencesKey})
             \/ Touches(c, {"PROVIDER"}, {}, {})
             \/ Touches(c, {"PROVIDER"}, {"open", "contact"}, {ownProfileKey})
  BY ProviderSettingsPageIs, ProfileUpdated, PreferencesUpdated, OwnPassword, AccountDeactivated,
     TouchesOne DEF AnyRole
<1>3. ProviderSettingsPage.links \subseteq PagesOf("PROVIDER")
  BY ProviderSettingsPageIs, OpenPages
<1>4. ASSUME NEW c \in ProviderSettingsPage.offers, NEW q \in ProviderSettingsPage.asks
      PROVE  Covered(c, q, "ProviderSettingsPage")
  <2>1. CASE Touches(c, {"PROVIDER"}, {"business", "open", "contact"}, {ownProfileKey})
    BY <1>1, <2>1, CoveredWhen
  <2>2. CASE Touches(c, {"PROVIDER"}, {"preference"}, {preferencesKey})
    BY <1>1, <2>2, CoveredWhen
  <2>3. CASE Touches(c, {"PROVIDER"}, {}, {})
    BY <1>1, <2>3, CoveredWhen
  <2>4. CASE Touches(c, {"PROVIDER"}, {"open", "contact"}, {ownProfileKey})
    BY <1>1, <2>4, CoveredWhen
  <2> QED BY <1>2, <2>1, <2>2, <2>3, <2>4
<1> QED BY <1>1, <1>2, <1>3, <1>4 DEF PageHolds, Touches, Sends

LEMMA BookingActionsIs ==
    /\ BookingActions.asks = {Query(<<"queue">>, Keeping(GetQueue, {"queue"}))}
    /\ BookingActions.offers = {queueChange(PatchBooking), queueChange(PostQueue),
                                queueChange(PatchQueue), queueChange(DelQueue)}
    /\ BookingActions.links = {}
BY DEF BookingActions, useProviderBookingActions, useProviderQueueIndex, All, Asks, Offers, LinksTo

LEMMA ProviderBookingRowIs ==
    /\ ProviderBookingRow.asks = {Query(<<"queue">>, Keeping(GetQueue, {"queue"}))}
    /\ ProviderBookingRow.offers = {queueChange(PatchBooking), queueChange(PostQueue),
                                    queueChange(PatchQueue), queueChange(DelQueue)}
    /\ ProviderBookingRow.links = {"ProviderBookingDetailsPage"}
BY BookingActionsIs DEF ProviderBookingRow, All, Asks, Offers, LinksTo

LEMMA ProviderBookingsPageIs ==
    /\ ProviderBookingsPage.asks = {
                                    Query(<<"bookings">>, Keeping(GetBookings, {"booking", "service"})),
                                    Query(<<"queue">>, Keeping(GetQueue, {"queue"}))}
    /\ ProviderBookingsPage.offers = {queueChange(PatchBooking), queueChange(PostQueue),
                                      queueChange(PatchQueue), queueChange(DelQueue)}
    /\ ProviderBookingsPage.links = {"ProviderBookingDetailsPage"}
BY ProviderBookingRowIs DEF ProviderBookingsPage, useProviderBookings, All, Asks, Offers, LinksTo

LEMMA ProviderBookingsPageHolds == PageHolds(ProviderBookingsPage, "ProviderBookingsPage", "PROVIDER")
<1>1. ASSUME NEW q \in ProviderBookingsPage.asks
      PROVE  /\ "PROVIDER" \in q.get.may /\ "notification" \notin q.get.reads
             /\ q.get.reads \cap queueFacts = {} \/ q.key \in queueKeys
  BY ProviderBookingsPageIs, QueryIs DEF GetBookings, Keeping, AnyRole, GetQueue,
         Reads, queueFacts, queueKeys
<1>2. ASSUME NEW c \in ProviderBookingsPage.offers
      PROVE  Touches(c, {"PROVIDER"}, queueFacts, queueKeys)
  BY ProviderBookingsPageIs, QueueChanges
<1>3. ProviderBookingsPage.links \subseteq PagesOf("PROVIDER")
  BY ProviderBookingsPageIs, OpenPages
<1>4. ASSUME NEW c \in ProviderBookingsPage.offers, NEW q \in ProviderBookingsPage.asks
      PROVE  Covered(c, q, "ProviderBookingsPage")
  BY <1>1, <1>2, CoveredWhen
<1> QED BY <1>1, <1>2, <1>3, <1>4 DEF PageHolds, Touches, Sends, queueFacts

LEMMA ProviderBookingDetailsPageIs ==
    /\ ProviderBookingDetailsPage.asks = {Query(<<"bookings", "id">>, GetBooking),
                                          Query(<<"queue">>, Keeping(GetQueue, {"queue"})),
                                          Query(<<"finance", "me", "transactions">>, GetOwnTransactions)}
    /\ ProviderBookingDetailsPage.offers = {queueChange(PatchBooking), queueChange(PostQueue),
                                            queueChange(PatchQueue), queueChange(DelQueue)}
    /\ ProviderBookingDetailsPage.links = {"ProviderBookingsPage"}
BY BookingActionsIs DEF ProviderBookingDetailsPage, useBookingDetails, useOwnFinanceTransactions,
       All, Asks, Offers, LinksTo

LEMMA ProviderBookingDetailsPageHolds ==
    PageHolds(ProviderBookingDetailsPage, "ProviderBookingDetailsPage", "PROVIDER")
<1>1. ASSUME NEW q \in ProviderBookingDetailsPage.asks
      PROVE  /\ "PROVIDER" \in q.get.may /\ "notification" \notin q.get.reads
             /\ \/ q.get.reads \cap queueFacts = {}
                \/ q.key \in queueKeys
                \/ <<"ProviderBookingDetailsPage", q.key>> \in KnownGaps
  BY ProviderBookingDetailsPageIs, QueryIs DEF GetBooking, AnyRole, Details, GetQueue, Keeping,
         GetOwnTransactions, Provider, Reads, KnownGaps, queueFacts, queueKeys
<1>2. ASSUME NEW c \in ProviderBookingDetailsPage.offers
      PROVE  Touches(c, {"PROVIDER"}, queueFacts, queueKeys)
  BY ProviderBookingDetailsPageIs, QueueChanges
<1>3. ProviderBookingDetailsPage.links \subseteq PagesOf("PROVIDER")
  BY ProviderBookingDetailsPageIs, OpenPages
<1>4. ASSUME NEW c \in ProviderBookingDetailsPage.offers, NEW q \in ProviderBookingDetailsPage.asks
      PROVE  Covered(c, q, "ProviderBookingDetailsPage")
  BY <1>1, <1>2, CoveredWhen
<1> QED BY <1>1, <1>2, <1>3, <1>4 DEF PageHolds, Touches, Sends, queueFacts

LEMMA AnalyticsPageHolds == PageHolds(AnalyticsPage, "AnalyticsPage", "PROVIDER")
<1>1. ASSUME NEW q \in AnalyticsPage.asks
      PROVE  /\ "PROVIDER" \in q.get.may /\ "notification" \notin q.get.reads
  BY QueryIs DEF AnalyticsPage, ownAnalytics, Asks, Offers, LinksTo, GetOwnAnalytics, Provider,
         Reads
<1>2. AnalyticsPage.offers = {}
  BY DEF AnalyticsPage, ownAnalytics, Asks, Offers, LinksTo
<1>3. AnalyticsPage.links \subseteq PagesOf("PROVIDER")
  BY OpenPages DEF AnalyticsPage, ownAnalytics, Asks, Offers, LinksTo
<1> QED BY <1>1, <1>2, <1>3 DEF PageHolds

LEMMA ProviderFinancePageIs ==
    /\ ProviderFinancePage.asks = {Query(<<"finance", "me", "summary">>, GetOwnSummary),
                                   Query(<<"finance", "me", "transactions">>, GetOwnTransactions),
                                   Query(<<"finance", "me", "commission">>, GetOwnCommission)}
    /\ ProviderFinancePage.offers = {}
    /\ ProviderFinancePage.links = {}
BY DEF ProviderFinancePage, useOwnCommission, useOwnFinanceSummary, useOwnFinanceTransactions, All,
       Asks, Offers, LinksTo

LEMMA ProviderFinancePageHolds == PageHolds(ProviderFinancePage, "ProviderFinancePage", "PROVIDER")
<1>1. ASSUME NEW q \in ProviderFinancePage.asks
      PROVE  /\ "PROVIDER" \in q.get.may /\ "notification" \notin q.get.reads
  BY ProviderFinancePageIs, QueryIs DEF GetOwnSummary, Provider, GetOwnTransactions,
         GetOwnCommission, Reads
<1>2. ProviderFinancePage.offers = {}
  BY ProviderFinancePageIs
<1>3. ProviderFinancePage.links \subseteq PagesOf("PROVIDER")
  BY ProviderFinancePageIs, OpenPages
<1> QED BY <1>1, <1>2, <1>3 DEF PageHolds

LEMMA ProviderPagesHold ==
    ASSUME NEW p \in DOMAIN providerRoutes
    PROVE  PageHolds(providerRoutes[p], p, "PROVIDER")
BY ProviderPages, ProviderOverviewHolds, ServicesPageHolds, QueuePageHolds,
   BusinessProfilePageHolds, LiveStatusPageHolds, ProviderReviewsPageHolds,
   ProviderSettingsPageHolds, ProviderBookingsPageHolds, ProviderBookingDetailsPageHolds,
   AnalyticsPageHolds, ProviderFinancePageHolds DEF providerRoutes

-----------------------------------------------------------------------------
(* The admin's pages.                                                      *)

LEMMA useProviderApprovalsIs ==
    /\ useProviderApprovals.asks = {Query(providersKey, GetProviders)}
    /\ useProviderApprovals.offers = {Change(PatchApproval, {providersKey, overviewKey})}
    /\ useProviderApprovals.links = {}
BY DEF useProviderApprovals, All, Asks, Offers, LinksTo

LEMMA AdminOverviewIs ==
    /\ AdminOverview.asks = {Query(overviewKey, GetOverview), Query(providersKey, GetProviders)}
    /\ AdminOverview.offers = {Change(PatchApproval, {providersKey, overviewKey})}
    /\ AdminOverview.links = {"AdminProvidersPage", "AdminUsersPage", "AdminBookingsPage",
                              "AdminComplaintsPage", "AdminReviewsPage", "AdminAnalyticsPage",
                              "CategoriesPage"}
BY useProviderApprovalsIs DEF AdminOverview, useAdminOverview, All, Asks, Offers, LinksTo

LEMMA AdminOverviewHolds == PageHolds(AdminOverview, "AdminDashboardPage", "ADMIN")
<1>1. ASSUME NEW q \in AdminOverview.asks
      PROVE  /\ "ADMIN" \in q.get.may /\ "notification" \notin q.get.reads
             /\ q.get.reads \cap {"approval", "audit"} = {} \/ q.key \in {providersKey, overviewKey}
  BY AdminOverviewIs, QueryIs DEF GetOverview, Admin, GetProviders, AnyRole, Profile, Reads
<1>2. ASSUME NEW c \in AdminOverview.offers
      PROVE  Touches(c, {"ADMIN"}, {"approval", "audit"}, {providersKey, overviewKey})
  BY AdminOverviewIs, Approving
<1>3. AdminOverview.links \subseteq PagesOf("ADMIN")
  BY AdminOverviewIs, OpenPages
<1>4. ASSUME NEW c \in AdminOverview.offers, NEW q \in AdminOverview.asks
      PROVE  Covered(c, q, "AdminDashboardPage")
  BY <1>1, <1>2, CoveredWhen
<1> QED BY <1>1, <1>2, <1>3, <1>4 DEF PageHolds, Touches, Sends

LEMMA useAdminCategoriesIs ==
    /\ useAdminCategories.asks = {Query(<<"useAdminCategories">>, GetCategories)}
    /\ useAdminCategories.offers = {
                [Change(PostCategory, {}) EXCEPT !.sets = {<<"useAdminCategories">>}],
                [Change(PutCategory, {}) EXCEPT !.sets = {<<"useAdminCategories">>}],
                [Change(DelCategory, {}) EXCEPT !.sets = {<<"useAdminCategories">>}]}
    /\ useAdminCategories.links = {}
BY DEF useAdminCategories, All, Asks, Offers, LinksTo

LEMMA CategoriesPageIs ==
    /\ CategoriesPage.asks = {Query(<<"useAdminCategories">>, GetCategories)}
    /\ CategoriesPage.offers = {
                                [Change(PostCategory, {}) EXCEPT !.sets = {<<"useAdminCategories">>}],
                                [Change(PutCategory, {}) EXCEPT !.sets = {<<"useAdminCategories">>}],
                                [Change(DelCategory, {}) EXCEPT !.sets = {<<"useAdminCategories">>}]}
    /\ CategoriesPage.links = {}
BY useAdminCategoriesIs DEF CategoriesPage

LEMMA CategoriesPageHolds == PageHolds(CategoriesPage, "CategoriesPage", "ADMIN")
<1>1. ASSUME NEW q \in CategoriesPage.asks
      PROVE  /\ "ADMIN" \in q.get.may /\ "notification" \notin q.get.reads
             /\ q.get.reads \cap {"category", "audit"} = {} \/ q.key \in {<<"useAdminCategories">>}
  BY CategoriesPageIs, QueryIs DEF GetCategories, AnyRole, Reads
<1>2. ASSUME NEW c \in CategoriesPage.offers
      PROVE  Touches(c, {"ADMIN"}, {"category", "audit"}, {<<"useAdminCategories">>})
  BY CategoriesPageIs, CategoryChanges
<1>3. CategoriesPage.links \subseteq PagesOf("ADMIN")
  BY CategoriesPageIs, OpenPages
<1>4. ASSUME NEW c \in CategoriesPage.offers, NEW q \in CategoriesPage.asks
      PROVE  Covered(c, q, "CategoriesPage")
  BY <1>1, <1>2, CoveredWhen
<1> QED BY <1>1, <1>2, <1>3, <1>4 DEF PageHolds, Touches, Sends

LEMMA AdminFuelPageIs ==
    /\ AdminFuelPage.asks = {Query(providersKey, GetProviders),
                             Query(<<"adminFuel", "id">>, GetAdminFuel),
                             Query(<<"adminFuelHistory", "id">>, GetAdminFuelHistory),
                             Query(<<"fuelHistory", "id">>, GetFuelHistoryOf)}
    /\ AdminFuelPage.offers = {fuelUpdated}
    /\ AdminFuelPage.links = {}
BY useUpdateAdminFuelIs DEF AdminFuelPage, FuelHistoryChart, useAdminFuel, useAdminFuelHistory,
       useProviderFuelHistory, All, Asks, Offers, LinksTo

LEMMA AdminFuelPageHolds == PageHolds(AdminFuelPage, "AdminFuelPage", "ADMIN")
<1>1. ASSUME NEW q \in AdminFuelPage.asks
      PROVE  /\ "ADMIN" \in q.get.may /\ "notification" \notin q.get.reads
             /\ q.get.reads \cap {"fuel", "fuelHistory", "audit"} = {} \/ q.key \in fuelKeys
  BY AdminFuelPageIs, QueryIs DEF GetProviders, AnyRole, Profile, GetAdminFuel, Admin,
         GetAdminFuelHistory, GetFuelHistoryOf, Reads, fuelKeys
<1>2. ASSUME NEW c \in AdminFuelPage.offers
      PROVE  Touches(c, {"ADMIN"}, {"fuel", "fuelHistory", "audit"}, fuelKeys)
  BY AdminFuelPageIs, FuelUpdated
<1>3. AdminFuelPage.links \subseteq PagesOf("ADMIN")
  BY AdminFuelPageIs, OpenPages
<1>4. ASSUME NEW c \in AdminFuelPage.offers, NEW q \in AdminFuelPage.asks
      PROVE  Covered(c, q, "AdminFuelPage")
  BY <1>1, <1>2, CoveredWhen
<1> QED BY <1>1, <1>2, <1>3, <1>4 DEF PageHolds, Touches, Sends

LEMMA CommissionEditModalIs ==
    /\ CommissionEditModal.asks = {Query(<<"adminFinance", "commission">>, GetCommission)}
    /\ CommissionEditModal.offers = {commissionSet}
    /\ CommissionEditModal.links = {}
BY useUpdateProviderCommissionIs DEF CommissionEditModal, useProviderCommission, All, Asks, Offers,
       LinksTo

LEMMA AdminProvidersPageIs ==
    /\ AdminProvidersPage.asks = {Query(providersKey, GetProviders),
                                  Query(<<"adminFinance", "commission">>, GetCommission)}
    /\ AdminProvidersPage.offers = {Change(PatchApproval, {providersKey, overviewKey}),
                                    commissionSet}
    /\ AdminProvidersPage.links = {}
BY CommissionEditModalIs, useProviderApprovalsIs DEF AdminProvidersPage, All, Asks, Offers, LinksTo

LEMMA AdminProvidersPageHolds == PageHolds(AdminProvidersPage, "AdminProvidersPage", "ADMIN")
<1>1. ASSUME NEW q \in AdminProvidersPage.asks
      PROVE  /\ "ADMIN" \in q.get.may /\ "notification" \notin q.get.reads
             /\ q.get.reads \cap {"approval", "audit"} = {} \/ q.key \in {providersKey, overviewKey}
             /\ q.get.reads \cap {"rate", "audit"} = {} \/ q.key \in {<<"adminFinance", "commission">>}
  BY AdminProvidersPageIs, QueryIs DEF GetProviders, AnyRole, Profile, GetCommission, Admin, Reads
<1>2. ASSUME NEW c \in AdminProvidersPage.offers
      PROVE  \/ Touches(c, {"ADMIN"}, {"approval", "audit"}, {providersKey, overviewKey})
             \/ Touches(c, {"ADMIN"}, {"rate", "audit"}, {<<"adminFinance", "commission">>})
  BY AdminProvidersPageIs, Approving, CommissionSet
<1>3. AdminProvidersPage.links \subseteq PagesOf("ADMIN")
  BY AdminProvidersPageIs, OpenPages
<1>4. ASSUME NEW c \in AdminProvidersPage.offers, NEW q \in AdminProvidersPage.asks
      PROVE  Covered(c, q, "AdminProvidersPage")
  <2>1. CASE Touches(c, {"ADMIN"}, {"approval", "audit"}, {providersKey, overviewKey})
    BY <1>1, <2>1, CoveredWhen
  <2>2. CASE Touches(c, {"ADMIN"}, {"rate", "audit"}, {<<"adminFinance", "commission">>})
    BY <1>1, <2>2, CoveredWhen
  <2> QED BY <1>2, <2>1, <2>2
<1> QED BY <1>1, <1>2, <1>3, <1>4 DEF PageHolds, Touches, Sends

LEMMA AdminUsersPageIs ==
    /\ AdminUsersPage.asks = {Query(<<"admin", "users">>, GetUsers),
                              Query(<<"admin", "users", "id">>, GetUser)}
    /\ AdminUsersPage.offers = {}
    /\ AdminUsersPage.links = {}
BY DEF AdminUsersPage, UserDetailModal, All, Asks, Offers, LinksTo

LEMMA AdminUsersPageHolds == PageHolds(AdminUsersPage, "AdminUsersPage", "ADMIN")
<1>1. ASSUME NEW q \in AdminUsersPage.asks
      PROVE  /\ "ADMIN" \in q.get.may /\ "notification" \notin q.get.reads
  BY AdminUsersPageIs, QueryIs DEF GetUsers, Admin, GetUser, Reads
<1>2. AdminUsersPage.offers = {}
  BY AdminUsersPageIs
<1>3. AdminUsersPage.links \subseteq PagesOf("ADMIN")
  BY AdminUsersPageIs, OpenPages
<1> QED BY <1>1, <1>2, <1>3 DEF PageHolds

LEMMA AdminBookingsPageIs ==
    /\ AdminBookingsPage.asks = {Query(<<"bookings">>, GetBookings),
                                 Query(<<"adminFinance", "transactions">>, GetTransactions)}
    /\ AdminBookingsPage.offers = {}
    /\ AdminBookingsPage.links = {}
BY DEF AdminBookingsPage, useAdminFinanceTransactions, useBookings, All, Asks, Offers, LinksTo

LEMMA AdminBookingsPageHolds == PageHolds(AdminBookingsPage, "AdminBookingsPage", "ADMIN")
<1>1. ASSUME NEW q \in AdminBookingsPage.asks
      PROVE  /\ "ADMIN" \in q.get.may /\ "notification" \notin q.get.reads
  BY AdminBookingsPageIs, QueryIs DEF GetBookings, AnyRole, Details, GetTransactions, Admin, Reads
<1>2. AdminBookingsPage.offers = {}
  BY AdminBookingsPageIs
<1>3. AdminBookingsPage.links \subseteq PagesOf("ADMIN")
  BY AdminBookingsPageIs, OpenPages
<1> QED BY <1>1, <1>2, <1>3 DEF PageHolds

LEMMA AdminReviewsPageIs ==
    /\ AdminReviewsPage.asks = {Query(<<"admin", "reviews">>, GetAllReviews)}
    /\ AdminReviewsPage.offers = {reviewRemoved}
    /\ AdminReviewsPage.links = {}
BY DEF AdminReviewsPage, reviewRemoved, All, Asks, Offers, LinksTo

LEMMA AdminReviewsPageHolds == PageHolds(AdminReviewsPage, "AdminReviewsPage", "ADMIN")
<1>1. ASSUME NEW q \in AdminReviewsPage.asks
      PROVE  /\ "ADMIN" \in q.get.may /\ "notification" \notin q.get.reads
             /\ q.get.reads \cap {"review"} = {} \/ q.key \in {<<"admin", "reviews">>}
  BY AdminReviewsPageIs, QueryIs DEF GetAllReviews, Admin, Reads
<1>2. ASSUME NEW c \in AdminReviewsPage.offers
      PROVE  Touches(c, {"ADMIN"}, {"review"}, {<<"admin", "reviews">>})
  BY AdminReviewsPageIs, ReviewRemoved
<1>3. AdminReviewsPage.links \subseteq PagesOf("ADMIN")
  BY AdminReviewsPageIs, OpenPages
<1>4. ASSUME NEW c \in AdminReviewsPage.offers, NEW q \in AdminReviewsPage.asks
      PROVE  Covered(c, q, "AdminReviewsPage")
  BY <1>1, <1>2, CoveredWhen
<1> QED BY <1>1, <1>2, <1>3, <1>4 DEF PageHolds, Touches, Sends

LEMMA AdminComplaintsPageIs ==
    /\ AdminComplaintsPage.asks = {Query(<<"admin", "complaints">>, GetComplaints)}
    /\ AdminComplaintsPage.offers = {
                                     Change(PatchComplaint, {<<"admin", "complaints">>, overviewKey})}
    /\ AdminComplaintsPage.links = {}
BY DEF AdminComplaintsPage, All, Asks, Offers, LinksTo

LEMMA AdminComplaintsPageHolds == PageHolds(AdminComplaintsPage, "AdminComplaintsPage", "ADMIN")
<1>1. ASSUME NEW q \in AdminComplaintsPage.asks
      PROVE  /\ "ADMIN" \in q.get.may /\ "notification" \notin q.get.reads
             /\ q.get.reads \cap {"complaint"} = {} \/ q.key \in {<<"admin", "complaints">>}
  BY AdminComplaintsPageIs, QueryIs DEF GetComplaints, Admin, Reads
<1>2. ASSUME NEW c \in AdminComplaintsPage.offers
      PROVE  Touches(c, {"ADMIN"}, {"complaint"}, {<<"admin", "complaints">>})
  BY AdminComplaintsPageIs, ComplaintHandled
<1>3. AdminComplaintsPage.links \subseteq PagesOf("ADMIN")
  BY AdminComplaintsPageIs, OpenPages
<1>4. ASSUME NEW c \in AdminComplaintsPage.offers, NEW q \in AdminComplaintsPage.asks
      PROVE  Covered(c, q, "AdminComplaintsPage")
  BY <1>1, <1>2, CoveredWhen
<1> QED BY <1>1, <1>2, <1>3, <1>4 DEF PageHolds, Touches, Sends

LEMMA AdminAnalyticsPageHolds == PageHolds(AdminAnalyticsPage, "AdminAnalyticsPage", "ADMIN")
<1>1. ASSUME NEW q \in AdminAnalyticsPage.asks
      PROVE  /\ "ADMIN" \in q.get.may /\ "notification" \notin q.get.reads
  BY QueryIs DEF AdminAnalyticsPage, Asks, Offers, LinksTo, GetAnalytics, Admin, Reads
<1>2. AdminAnalyticsPage.offers = {}
  BY DEF AdminAnalyticsPage, Asks, Offers, LinksTo
<1>3. AdminAnalyticsPage.links \subseteq PagesOf("ADMIN")
  BY OpenPages DEF AdminAnalyticsPage, Asks, Offers, LinksTo
<1> QED BY <1>1, <1>2, <1>3 DEF PageHolds

LEMMA AdminFinancePageIs ==
    /\ AdminFinancePage.asks = {Query(<<"adminFinance", "summary">>, GetAdminSummary),
                                Query(<<"adminFinance", "transactions">>, GetTransactions),
                                Query(providersKey, GetProviders),
                                Query(<<"adminFinance", "commission">>, GetCommission)}
    /\ AdminFinancePage.offers = {
                                  Change(PatchSettlement, {<<"adminFinance">>, <<"finance", "me">>}),
                                  commissionSet}
    /\ AdminFinancePage.links = {}
BY CommissionEditModalIs DEF AdminFinancePage, useAdminFinanceSummary, useAdminFinanceTransactions,
       useSettleTransaction, All, Asks, Offers, LinksTo

LEMMA AdminFinancePageHolds == PageHolds(AdminFinancePage, "AdminFinancePage", "ADMIN")
<1>1. ASSUME NEW q \in AdminFinancePage.asks
      PROVE  /\ "ADMIN" \in q.get.may /\ "notification" \notin q.get.reads
             /\ q.get.reads \cap {"ledger", "audit"} = {} \/ q.key \in ledgerKeys
             /\ q.get.reads \cap {"rate", "audit"} = {} \/ q.key \in {<<"adminFinance", "commission">>}
  BY AdminFinancePageIs, QueryIs DEF GetAdminSummary, Admin, GetTransactions, GetProviders, AnyRole,
         Profile, GetCommission, Reads, ledgerKeys
<1>2. ASSUME NEW c \in AdminFinancePage.offers
      PROVE  \/ Touches(c, {"ADMIN"}, {"ledger", "audit"}, ledgerKeys)
             \/ Touches(c, {"ADMIN"}, {"rate", "audit"}, {<<"adminFinance", "commission">>})
  BY AdminFinancePageIs, Settling, CommissionSet
<1>3. AdminFinancePage.links \subseteq PagesOf("ADMIN")
  BY AdminFinancePageIs, OpenPages
<1>4. ASSUME NEW c \in AdminFinancePage.offers, NEW q \in AdminFinancePage.asks
      PROVE  Covered(c, q, "AdminFinancePage")
  <2>1. CASE Touches(c, {"ADMIN"}, {"ledger", "audit"}, ledgerKeys)
    BY <1>1, <2>1, CoveredWhen
  <2>2. CASE Touches(c, {"ADMIN"}, {"rate", "audit"}, {<<"adminFinance", "commission">>})
    BY <1>1, <2>2, CoveredWhen
  <2> QED BY <1>2, <2>1, <2>2
<1> QED BY <1>1, <1>2, <1>3, <1>4 DEF PageHolds, Touches, Sends

LEMMA BookingPolicyCardIs ==
    /\ BookingPolicyCard.asks = {Query(<<"adminBookingPolicy">>, GetPolicy)}
    /\ BookingPolicyCard.offers = {
                                   [Change(PatchPolicy, {}) EXCEPT !.sets = {<<"adminBookingPolicy">>}]}
    /\ BookingPolicyCard.links = {}
BY DEF BookingPolicyCard, useBookingPolicy, useUpdateBookingPolicy, All, Asks, Offers, LinksTo

LEMMA AdminSettingsPageIs ==
    /\ AdminSettingsPage.asks = {Query(<<"adminBookingPolicy">>, GetPolicy),
                                 Query(preferencesKey, GetPreferences)}
    /\ AdminSettingsPage.offers = {
                                   [Change(PatchPolicy, {}) EXCEPT !.sets = {<<"adminBookingPolicy">>}],
                                   preferencesUpdated, Change(PatchPassword, {}),
                                   Change(PostBackup, {})}
    /\ AdminSettingsPage.links = {"CategoriesPage", "AdminFinancePage", "AdminAuditLogPage"}
BY BookingPolicyCardIs, NotificationPreferencesCardIs DEF AdminSettingsPage, useChangePassword,
       useExportBackup, All, Asks, Offers, LinksTo

LEMMA AdminSettingsPageHolds == PageHolds(AdminSettingsPage, "AdminSettingsPage", "ADMIN")
<1>1. ASSUME NEW q \in AdminSettingsPage.asks
      PROVE  /\ "ADMIN" \in q.get.may /\ "notification" \notin q.get.reads
             /\ q.get.reads \cap {"policy", "audit"} = {} \/ q.key \in {<<"adminBookingPolicy">>}
             /\ q.get.reads \cap {"preference"} = {} \/ q.key \in {preferencesKey}
             /\ q.get.reads \cap {"audit"} = {}
  BY AdminSettingsPageIs, QueryIs DEF GetPolicy, Admin, GetPreferences, AnyRole, Reads
<1>2. ASSUME NEW c \in AdminSettingsPage.offers
      PROVE  \/ Touches(c, {"ADMIN"}, {"policy", "audit"}, {<<"adminBookingPolicy">>})
             \/ Touches(c, {"ADMIN"}, {"preference"}, {preferencesKey})
             \/ Touches(c, {"ADMIN"}, {}, {})
             \/ Touches(c, {"ADMIN"}, {"audit"}, {})
  BY AdminSettingsPageIs, PolicyUpdated, PreferencesUpdated, OwnPassword, BackingUp, TouchesOne DEF
     AnyRole
<1>3. AdminSettingsPage.links \subseteq PagesOf("ADMIN")
  BY AdminSettingsPageIs, OpenPages
<1>4. ASSUME NEW c \in AdminSettingsPage.offers, NEW q \in AdminSettingsPage.asks
      PROVE  Covered(c, q, "AdminSettingsPage")
  <2>1. CASE Touches(c, {"ADMIN"}, {"policy", "audit"}, {<<"adminBookingPolicy">>})
    BY <1>1, <2>1, CoveredWhen
  <2>2. CASE Touches(c, {"ADMIN"}, {"preference"}, {preferencesKey})
    BY <1>1, <2>2, CoveredWhen
  <2>3. CASE Touches(c, {"ADMIN"}, {}, {})
    BY <1>1, <2>3, CoveredWhen
  <2>4. CASE Touches(c, {"ADMIN"}, {"audit"}, {})
    BY <1>1, <2>4, CoveredWhen
  <2> QED BY <1>2, <2>1, <2>2, <2>3, <2>4
<1> QED BY <1>1, <1>2, <1>3, <1>4 DEF PageHolds, Touches, Sends

LEMMA AdminAuditLogPageHolds == PageHolds(AdminAuditLogPage, "AdminAuditLogPage", "ADMIN")
<1>1. ASSUME NEW q \in AdminAuditLogPage.asks
      PROVE  /\ "ADMIN" \in q.get.may /\ "notification" \notin q.get.reads
  BY QueryIs DEF AdminAuditLogPage, useAuditLog, Asks, Offers, LinksTo, GetAuditLog, Admin, Reads
<1>2. AdminAuditLogPage.offers = {}
  BY DEF AdminAuditLogPage, useAuditLog, Asks, Offers, LinksTo
<1>3. AdminAuditLogPage.links \subseteq PagesOf("ADMIN")
  BY OpenPages DEF AdminAuditLogPage, useAuditLog, Asks, Offers, LinksTo
<1> QED BY <1>1, <1>2, <1>3 DEF PageHolds

LEMMA AdminPagesHold ==
    ASSUME NEW p \in DOMAIN adminRoutes
    PROVE  PageHolds(adminRoutes[p], p, "ADMIN")
BY AdminPages, AdminOverviewHolds, CategoriesPageHolds, AdminFuelPageHolds,
   AdminProvidersPageHolds, AdminUsersPageHolds, AdminBookingsPageHolds, AdminReviewsPageHolds,
   AdminComplaintsPageHolds, AdminAnalyticsPageHolds, AdminFinancePageHolds,
   AdminSettingsPageHolds, AdminAuditLogPageHolds DEF adminRoutes

-----------------------------------------------------------------------------
(* The layout around them, and the pages every role has: these are about   *)
(* notifications alone.                                                    *)

notificationKeys == {notificationsKey, unreadCountKey}

\* Asks for notifications only, and whatever changes them has them asked again.
NotificationsOnly(part) ==
    /\ \A q \in part.asks : /\ AnyRole \subseteq q.get.may
                            /\ q.get.reads = {"notification"} /\ q.key \in notificationKeys
    /\ \A c \in part.offers : \/ Touches(c, AnyRole, {"notification"}, notificationKeys)
                              \/ Touches(c, AnyRole, {}, {})

marking(send) == Change(send, {notificationsKey, unreadCountKey})

LEMMA Marking ==
    \A c \in {marking(PatchRead), marking(PatchReadAll)} :
        Touches(c, AnyRole, {"notification"}, notificationKeys)
<1>1. Sends(PatchRead, AnyRole, {"notification"})
  BY DEF Sends, PatchRead, Writes
<1>2. Sends(PatchReadAll, AnyRole, {"notification"})
  BY DEF Sends, PatchReadAll, Writes
<1>3. IsPrefixOf(notificationsKey, notificationsKey) /\ IsPrefixOf(unreadCountKey, unreadCountKey)
  BY KeyPrefixes DEF notificationsKey, unreadCountKey
<1> QED BY <1>1, <1>2, <1>3, Drops DEF notificationKeys, marking

LEMMA MarkingHooks ==
    /\ useMarkNotificationRead.asks = {} /\ useMarkNotificationRead.links = {}
    /\ useMarkNotificationRead.offers = {marking(PatchRead)}
    /\ useMarkAllNotificationsRead.asks = {} /\ useMarkAllNotificationsRead.links = {}
    /\ useMarkAllNotificationsRead.offers = {marking(PatchReadAll)}
BY DEF useMarkNotificationRead, useMarkAllNotificationsRead, marking, Offers

LEMMA Navigation ==
    ASSUME NEW role \in AnyRole
    PROVE  /\ getNavForRole(role) \subseteq PagesOf(role)
           /\ notificationTarget(role) \subseteq PagesOf(role)
           /\ "NotificationsPage" \in PagesOf(role)
<1>1. CASE role = "CUSTOMER"
  BY <1>1, OpenPages DEF getNavForRole, notificationTarget, customerNav
<1>2. CASE role = "PROVIDER"
  BY <1>2, OpenPages DEF getNavForRole, notificationTarget, providerNav
<1>3. CASE role = "ADMIN"
  BY <1>3, OpenPages DEF getNavForRole, notificationTarget, adminNav
<1> QED BY <1>1, <1>2, <1>3 DEF AnyRole

LEMMA LayoutHolds ==
    ASSUME NEW role \in AnyRole
    PROVE  /\ NotificationsOnly(AuthenticatedDashboardLayout(role))
           /\ AuthenticatedDashboardLayout(role).links \subseteq PagesOf(role)
<1>1. /\ DashboardLayout(role).asks = {} /\ DashboardLayout(role).offers = {}
      /\ DashboardLayout(role).links \subseteq PagesOf(role)
  BY Navigation DEF DashboardLayout, NotificationsDropdown, All, LinksTo
<1>2. /\ AuthenticatedDashboardLayout(role).asks
           = {Query(notificationsKey, GetNotifications), Query(unreadCountKey, GetUnreadCount)}
      /\ AuthenticatedDashboardLayout(role).offers
           = {marking(PatchRead), marking(PatchReadAll)}
      /\ AuthenticatedDashboardLayout(role).links = DashboardLayout(role).links
  BY <1>1, MarkingHooks DEF AuthenticatedDashboardLayout, useNotifications, useUnreadCount, All, Asks
<1>3. \A q \in {Query(notificationsKey, GetNotifications), Query(unreadCountKey, GetUnreadCount)} :
         AnyRole \subseteq q.get.may /\ q.get.reads = {"notification"} /\ q.key \in notificationKeys
  BY QueryIs DEF GetNotifications, GetUnreadCount, Reads, notificationKeys
<1> QED BY <1>1, <1>2, <1>3, Marking DEF NotificationsOnly

LEMMA SharedHold ==
    ASSUME NEW role \in AnyRole
    PROVE  /\ NotificationsOnly(NotificationsPage(role))
           /\ NotificationsPage(role).links \subseteq PagesOf(role)
           /\ NotificationsOnly(AiAssistantPage(role))
           /\ AiAssistantPage(role).links \subseteq PagesOf(role)
<1>1. /\ NotificationsPage(role).asks = {Query(notificationsKey, GetNotifications)}
      /\ NotificationsPage(role).offers
           = {marking(PatchRead), marking(PatchReadAll)}
      /\ NotificationsPage(role).links = notificationTarget(role)
  BY MarkingHooks DEF NotificationsPage, useNotifications, All, Asks, LinksTo
<1>2. AnyRole \subseteq GetNotifications.may /\ GetNotifications.reads = {"notification"}
  BY DEF GetNotifications, Reads
<1>3. /\ NotificationsOnly(NotificationsPage(role))
      /\ NotificationsPage(role).links \subseteq PagesOf(role)
  BY <1>1, <1>2, QueryIs, Marking, Navigation DEF NotificationsOnly, notificationKeys
<1>4. /\ DiagnosisPanel(role).asks = {} /\ DiagnosisPanel(role).offers = {}
      /\ DiagnosisPanel(role).links \subseteq PagesOf(role)
  BY OpenPages DEF DiagnosisPanel, LinksTo
<1>5. /\ AiAssistantPage(role).asks = {}
      /\ AiAssistantPage(role).offers = {Change(PostChat, {})}
      /\ AiAssistantPage(role).links = DiagnosisPanel(role).links
  BY <1>4 DEF AiAssistantPage, useAiChat, All, Offers
<1>6. Touches(Change(PostChat, {}), AnyRole, {}, {})
  BY Asking
<1> QED BY <1>3, <1>4, <1>5, <1>6 DEF NotificationsOnly

-----------------------------------------------------------------------------
(* Every route, for whoever may open it.                                   *)

\* What a route says of its page.
RouteHolds(p) ==
    /\ \A r \in AppRoutes[p].roles :
         /\ \A q \in AppRoutes[p].parts[r].asks : r \in q.get.may
         /\ \A c \in AppRoutes[p].parts[r].offers :
               r \in c.send.may /\ c.leads \subseteq DOMAIN AppRoutes
         /\ AppRoutes[p].parts[r].links \subseteq PagesOf(r)
    /\ \A r \in AppRoutes[p].roles, s \in AppRoutes[p].roles :
         \A c \in AppRoutes[p].parts[r].offers, q \in AppRoutes[p].parts[s].asks : Covered(c, q, p)

LEMMA PageAndLayout ==
    ASSUME NEW a, NEW b
    PROVE  /\ \A q \in All({a, b}).asks : q \in a.asks \/ q \in b.asks
           /\ \A c \in All({a, b}).offers : c \in a.offers \/ c \in b.offers
           /\ All({a, b}).links \subseteq a.links \cup b.links
BY DEF All

LEMMA OneRolesPages ==
    ASSUME NEW role \in AnyRole, NEW page, NEW p, PageHolds(page, p, role),
           AppRoutes[p] = For(role, page)
    PROVE  RouteHolds(p)
<1> DEFINE layout == AuthenticatedDashboardLayout(role)
           whole  == AppRoutes[p].parts[role]
<1>1. AppRoutes[p].roles = {role} /\ whole = All({layout, page})
  BY DEF For
<1>2. NotificationsOnly(layout) /\ layout.links \subseteq PagesOf(role)
  BY LayoutHolds
<1> HIDE DEF layout
<1>3. /\ \A q \in whole.asks : q \in layout.asks \/ q \in page.asks
      /\ \A c \in whole.offers : c \in layout.offers \/ c \in page.offers
      /\ whole.links \subseteq layout.links \cup page.links
  BY <1>1, PageAndLayout
<1> HIDE DEF whole
<1>4. ASSUME NEW q \in whole.asks PROVE role \in q.get.may
  BY <1>2, <1>3 DEF NotificationsOnly, PageHolds
<1>5. ASSUME NEW c \in whole.offers PROVE role \in c.send.may /\ c.leads \subseteq DOMAIN AppRoutes
  BY <1>2, <1>3 DEF NotificationsOnly, PageHolds, Touches, Sends
<1>6. whole.links \subseteq PagesOf(role)
  BY <1>2, <1>3 DEF PageHolds
<1>7. ASSUME NEW c \in whole.offers, NEW q \in whole.asks PROVE Covered(c, q, p)
  <2>1. CASE c \in layout.offers /\ q \in layout.asks
    BY <1>2, <2>1, CoveredWhen DEF NotificationsOnly
  <2>2. CASE c \in layout.offers /\ q \in page.asks
    <3>1. "notification" \notin q.get.reads
      BY <2>2 DEF PageHolds
    <3> QED BY <1>2, <2>2, <3>1 DEF NotificationsOnly, Touches, Sends, Covered
  <2>3. CASE c \in page.offers /\ q \in layout.asks
    <3>1. "notification" \notin c.send.writes
      BY <2>3 DEF PageHolds
    <3> QED BY <1>2, <2>3, <3>1 DEF NotificationsOnly, Covered
  <2>4. CASE c \in page.offers /\ q \in page.asks
    BY <2>4 DEF PageHolds
  <2> QED BY <1>3, <2>1, <2>2, <2>3, <2>4
<1> QED BY <1>1, <1>4, <1>5, <1>6, <1>7 DEF RouteHolds, whole

LEMMA SharedRoutesHold ==
    ASSUME NEW p \in DOMAIN sharedRoutes
    PROVE  RouteHolds(p)
<1> DEFINE part(r) == AppRoutes[p].parts[r]
<1>1. AppRoutes[p].roles = AnyRole
  BY RolesAre
<1>2. PICK page : \A r \in AnyRole :
         /\ part(r) = All({AuthenticatedDashboardLayout(r), page[r]})
         /\ NotificationsOnly(page[r]) /\ page[r].links \subseteq PagesOf(r)
  <2>1. CASE p = "NotificationsPage"
    <3> DEFINE pages == [r \in AnyRole |-> NotificationsPage(r)]
    <3>1. \A r \in AnyRole : pages[r] = NotificationsPage(r)
      OBVIOUS
    <3>2. sharedRoutes[p] = ForAll(pages)
      BY <2>1 DEF sharedRoutes
    <3> HIDE DEF pages
    <3>3. \A r \in AnyRole : part(r) = All({AuthenticatedDashboardLayout(r), pages[r]})
      BY <3>2, RoutesAre DEF ForAll
    <3>4. \A r \in AnyRole : NotificationsOnly(pages[r]) /\ pages[r].links \subseteq PagesOf(r)
      BY <3>1, SharedHold
    <3> QED BY <3>3, <3>4
  <2>2. CASE p = "AiAssistantPage"
    <3> DEFINE pages == [r \in AnyRole |-> AiAssistantPage(r)]
    <3>1. \A r \in AnyRole : pages[r] = AiAssistantPage(r)
      OBVIOUS
    <3>2. sharedRoutes[p] = ForAll(pages)
      BY <2>2 DEF sharedRoutes
    <3> HIDE DEF pages
    <3>3. \A r \in AnyRole : part(r) = All({AuthenticatedDashboardLayout(r), pages[r]})
      BY <3>2, RoutesAre DEF ForAll
    <3>4. \A r \in AnyRole : NotificationsOnly(pages[r]) /\ pages[r].links \subseteq PagesOf(r)
      BY <3>1, SharedHold
    <3> QED BY <3>3, <3>4
  <2> QED BY <2>1, <2>2, SharedPages
<1>3. ASSUME NEW r \in AnyRole
      PROVE  NotificationsOnly(part(r)) /\ part(r).links \subseteq PagesOf(r)
  <2> DEFINE layout == AuthenticatedDashboardLayout(r)
             whole == part(r)
  <2>1. NotificationsOnly(layout) /\ layout.links \subseteq PagesOf(r)
    BY LayoutHolds
  <2>2. /\ NotificationsOnly(page[r]) /\ page[r].links \subseteq PagesOf(r)
        /\ whole = All({layout, page[r]})
    BY <1>2
  <2> HIDE DEF layout, whole
  <2>3. /\ \A q \in whole.asks : q \in layout.asks \/ q \in page[r].asks
        /\ \A c \in whole.offers : c \in layout.offers \/ c \in page[r].offers
        /\ whole.links \subseteq layout.links \cup page[r].links
    BY <2>2, PageAndLayout
  <2>4. NotificationsOnly(whole) /\ whole.links \subseteq PagesOf(r)
    BY <2>1, <2>2, <2>3 DEF NotificationsOnly
  <2> QED BY <2>4 DEF whole
<1>4. ASSUME NEW r \in AnyRole, NEW q \in part(r).asks PROVE r \in q.get.may
  BY <1>3 DEF NotificationsOnly
<1>5. ASSUME NEW r \in AnyRole, NEW c \in part(r).offers
      PROVE  r \in c.send.may /\ c.leads \subseteq DOMAIN AppRoutes
  BY <1>3 DEF NotificationsOnly, Touches, Sends
<1>6. ASSUME NEW r \in AnyRole, NEW s \in AnyRole, NEW c \in part(r).offers, NEW q \in part(s).asks
      PROVE  Covered(c, q, p)
  <2>1. q.get.reads = {"notification"} /\ q.key \in notificationKeys
    BY <1>3 DEF NotificationsOnly
  <2>2. \/ Touches(c, AnyRole, {"notification"}, notificationKeys)
        \/ Touches(c, AnyRole, {}, {})
    BY <1>3 DEF NotificationsOnly
  <2> QED BY <2>1, <2>2, CoveredWhen
<1> QED BY <1>1, <1>3, <1>4, <1>5, <1>6 DEF RouteHolds

LEMMA PublicRoutesHold ==
    ASSUME NEW p \in DOMAIN publicRoutes
    PROVE  RouteHolds(p)
<1>1. PICK targets : /\ AppRoutes[p] = Open(LinksTo(targets))
                     /\ targets \subseteq DOMAIN publicRoutes \ {"UnauthorizedPage"}
  <2>1. publicRoutes[p] \in {Open(LinksTo({"LoginPage", "RegisterPage", "ForgotPasswordPage"})),
                             Open(LinksTo({"ForgotPasswordPage", "RegisterPage"})),
                             Open(LinksTo({})), Open(LinksTo({"LoginPage"})), Open(LinksTo({"Home"}))}
    BY PublicPages DEF publicRoutes, Home, LoginPage, RegisterPage, ForgotPasswordPage,
                       ResetPasswordPage, UnauthorizedPage, NotFoundPage
  <2> QED BY <2>1, RoutesAre, PublicPages
<1>2. /\ AppRoutes[p].roles = AnyRole \cup {"nobody"}
      /\ \A r \in AnyRole \cup {"nobody"} : AppRoutes[p].parts[r] = LinksTo(targets)
  BY <1>1 DEF Open
<1>3. LinksTo(targets).asks = {} /\ LinksTo(targets).offers = {} /\ LinksTo(targets).links = targets
  BY DEF LinksTo
<1>4. \A r \in AnyRole \cup {"nobody"} : targets \subseteq PagesOf(r)
  BY <1>1, RoutesAre, RolesAre DEF PagesOf
<1> QED BY <1>2, <1>3, <1>4 DEF RouteHolds

LEMMA AllRoutesHold ==
    ASSUME NEW p \in DOMAIN AppRoutes
    PROVE  RouteHolds(p)
<1>1. CASE p \in DOMAIN customerRoutes
  BY <1>1, CustomerPagesHold, RoutesAre, OneRolesPages DEF AnyRole
<1>2. CASE p \in DOMAIN providerRoutes
  BY <1>2, ProviderPagesHold, RoutesAre, OneRolesPages DEF AnyRole
<1>3. CASE p \in DOMAIN adminRoutes
  BY <1>3, AdminPagesHold, RoutesAre, OneRolesPages DEF AnyRole
<1> QED BY <1>1, <1>2, <1>3, RoutesAre, PublicRoutesHold, SharedRoutesHold

-----------------------------------------------------------------------------
(* The tab at work.                                                        *)

WhereOpen == place \in DOMAIN AppRoutes /\ user \in AppRoutes[place].roles

\* The change under way was offered by the page it came from, to somebody who
\* might open it.
OfferedBy(change, page) ==
    /\ page \in DOMAIN AppRoutes
    /\ \E r \in AppRoutes[page].roles : change \in AppRoutes[page].parts[r].offers

CallsAreOffered ==
    /\ DOMAIN call = {"phase", "change", "from", "left"}
    /\ call.phase # "none" => OfferedBy(call.change, call.from)

OutdatedByCall ==
    \A k \in PageKeys : cache[k] = "outdated" =>
       \/ <<place, k>> \in KnownGaps
       \/ call.phase = "committed" /\ place = call.from /\ k \in Affected(call.change)

ScreenInv == WhereOpen /\ CallsAreOffered /\ OutdatedByCall

LEMMA GuardedIsOpen ==
    ASSUME NEW p \in DOMAIN AppRoutes, NEW role \in AnyRole \cup {"nobody"}
    PROVE  /\ Guarded(p, role) \in DOMAIN AppRoutes /\ role \in AppRoutes[Guarded(p, role)].roles
           /\ p \in PagesOf(role) => Guarded(p, role) = p /\ p # "UnauthorizedPage"
<1>1. /\ {"LoginPage", "UnauthorizedPage"} \subseteq DOMAIN publicRoutes
      /\ \A x \in {"LoginPage", "UnauthorizedPage"} :
            x \in DOMAIN AppRoutes /\ role \in AppRoutes[x].roles
  BY PublicPages, RoutesAre, RolesAre
<1> QED BY <1>1 DEF Guarded, PagesOf

LEMMA EverybodyHasARole == WhereOpen => user \in AnyRole \cup {"nobody"}
BY RoutesAre, RolesAre DEF WhereOpen, AnyRole

\* Opening a page: everything on it is asked for, or being answered.
LEMMA OpenedIsFresh ==
    ASSUME NEW to, NEW role, NEW kept, \A k \in UnderWay : kept[k] # "outdated"
    PROVE  \A k \in KeysOf(to, role) : Opened(to, role, kept)[k] # "outdated"
BY DEF Opened

LEMMA MountKeeps ==
    ASSUME ScreenInv, NEW page \in DOMAIN AppRoutes, NEW role \in AnyRole \cup {"nobody"},
           Mount(page, role), Elsewhere
    PROVE  ScreenInv'
<1> DEFINE to == Guarded(page, role)
<1>1. to \in DOMAIN AppRoutes /\ role \in AppRoutes[to].roles
  BY GuardedIsOpen
<1>2. place' = to /\ user' = role /\ cache' = Opened(to, role, cache)
  BY DEF Mount
<1> HIDE DEF to
<1>3. WhereOpen'
  BY <1>1, <1>2 DEF WhereOpen
<1>4. CallsAreOffered'
  BY DEF ScreenInv, CallsAreOffered, Elsewhere, OfferedBy
<1>5. \A k \in UnderWay : cache[k] # "outdated"
  BY DEF UnderWay
<1>6. \A k \in KeysOf(to, role) : Opened(to, role, cache)[k] # "outdated"
  BY <1>5, OpenedIsFresh
<1>7. PageKeys' = KeysOf(to, role)
  BY <1>2 DEF PageKeys, KeysOf
<1>8. OutdatedByCall'
  BY <1>2, <1>6, <1>7 DEF OutdatedByCall
<1> QED BY <1>3, <1>4, <1>8 DEF ScreenInv

LEMMA ScreenInit == ASSUME WebClientInit PROVE ScreenInv
<1>1. PICK page \in DOMAIN AppRoutes : place = Guarded(page, user)
  BY DEF WebClientInit
<1>2. WhereOpen
  BY <1>1, GuardedIsOpen DEF WebClientInit, WhereOpen
<1>3. CallsAreOffered
  BY DEF WebClientInit, CallsAreOffered, NoCall
<1>4. OutdatedByCall
  BY DEF WebClientInit, OutdatedByCall, PageKeys
<1> QED BY <1>2, <1>3, <1>4 DEF ScreenInv

LEMMA FollowLinkKeeps == ASSUME ScreenInv, FollowLink PROVE ScreenInv'
<1>1. PICK page \in Page.links : Mount(page, user) /\ Elsewhere
  BY DEF FollowLink
<1>2. page \in PagesOf(user)
  BY <1>1, AllRoutesHold DEF ScreenInv, WhereOpen, RouteHolds, Page
<1>3. page \in DOMAIN AppRoutes
  BY <1>2 DEF PagesOf
<1> QED BY <1>1, <1>3, MountKeeps, EverybodyHasARole DEF ScreenInv

LEMMA LoadPageKeeps == ASSUME ScreenInv, LoadPage PROVE ScreenInv'
<1>1. PageKeys' = PageKeys /\ UNCHANGED <<place, user, call>>
  BY DEF LoadPage, PageKeys
<1>2. \A k \in PageKeys : cache'[k] = "outdated" => cache[k] = "outdated"
  BY DEF LoadPage
<1>3. WhereOpen' /\ CallsAreOffered'
  BY <1>1 DEF ScreenInv, WhereOpen, CallsAreOffered, OfferedBy
<1>4. Affected(call.change)' = Affected(call.change)
  BY <1>1 DEF Affected, Page
<1>5. OutdatedByCall'
  BY <1>1, <1>2, <1>4 DEF ScreenInv, OutdatedByCall
<1> QED BY <1>3, <1>5 DEF ScreenInv

LEMMA SendChangeKeeps == ASSUME ScreenInv, SendChange PROVE ScreenInv'
<1>1. PICK change \in Page.offers :
          call' = [phase |-> "sent", change |-> change, from |-> place, left |-> 0]
  BY DEF SendChange
<1>2. UNCHANGED <<place, user, cache>> /\ call.phase = "none"
  BY DEF SendChange
<1>3. WhereOpen'
  BY <1>2 DEF ScreenInv, WhereOpen
<1>4. OfferedBy(change, place)
  BY <1>1 DEF ScreenInv, WhereOpen, OfferedBy, Page
<1>5. CallsAreOffered'
  <2>1. /\ DOMAIN call' = {"phase", "change", "from", "left"}
        /\ call'.change = change /\ call'.from = place
    BY <1>1
  <2> QED BY <2>1, <1>4 DEF CallsAreOffered, OfferedBy
<1>6. OutdatedByCall'
  BY <1>2 DEF ScreenInv, OutdatedByCall, PageKeys
<1> QED BY <1>3, <1>5, <1>6 DEF ScreenInv

LEMMA ChangeCommitsKeeps == ASSUME ScreenInv, ChangeCommits PROVE ScreenInv'
<1>1. /\ call.phase = "sent" /\ call' = [call EXCEPT !.phase = "committed"]
      /\ UNCHANGED <<place, user>>
  BY DEF ChangeCommits
<1>2. /\ call'.phase = "committed" /\ call'.change = call.change /\ call'.from = call.from
      /\ DOMAIN call' = DOMAIN call
  BY <1>1 DEF ScreenInv, CallsAreOffered
<1>3. PICK read \in SUBSET (Affected(call.change) \cap UnderWay) :
         cache' = [k \in PageKeys |->
                     IF k \in read THEN "late"
                     ELSE IF k \in Affected(call.change) /\ cache[k] = "shown"
                          THEN IF place = call.from THEN "outdated" ELSE "overtaken"
                     ELSE cache[k]]
  BY DEF ChangeCommits
<1>4. PageKeys' = PageKeys /\ Affected(call.change)' = Affected(call.change)
  BY <1>1, <1>2 DEF PageKeys, Affected, Page
<1>5. WhereOpen'
  BY <1>1 DEF ScreenInv, WhereOpen
<1>6. CallsAreOffered'
  BY <1>1, <1>2 DEF ScreenInv, CallsAreOffered, OfferedBy
<1>7. ASSUME NEW k \in PageKeys, cache'[k] = "outdated"
      PROVE  <<place, k>> \in KnownGaps \/ (place = call.from /\ k \in Affected(call.change))
  <2>1. CASE k \in Affected(call.change) /\ place = call.from
    BY <2>1
  <2>2. CASE ~(k \in Affected(call.change) /\ place = call.from)
    <3>1. cache[k] = "outdated"
      BY <1>3, <1>7, <2>2
    <3> QED BY <3>1, <1>1 DEF ScreenInv, OutdatedByCall
  <2> QED BY <2>1, <2>2
<1>8. OutdatedByCall'
  BY <1>1, <1>2, <1>4, <1>7 DEF OutdatedByCall
<1> QED BY <1>5, <1>6, <1>8 DEF ScreenInv

\* What an answered change leaves outdated on the page that sent it is one of the gaps.
LEMMA AnswerRenews ==
    ASSUME ScreenInv, call.phase = "committed", call.change.leads = {}, NEW k \in PageKeys,
           cache[k] = "outdated", k \notin call.change.sets, k \notin Dropped(call.change.drops)
    PROVE  <<place, k>> \in KnownGaps
<1>1. SUFFICES ASSUME place = call.from, k \in Affected(call.change)
               PROVE  <<place, k>> \in KnownGaps
  BY DEF ScreenInv, OutdatedByCall
<1>2. PICK q \in Page.asks : q.key = k /\ q.get.reads \cap call.change.send.writes # {}
  BY <1>1 DEF Affected
<1>3. PICK r \in AppRoutes[place].roles : call.change \in AppRoutes[place].parts[r].offers
  BY <1>1 DEF ScreenInv, CallsAreOffered, OfferedBy
<1>4. Covered(call.change, q, place)
  BY <1>2, <1>3, AllRoutesHold DEF ScreenInv, WhereOpen, RouteHolds, Page
<1>5. ~Renews(call.change, k)
  BY DEF Renews, Dropped
<1> QED BY <1>2, <1>4, <1>5 DEF Covered

LEMMA ChangeSucceedsKeeps == ASSUME ScreenInv, ChangeSucceeds PROVE ScreenInv'
<1>1. call.phase = "committed" /\ call' = NoCall
  BY DEF ChangeSucceeds
<1>2. PICK joined \in SUBSET {k \in Dropped(call.change.drops) : cache[k] = "late"} :
         LET kept == [k \in PageKeys |->
                         IF k \in call.change.sets /\ cache[k] \in {"outdated", "overtaken"}
                             THEN "shown"
                             ELSE AskedAgain(call.change.drops, joined)[k]]
             to   == IF call.change.leads = {} THEN place ELSE CHOOSE p \in call.change.leads : TRUE
             role == IF to = "LoginPage" THEN "nobody" ELSE user
         IN  IF call.change.leads = {}
             THEN cache' = kept /\ UNCHANGED <<place, user>>
             ELSE /\ place' = Guarded(to, role)
                  /\ user' = role
                  /\ cache' = Opened(Guarded(to, role), role, kept)
  BY DEF ChangeSucceeds
<1> DEFINE kept == [k \in PageKeys |->
                       IF k \in call.change.sets /\ cache[k] \in {"outdated", "overtaken"}
                           THEN "shown"
                           ELSE AskedAgain(call.change.drops, joined)[k]]
<1>3. CallsAreOffered'
  BY <1>1 DEF CallsAreOffered, NoCall
<1>4. ASSUME NEW k \in PageKeys, kept[k] = "outdated"
      PROVE  /\ cache[k] = "outdated"
             /\ k \notin call.change.sets /\ k \notin Dropped(call.change.drops)
  <2>1. /\ AskedAgain(call.change.drops, joined)[k] = "outdated"
        /\ ~(k \in call.change.sets /\ cache[k] \in {"outdated", "overtaken"})
    BY <1>4
  <2>2. cache[k] = "outdated" /\ k \notin Dropped(call.change.drops) \ joined
    BY <2>1 DEF AskedAgain
  <2> QED BY <2>1, <2>2
<1>5. CASE call.change.leads = {}
  <2>1. cache' = kept /\ UNCHANGED <<place, user>>
    BY <1>2, <1>5
  <2>2. PageKeys' = PageKeys
    BY <2>1 DEF PageKeys
  <2> HIDE DEF kept
  <2>3. ASSUME NEW k \in PageKeys, cache'[k] = "outdated" PROVE <<place, k>> \in KnownGaps
    BY <1>1, <1>4, <1>5, <2>1, <2>3, AnswerRenews
  <2>4. WhereOpen' /\ OutdatedByCall'
    BY <2>1, <2>2, <2>3 DEF ScreenInv, WhereOpen, OutdatedByCall
  <2> QED BY <1>3, <2>4 DEF ScreenInv
<1>6. CASE call.change.leads # {}
  <2> DEFINE to == CHOOSE p \in call.change.leads : TRUE
             role == IF to = "LoginPage" THEN "nobody" ELSE user
             page == Guarded(to, role)
  <2>1. place' = page /\ user' = role /\ cache' = Opened(page, role, kept)
    BY <1>2, <1>6
  <2>2. to \in call.change.leads
    BY <1>6
  <2>3. to \in DOMAIN AppRoutes
    <3>1. PICK r \in AppRoutes[call.from].roles : call.change \in AppRoutes[call.from].parts[r].offers
      BY <1>1 DEF ScreenInv, CallsAreOffered, OfferedBy
    <3>2. call.from \in DOMAIN AppRoutes
      BY <1>1 DEF ScreenInv, CallsAreOffered, OfferedBy
    <3>3. call.change.leads \subseteq DOMAIN AppRoutes
      BY <3>1, <3>2, AllRoutesHold DEF RouteHolds
    <3> QED BY <2>2, <3>3
  <2>4. role \in AnyRole \cup {"nobody"}
    BY EverybodyHasARole DEF ScreenInv
  <2> HIDE DEF to, role
  <2>5. page \in DOMAIN AppRoutes /\ role \in AppRoutes[page].roles
    BY <2>3, <2>4, GuardedIsOpen
  <2>6. \A k \in UnderWay : kept[k] # "outdated"
    BY <1>4 DEF UnderWay
  <2> HIDE DEF page, kept
  <2>7. PageKeys' = KeysOf(page, role)
    BY <2>1 DEF PageKeys
  <2>8. \A k \in KeysOf(page, role) : cache'[k] # "outdated"
    BY <2>1, <2>6, OpenedIsFresh
  <2>9. WhereOpen' /\ OutdatedByCall'
    BY <2>1, <2>5, <2>7, <2>8 DEF WhereOpen, OutdatedByCall
  <2> QED BY <1>3, <2>9 DEF ScreenInv
<1> QED BY <1>5, <1>6

LEMMA ChangeRefusedKeeps == ASSUME ScreenInv, ChangeRefused PROVE ScreenInv'
<1>1. call.phase = "sent" /\ call' = NoCall /\ UNCHANGED <<place, user>>
  BY DEF ChangeRefused
<1>2. PageKeys' = PageKeys
  BY <1>1 DEF PageKeys
<1>3. \A k \in PageKeys : cache'[k] = "outdated" => cache[k] = "outdated"
  BY DEF ChangeRefused, AskedAgain
<1>4. CallsAreOffered'
  BY <1>1 DEF CallsAreOffered, NoCall
<1>5. WhereOpen' /\ OutdatedByCall'
  BY <1>1, <1>2, <1>3 DEF ScreenInv, WhereOpen, OutdatedByCall
<1> QED BY <1>4, <1>5 DEF ScreenInv

\* Where a sign-in, a registration and a sign-out lead is open to whoever they leave there.
LEMMA SignInLeads ==
    /\ \A role \in AnyRole : dashboardByRole[role] \in PagesOf(role)
    /\ \A role \in AnyRole \cup {"nobody"} : "Home" \in PagesOf(role) /\ "LoginPage" \in PagesOf(role)
BY OpenPages DEF dashboardByRole, AnyRole

LEMMA SigningKeeps == ASSUME ScreenInv, WebLogin \/ WebRegister \/ WebLogout PROVE ScreenInv'
<1>1. CASE WebLogin
  <2>1. PICK role \in AnyRole : Mount(dashboardByRole[role], role) /\ Elsewhere
    BY <1>1 DEF WebLogin
  <2>2. dashboardByRole[role] \in DOMAIN AppRoutes
    BY SignInLeads DEF PagesOf
  <2> QED BY <2>1, <2>2, MountKeeps
<1>2. CASE WebRegister
  <2>1. user \in AnyRole \cup {"nobody"}
    BY EverybodyHasARole DEF ScreenInv
  <2>2. "Home" \in DOMAIN AppRoutes
    BY SignInLeads DEF PagesOf
  <2> QED BY <1>2, <2>1, <2>2, MountKeeps DEF WebRegister
<1>3. CASE WebLogout
  <2>1. "LoginPage" \in DOMAIN AppRoutes
    BY SignInLeads DEF PagesOf
  <2> QED BY <1>3, <2>1, MountKeeps DEF WebLogout
<1> QED BY <1>1, <1>2, <1>3

LEMMA ScreenStep == ScreenInv /\ [WebClientNext]_webcVars => ScreenInv'
<1> SUFFICES ASSUME ScreenInv, [WebClientNext]_webcVars PROVE ScreenInv'
  OBVIOUS
<1>1. CASE WebClientNext
  BY <1>1, FollowLinkKeeps, LoadPageKeeps, SendChangeKeeps, ChangeCommitsKeeps,
     ChangeSucceedsKeeps, ChangeRefusedKeeps, SigningKeeps DEF WebClientNext
<1>2. CASE UNCHANGED webcVars
  BY <1>2 DEF webcVars, ScreenInv, WhereOpen, CallsAreOffered, OfferedBy, OutdatedByCall, PageKeys,
                Affected, Page
<1> QED BY <1>1, <1>2

LEMMA ScreenAlways == WebClientSpec => []ScreenInv
<1>1. WebClientInit => ScreenInv
  BY ScreenInit
<1> QED BY <1>1, ScreenStep, PTL DEF WebClientSpec

\* No page goes on showing what a change made on it has put out of date, once
\* the change is answered, but for KnownGaps: the keys that the mutations'
\* onSuccess invalidates or writes are those of all the hooks that read it.
THEOREM OwnWorkIsShown == WebClientSpec => []ScreenShowsOwnWork
<1>1. ScreenInv => ScreenShowsOwnWork
  BY DEF ScreenInv, OutdatedByCall, ScreenShowsOwnWork
<1> QED BY <1>1, ScreenAlways, PTL

LEMMA LinksLead ==
    ASSUME ScreenInv, FollowLink \/ WebLogin \/ WebRegister \/ WebLogout
    PROVE  place' # "UnauthorizedPage"
<1>1. ASSUME NEW page, NEW role \in AnyRole \cup {"nobody"}, page \in PagesOf(role), Mount(page, role)
      PROVE  place' # "UnauthorizedPage"
  <2>1. page \in DOMAIN AppRoutes
    BY <1>1 DEF PagesOf
  <2> QED BY <1>1, <2>1, GuardedIsOpen DEF Mount
<1>2. user \in AnyRole \cup {"nobody"}
  BY EverybodyHasARole DEF ScreenInv
<1>3. CASE FollowLink
  <2>1. PICK page \in Page.links : Mount(page, user)
    BY <1>3 DEF FollowLink
  <2>2. page \in PagesOf(user)
    BY <2>1, AllRoutesHold DEF ScreenInv, WhereOpen, RouteHolds, Page
  <2> QED BY <1>1, <1>2, <2>1, <2>2
<1>4. CASE WebLogin
  <2>1. PICK role \in AnyRole : Mount(dashboardByRole[role], role)
    BY <1>4 DEF WebLogin
  <2> QED BY <1>1, <2>1, SignInLeads
<1>5. CASE WebRegister
  BY <1>1, <1>2, <1>5, SignInLeads DEF WebRegister
<1>6. CASE WebLogout
  BY <1>1, <1>6, SignInLeads DEF WebLogout
<1> QED BY <1>3, <1>4, <1>5, <1>6

\* Nobody is led to a page closed to them by a link, button, sign-in or
\* sign-out, and no page asks or offers what the backend refuses its reader.
THEOREM LinksAlwaysWithinRole == WebClientSpec => LinksStayWithinRole
<1> DEFINE Within == /\ place' = "UnauthorizedPage" =>
                             ~(FollowLink \/ WebLogin \/ WebRegister \/ WebLogout)
                     /\ \A q \in Page'.asks : user' \in q.get.may
                     /\ \A change \in Page'.offers : user' \in change.send.may
<1>1. ScreenInv /\ ScreenInv' /\ [WebClientNext]_webcVars => [Within]_webcVars
  <2> SUFFICES ASSUME ScreenInv, ScreenInv' PROVE Within
    OBVIOUS
  <2>1. place' = "UnauthorizedPage" => ~(FollowLink \/ WebLogin \/ WebRegister \/ WebLogout)
    BY LinksLead
  <2>2. /\ RouteHolds(place') /\ user' \in AppRoutes[place'].roles
        /\ Page' = AppRoutes[place'].parts[user']
    BY AllRoutesHold DEF ScreenInv, WhereOpen, Page
  <2>3. /\ \A q \in Page'.asks : user' \in q.get.may
        /\ \A change \in Page'.offers : user' \in change.send.may
    BY <2>2 DEF RouteHolds
  <2> QED BY <2>1, <2>3
<1> QED BY <1>1, ScreenAlways, PTL DEF WebClientSpec, LinksStayWithinRole

===============================================================================
