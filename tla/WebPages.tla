------------------------------- MODULE WebPages -------------------------------
(***************************************************************************)
(* The web application's pages: what each asks of the backend and under    *)
(* which key it keeps the answer, which changes it offers and which keys   *)
(* each change drops, and where its links and buttons lead.  Named after   *)
(* the hooks and components of src/web/src.  What a page only lays out,    *)
(* filters or words is left out.  Constant-level.                          *)
(***************************************************************************)
EXTENDS Endpoints, Sequences

\* A part of a page: a hook or a component.
Asks(queries)   == [asks |-> queries, offers |-> {}, links |-> {}]
Offers(changes) == [asks |-> {}, offers |-> changes, links |-> {}]
LinksTo(pages)    == [asks |-> {}, offers |-> {}, links |-> pages]

All(parts) == [asks   |-> UNION {p.asks : p \in parts},
               offers |-> UNION {p.offers : p \in parts},
               links  |-> UNION {p.links : p \in parts}]

\* useQuery: the key without its ids and filters, and the endpoint.
Query(key, get) == [key |-> key, get |-> get]

\* A hook that picks a part of the answer.
Keeping(get, facts) == [get EXCEPT !.reads = facts]

\* useMutation: onSuccess invalidates the keys that begin with one of drops
\* and writes the answer under those of sets; a refusal invalidates refused;
\* leads is the page that is opened once it has succeeded.
Change(send, drops) == [send |-> send, drops |-> drops, sets |-> {}, refused |-> {}, leads |-> {}]

-----------------------------------------------------------------------------
(* Bookings, the queue and finance, by whoever looks at them.              *)

useBookings        == Asks({Query(<<"bookings">>, GetBookings)})
useBookingDetails  == Asks({Query(<<"bookings", "id">>, GetBooking)})
useMyQueueEntries  == Asks({Query(<<"queue">>, GetQueue)})
useQueueSummary    == Asks({Query(<<"queue-summary", "id">>, GetQueueSummary)})

useAdminFinanceTransactions == Asks({Query(<<"adminFinance", "transactions">>, GetTransactions)})
useOwnFinanceTransactions   == Asks({Query(<<"finance", "me", "transactions">>, GetOwnTransactions)})

-----------------------------------------------------------------------------
(* The layout around every page of somebody signed in.                     *)

notificationsKey == <<"notifications">>
unreadCountKey   == <<"notifications", "unread-count">>

useNotifications            == Asks({Query(notificationsKey, GetNotifications)})
useUnreadCount              == Asks({Query(unreadCountKey, GetUnreadCount)})
useMarkNotificationRead     == Offers({Change(PatchRead, {notificationsKey, unreadCountKey})})
useMarkAllNotificationsRead == Offers({Change(PatchReadAll, {notificationsKey, unreadCountKey})})

customerNav == {"DiscoveryPage", "AiAssistantPage", "BookingHistoryPage", "FavoritesPage", "MyReviewsPage",
                "MyVehiclesPage", "MyComplaintsPage", "CustomerSettingsPage"}
providerNav == {"ProviderDashboardPage", "AiAssistantPage", "BusinessProfilePage", "ServicesPage",
                "LiveStatusPage", "QueuePage", "ProviderBookingsPage", "ProviderReviewsPage", "AnalyticsPage",
                "ProviderFinancePage", "ProviderSettingsPage"}
adminNav    == {"AdminDashboardPage", "AiAssistantPage", "AdminProvidersPage", "AdminUsersPage",
                "CategoriesPage", "AdminFuelPage", "AdminBookingsPage", "AdminComplaintsPage",
                "AdminReviewsPage", "AdminAnalyticsPage", "AdminFinancePage", "AdminSettingsPage"}

getNavForRole(role) == CASE role = "ADMIN" -> adminNav
                         [] role = "PROVIDER" -> providerNav
                         [] role = "CUSTOMER" -> customerNav

notificationTarget(role) == CASE role = "CUSTOMER" -> {"BookingDetailsPage"}
                              [] role = "PROVIDER" -> {"ProviderBookingDetailsPage"}
                              [] role = "ADMIN" -> {}

NotificationsDropdown(role) == LinksTo({"NotificationsPage"} \cup notificationTarget(role))

\* Its home and settings links are items of the navigation.
DashboardLayout(role) == All({LinksTo(getNavForRole(role)), NotificationsDropdown(role)})

AuthenticatedDashboardLayout(role) ==
    All({useNotifications, useUnreadCount, useMarkNotificationRead, useMarkAllNotificationsRead,
         DashboardLayout(role)})

NotificationsPage(role) ==
    All({useNotifications, useMarkNotificationRead, useMarkAllNotificationsRead, LinksTo(notificationTarget(role))})

-----------------------------------------------------------------------------
(* Pages open to anybody.                                                  *)

Home               == LinksTo({"LoginPage", "RegisterPage", "ForgotPasswordPage"})
LoginPage          == LinksTo({"ForgotPasswordPage", "RegisterPage"})
RegisterPage       == LinksTo({})
ForgotPasswordPage == LinksTo({"LoginPage"})
ResetPasswordPage  == LinksTo({"LoginPage"})
UnauthorizedPage   == LinksTo({"Home"})
NotFoundPage       == LinksTo({"Home"})

-----------------------------------------------------------------------------
(* The customer's pages.                                                   *)

providersKey  == <<"providers">>
categoriesKey == <<"categories">>

useNearbyProviders == Asks({Query(providersKey, GetProviders), Query(categoriesKey, GetCategories),
                            Query(<<"rating-summary", "id">>, GetRatingSummary)})
useProviderDetails == Asks({Query(providersKey, GetProviders)})
useProviderRating  == Asks({Query(<<"rating-summary", "id">>, GetRatingSummary)})
useProviderReviews == Asks({Query(<<"reviews", "id">>, GetReviewsOf)})
useProviderHours   == Asks({Query(<<"providerHours", "id">>, GetHoursOf)})
useProviderFuel    == Asks({Query(<<"fuel", "id">>, GetFuelOf)})
useProviderFuelHistory == Asks({Query(<<"fuelHistory", "id">>, GetFuelHistoryOf)})
useLiveCameraStatus    == Asks({Query(<<"liveCamera", "id">>, GetLiveCamera)})
useAvailability        == Asks({Query(<<"availability", "id">>, GetAvailability)})

favoritesKey  == <<"favorites", "me">>
myReviewsKey  == <<"reviews", "me">>
complaintsKey == <<"complaints", "me">>
vehiclesKey   == <<"vehicles", "me">>

useMyFavorites    == Asks({Query(favoritesKey, GetMyFavorites)})

\* Mutant of useToggleFavorite: the favorites are not asked again.
useToggleFavoriteKeptAsIs == Offers({Change(PostFavorite, {}), Change(DelFavorite, {})})

useToggleFavorite == Offers({Change(PostFavorite, {favoritesKey}), Change(DelFavorite, {favoritesKey})})
FavoriteButton    == All({useMyFavorites, useToggleFavorite})

ProviderCard    == All({useQueueSummary, FavoriteButton, LinksTo({"ProviderDetailsPage"})})
LiveStationCard == All({useLiveCameraStatus, LinksTo({"LiveStationPage"})})
DiscoveryPage   == All({useNearbyProviders, ProviderCard, LiveStationCard})

useCreateBooking   == Change(PostBooking, {<<"bookings">>})
CreateBookingModal == All({useAvailability,
                           Offers({[useCreateBooking EXCEPT !.leads = {"BookingDetailsPage"},
                                                            !.refused = {<<"availability", "id">>}]})})
FuelHistoryChart   == useProviderFuelHistory
ProviderDetailsPage ==
    All({useProviderDetails, useProviderRating, useProviderReviews, useQueueSummary, useProviderHours,
         useProviderFuel, FuelHistoryChart, FavoriteButton, CreateBookingModal, LinksTo({"DiscoveryPage"})})
LiveStationPage ==
    All({useProviderDetails, useQueueSummary, useProviderFuel, useLiveCameraStatus, LinksTo({"DiscoveryPage"})})

CustomerQueueBadge == useMyQueueEntries
BookingCard        == All({CustomerQueueBadge, LinksTo({"BookingDetailsPage"})})
BookingHistoryPage == All({useBookings, BookingCard})

useCancelBooking   == Offers({Change(PatchBooking, {<<"bookings">>, <<"bookings", "id">>})})
useCreateReview    == Offers({Change(PostReview, {myReviewsKey, <<"bookings", "id">>, <<"bookings">>})})
CreateReviewModal  == useCreateReview
CustomerQueueStatusCard == useMyQueueEntries
BookingDetailsPage == All({useBookingDetails, CustomerQueueStatusCard, useCancelBooking, CreateReviewModal,
                           LinksTo({"BookingHistoryPage"})})

useMyReviews      == Asks({Query(myReviewsKey, GetMyReviews)})
useDeleteReview   == Offers({Change(DelReview, {myReviewsKey, <<"bookings">>})})
MyReviewsPage     == All({useMyReviews, useDeleteReview})

useMyComplaints      == Asks({Query(complaintsKey, GetMyComplaints)})
useCreateComplaint   == Offers({Change(PostComplaint, {complaintsKey})})
CreateComplaintModal == All({Asks({Query(providersKey, GetProviders)}), useCreateComplaint})
MyComplaintsPage     == All({useMyComplaints, CreateComplaintModal})

FavoritesPage == All({useMyFavorites, FavoriteButton, LinksTo({"ProviderDetailsPage"})})

useMyVehicles    == Asks({Query(vehiclesKey, GetVehicles)})
useCreateVehicle == Offers({Change(PostVehicle, {vehiclesKey})})
useUpdateVehicle == Offers({Change(PatchVehicle, {vehiclesKey})})
useDeleteVehicle == Offers({Change(DelVehicle, {vehiclesKey})})
VehicleFormModal == All({useCreateVehicle, useUpdateVehicle})
MyVehiclesPage   == All({useMyVehicles, VehicleFormModal, useDeleteVehicle})

useUpdateProfile  == Offers({Change(PatchMe, {})})
useChangePassword == Offers({Change(PatchPassword, {})})
CustomerSettingsPage == All({useUpdateProfile, useChangePassword})

\* Mutant of DiagnosisPanel: the businesses are offered to every role.
DiagnosisPanelForAnyone(role) == LinksTo({"DiscoveryPage"})

\* Only a customer is led from a diagnosis to the businesses.
DiagnosisPanel(role)  == LinksTo(IF role = "CUSTOMER" THEN {"DiscoveryPage"} ELSE {})
useAiChat             == Offers({Change(PostChat, {})})
AiAssistantPage(role) == All({useAiChat, DiagnosisPanel(role)})

-----------------------------------------------------------------------------
(* The provider's pages.                                                   *)

ownProfileKey == <<"provider", "me">>
ownHoursKey   == <<"provider", "me", "hours">>

useOwnProviderProfile == Asks({Query(ownProfileKey, GetOwnProfile)})
useUpdateOwnProfile   == Offers({[Change(PatchOwnProfile, {providersKey}) EXCEPT !.sets = {ownProfileKey}]})
useOwnHours           == Asks({Query(ownHoursKey, GetOwnHours)})
useUpdateOwnHours     == Offers({[Change(PutOwnHours, {<<"providerHours">>, <<"availability">>})
                                     EXCEPT !.sets = {ownHoursKey}]})
useOwnFuel            == Asks({Query(<<"fuel", "me">>, GetOwnFuel)})
ownAnalytics          == Asks({Query(<<"provider", "me", "analytics">>, GetOwnAnalytics)})
ownReviews            == Asks({Query(<<"provider", "me", "reviews">>, GetReviewsOf)})
useOwnProviderServices == Asks({Query(<<"own-provider-services">>, Keeping(GetProviders, {"service"}))})

\* invalidate() of every change to the queue and of every action on a booking.
queueChange(send)      == Change(send, {<<"queue">>, <<"bookings">>})
addWalkInCustomer      == Offers({queueChange(PostQueue)})
beginService           == Offers({queueChange(PatchQueue)})
useProviderQueue       == Asks({Query(<<"queue">>, Keeping(GetQueue, {"queue", "service"}))})

useProviderBookings  == Asks({Query(<<"bookings">>, Keeping(GetBookings, {"booking", "service"}))})
useProviderDashboard == All({useOwnProviderProfile, useProviderBookings, ownAnalytics, ownReviews})
AddWalkInModal       == All({useOwnProviderServices, addWalkInCustomer})
QuickActions         == LinksTo({"ServicesPage", "ProviderBookingsPage", "BusinessProfilePage", "AnalyticsPage"})
ProviderOverview     == All({useProviderDashboard, useUpdateOwnProfile, useProviderQueue, beginService,
                             AddWalkInModal, QuickActions})

QueuePage == All({useProviderQueue, beginService, AddWalkInModal,
                  Offers({queueChange(PatchReorder), queueChange(DelQueue)})})

useProviderQueueIndex     == Asks({Query(<<"queue">>, Keeping(GetQueue, {"queue"}))})
useProviderBookingActions ==
    Offers({queueChange(send) : send \in {PatchBooking, PostQueue, PatchQueue, DelQueue}})
BookingActions            == All({useProviderBookingActions, useProviderQueueIndex})
ProviderBookingRow        == All({BookingActions, LinksTo({"ProviderBookingDetailsPage"})})
ProviderBookingsPage      == All({useProviderBookings, ProviderBookingRow})
ProviderBookingDetailsPage ==
    All({useBookingDetails, BookingActions, useOwnFinanceTransactions, LinksTo({"ProviderBookingsPage"})})

useProviderServices == All({useOwnProviderProfile, Asks({Query(categoriesKey, GetCategories)}),
                            Offers({Change(send, {ownProfileKey, providersKey}) :
                                       send \in {PostService, PatchService, DelService}})})
ServicesPage        == useProviderServices

OperatingHoursEditor == All({useOwnHours, useUpdateOwnHours})
BusinessProfilePage  == All({useOwnProviderProfile, useUpdateOwnProfile, useOwnFuel, OperatingHoursEditor})
LiveStatusPage       == All({useOwnProviderProfile, useUpdateOwnProfile, useProviderQueue})
ProviderReviewsPage  == All({useOwnProviderProfile, ownReviews})
AnalyticsPage        == ownAnalytics

useOwnFinanceSummary == Asks({Query(<<"finance", "me", "summary">>, GetOwnSummary)})
useOwnCommission     == Asks({Query(<<"finance", "me", "commission">>, GetOwnCommission)})
ProviderFinancePage  == All({useOwnFinanceSummary, useOwnFinanceTransactions, useOwnCommission})

preferencesKey == <<"notificationPreferences", "me">>
useNotificationPreferences       == Asks({Query(preferencesKey, GetPreferences)})
useUpdateNotificationPreferences == Offers({[Change(PatchPreferences, {}) EXCEPT !.sets = {preferencesKey}]})
NotificationPreferencesCard      == All({useNotificationPreferences, useUpdateNotificationPreferences})
useDeactivateAccount             == Offers({[Change(PostDeactivate, {}) EXCEPT !.leads = {"LoginPage"}]})
ProviderSettingsPage == All({useOwnProviderProfile, useUpdateOwnProfile, NotificationPreferencesCard,
                             useChangePassword, useDeactivateAccount, LinksTo({"BusinessProfilePage"})})

-----------------------------------------------------------------------------
(* The admin's pages.                                                      *)

overviewKey == <<"admin", "overview">>

useAdminOverview     == Asks({Query(overviewKey, GetOverview)})
useProviderApprovals == All({Asks({Query(providersKey, GetProviders)}),
                             Offers({Change(PatchApproval, {providersKey, overviewKey})})})
AdminOverview == All({useAdminOverview, useProviderApprovals,
                      LinksTo({"AdminProvidersPage", "AdminUsersPage", "AdminBookingsPage", "AdminComplaintsPage",
                             "AdminReviewsPage", "AdminAnalyticsPage", "CategoriesPage"})})

useProviderCommission       == Asks({Query(<<"adminFinance", "commission">>, GetCommission)})
useUpdateProviderCommission ==
    Offers({Change(PutCommission, {<<"adminFinance", "commission">>, <<"adminFinance", "provider">>,
                                   <<"finance", "me", "commission">>, <<"finance", "me", "summary">>})})
CommissionEditModal == All({useProviderCommission, useUpdateProviderCommission})
AdminProvidersPage  == All({useProviderApprovals, CommissionEditModal})

UserDetailModal == Asks({Query(<<"admin", "users", "id">>, GetUser)})
AdminUsersPage  == All({Asks({Query(<<"admin", "users">>, GetUsers)}), UserDetailModal})

AdminBookingsPage == All({useBookings, useAdminFinanceTransactions})

AdminReviewsPage == All({Asks({Query(<<"admin", "reviews">>, GetAllReviews)}),
                         Offers({Change(DelReview, {<<"admin", "reviews">>, overviewKey})})})

AdminComplaintsPage == All({Asks({Query(<<"admin", "complaints">>, GetComplaints)}),
                            Offers({Change(PatchComplaint, {<<"admin", "complaints">>, overviewKey})})})

AdminAnalyticsPage == Asks({Query(<<"admin", "analytics">>, GetAnalytics)})

useAdminFinanceSummary == Asks({Query(<<"adminFinance", "summary">>, GetAdminSummary)})
useSettleTransaction   == Offers({Change(PatchSettlement, {<<"adminFinance">>, <<"finance", "me">>})})
AdminFinancePage       == All({useAdminFinanceSummary, useAdminFinanceTransactions, useSettleTransaction,
                               Asks({Query(providersKey, GetProviders)}), CommissionEditModal})

useAdminFuel        == Asks({Query(<<"adminFuel", "id">>, GetAdminFuel)})
useAdminFuelHistory == Asks({Query(<<"adminFuelHistory", "id">>, GetAdminFuelHistory)})
useUpdateAdminFuel  ==
    Offers({Change(PutFuel, {<<"adminFuel", "id">>, <<"adminFuelHistory", "id">>, <<"fuel", "id">>,
                             <<"fuelHistory", "id">>, <<"fuel", "me">>})})
AdminFuelPage       == All({Asks({Query(providersKey, GetProviders)}), useAdminFuel, useAdminFuelHistory,
                            useUpdateAdminFuel, FuelHistoryChart})

\* The page keeps its list in a state of its own and edits it as it goes.
useAdminCategories == All({Asks({Query(<<"useAdminCategories">>, GetCategories)}),
                           Offers({[Change(send, {}) EXCEPT !.sets = {<<"useAdminCategories">>}] :
                                      send \in {PostCategory, PutCategory, DelCategory}})})
CategoriesPage     == useAdminCategories

useBookingPolicy       == Asks({Query(<<"adminBookingPolicy">>, GetPolicy)})
useUpdateBookingPolicy == Offers({[Change(PatchPolicy, {}) EXCEPT !.sets = {<<"adminBookingPolicy">>}]})
BookingPolicyCard      == All({useBookingPolicy, useUpdateBookingPolicy})
useExportBackup        == Offers({Change(PostBackup, {})})
AdminSettingsPage == All({BookingPolicyCard, NotificationPreferencesCard, useChangePassword, useExportBackup,
                          LinksTo({"CategoriesPage", "AdminFinancePage", "AdminAuditLogPage"})})

useAuditLog       == Asks({Query(<<"adminAuditLog">>, GetAuditLog)})
AdminAuditLogPage == useAuditLog

-----------------------------------------------------------------------------
(* The routes: who may open a page (RoleRoute) and what the page is made   *)
(* of, for each role that may.                                             *)

Open(page)     == [roles |-> AnyRole \cup {"nobody"}, parts |-> [r \in AnyRole \cup {"nobody"} |-> page]]
For(role, page) == [roles |-> {role}, parts |-> [r \in {role} |-> All({AuthenticatedDashboardLayout(r), page})]]
ForAll(pages)   == [roles |-> AnyRole, parts |-> [r \in AnyRole |-> All({AuthenticatedDashboardLayout(r), pages[r]})]]

publicRoutes ==
    [Home |-> Open(Home), LoginPage |-> Open(LoginPage), RegisterPage |-> Open(RegisterPage),
     ForgotPasswordPage |-> Open(ForgotPasswordPage), ResetPasswordPage |-> Open(ResetPasswordPage),
     UnauthorizedPage |-> Open(UnauthorizedPage), NotFoundPage |-> Open(NotFoundPage)]

providerRoutes ==
    [ProviderDashboardPage |-> ProviderOverview, ServicesPage |-> ServicesPage, QueuePage |-> QueuePage,
     BusinessProfilePage |-> BusinessProfilePage, LiveStatusPage |-> LiveStatusPage,
     ProviderReviewsPage |-> ProviderReviewsPage, ProviderSettingsPage |-> ProviderSettingsPage,
     ProviderBookingsPage |-> ProviderBookingsPage,
     ProviderBookingDetailsPage |-> ProviderBookingDetailsPage, AnalyticsPage |-> AnalyticsPage,
     ProviderFinancePage |-> ProviderFinancePage]

adminRoutes ==
    [AdminDashboardPage |-> AdminOverview, CategoriesPage |-> CategoriesPage, AdminFuelPage |-> AdminFuelPage,
     AdminProvidersPage |-> AdminProvidersPage, AdminUsersPage |-> AdminUsersPage,
     AdminBookingsPage |-> AdminBookingsPage, AdminReviewsPage |-> AdminReviewsPage,
     AdminComplaintsPage |-> AdminComplaintsPage, AdminAnalyticsPage |-> AdminAnalyticsPage,
     AdminFinancePage |-> AdminFinancePage, AdminSettingsPage |-> AdminSettingsPage,
     AdminAuditLogPage |-> AdminAuditLogPage]

customerRoutes ==
    [DiscoveryPage |-> DiscoveryPage, ProviderDetailsPage |-> ProviderDetailsPage,
     LiveStationPage |-> LiveStationPage, BookingHistoryPage |-> BookingHistoryPage,
     BookingDetailsPage |-> BookingDetailsPage, CustomerSettingsPage |-> CustomerSettingsPage,
     MyReviewsPage |-> MyReviewsPage, FavoritesPage |-> FavoritesPage, MyComplaintsPage |-> MyComplaintsPage,
     MyVehiclesPage |-> MyVehiclesPage]

sharedRoutes ==
    [NotificationsPage |-> ForAll([r \in AnyRole |-> NotificationsPage(r)]),
     AiAssistantPage   |-> ForAll([r \in AnyRole |-> AiAssistantPage(r)])]

AppRoutes ==
    [p \in UNION {DOMAIN publicRoutes, DOMAIN sharedRoutes, DOMAIN providerRoutes, DOMAIN adminRoutes,
                  DOMAIN customerRoutes} |->
        CASE p \in DOMAIN publicRoutes   -> publicRoutes[p]
          [] p \in DOMAIN sharedRoutes   -> sharedRoutes[p]
          [] p \in DOMAIN providerRoutes -> For("PROVIDER", providerRoutes[p])
          [] p \in DOMAIN adminRoutes    -> For("ADMIN", adminRoutes[p])
          [] p \in DOMAIN customerRoutes -> For("CUSTOMER", customerRoutes[p])]

=============================================================================
