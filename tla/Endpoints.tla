------------------------------ MODULE Endpoints -------------------------------
(***************************************************************************)
(* The backend's routes as its clients depend on them: which roles may     *)
(* call each (authenticate, authorize), which facts of the database its    *)
(* answer is made of, and which it changes.  Facts are of tables or of     *)
(* columns that change apart from the rest of their row.  Which rows an    *)
(* answer is limited to is left to the services.  Constant-level.          *)
(***************************************************************************)

Facts == {"account", "contact", "business", "open", "approval", "service", "category", "hours", "policy",
          "booking", "queue", "review", "complaint", "favorite", "vehicle", "notification",
          "preference", "fuel", "fuelHistory", "ledger", "rate", "audit", "camera"}

\* authorize(...) of a route, or the roles its service admits; authenticate
\* alone admits every role.
AnyRole  == {"CUSTOMER", "PROVIDER", "ADMIN"}
Customer == {"CUSTOMER"}
Provider == {"PROVIDER"}
Admin    == {"ADMIN"}
Staff    == {"PROVIDER", "ADMIN"}

Reads(roles, facts)  == [may |-> roles, reads |-> facts, writes |-> {}]
Writes(roles, facts) == [may |-> roles, reads |-> {}, writes |-> facts]

-----------------------------------------------------------------------------
(* /auth, for those who are signed in; the rest of it is open to anybody.  *)

GetMe          == Reads(AnyRole, {"account", "contact"})
PatchMe        == Writes(AnyRole, {"account", "contact"})
PatchPassword  == Writes(AnyRole, {})

-----------------------------------------------------------------------------
(* /bookings, /queue, /ai.                                                 *)

Details == {"booking", "account", "service", "category", "business", "review"}

GetBookings    == Reads(AnyRole, Details)
GetBooking     == Reads(AnyRole, Details)
PostBooking    == Writes(Customer, {"booking"})

\* A booking that is completed is accounted for; a cancellation by an admin is
\* audited.
PatchBooking   == Writes(AnyRole, {"booking", "ledger", "audit"})

\* The booking of an entry in line changes with it.
GetQueue       == Reads(AnyRole, {"queue", "account", "service", "business"})
GetQueueSummary == Reads(AnyRole, {"queue", "service"})
PostQueue      == Writes(Staff, {"queue", "booking"})
PatchQueue     == Writes(Staff, {"queue", "booking", "ledger"})
PatchReorder   == Writes(Staff, {"queue"})
DelQueue == Writes(Staff, {"queue", "booking"})

PostChat       == Reads(AnyRole, {"category"})

-----------------------------------------------------------------------------
(* /categories, /reviews, /complaints, /favorites, /vehicles.              *)

GetCategories    == Reads(AnyRole, {"category"})
PostCategory     == Writes(Admin, {"category", "audit"})
PutCategory      == Writes(Admin, {"category", "audit"})
DelCategory == Writes(Admin, {"category", "audit"})

GetMyReviews     == Reads(Customer, {"review", "business"})
PostReview       == Writes(Customer, {"review"})
DelReview == Writes({"CUSTOMER", "ADMIN"}, {"review"})

GetMyComplaints  == Reads(Customer, {"complaint", "business"})
PostComplaint    == Writes(Customer, {"complaint"})

GetMyFavorites   == Reads(Customer, {"favorite", "business", "open"})
PostFavorite     == Writes(Customer, {"favorite"})
DelFavorite == Writes(Customer, {"favorite"})

GetVehicles      == Reads(Customer, {"vehicle"})
PostVehicle      == Writes(Customer, {"vehicle"})
PatchVehicle     == Writes(Customer, {"vehicle"})
DelVehicle == Writes(Customer, {"vehicle"})

-----------------------------------------------------------------------------
(* /notifications: the caller's own.                                       *)

GetNotifications  == Reads(AnyRole, {"notification"})
GetUnreadCount    == Reads(AnyRole, {"notification"})
PatchRead         == Writes(AnyRole, {"notification"})
PatchReadAll      == Writes(AnyRole, {"notification"})
DelNotification == Writes(AnyRole, {"notification"})
GetPreferences    == Reads(AnyRole, {"preference"})
PatchPreferences  == Writes(AnyRole, {"preference"})

-----------------------------------------------------------------------------
(* /providers.                                                             *)

\* The owner's name and telephone number are its contact.
Profile == {"business", "open", "approval", "contact", "service", "category", "review"}

GetProviders      == Reads(AnyRole, Profile \cup {"queue"})
PatchApproval     == Writes(Admin, {"approval", "audit"})
GetReviewsOf      == Reads(AnyRole, {"review", "account"})
GetRatingSummary  == Reads(AnyRole, {"review"})
GetHoursOf        == Reads(AnyRole, {"hours"})
GetAvailability   == Reads(AnyRole, {"hours", "policy", "service", "booking", "approval"})
GetFuelOf         == Reads(AnyRole, {"fuel"})
GetFuelHistoryOf  == Reads(AnyRole, {"fuelHistory"})
GetLiveCamera     == Reads(AnyRole, {"camera"})

GetOwnProfile     == Reads(Provider, Profile)
PatchOwnProfile   == Writes(Provider, {"business", "open", "contact"})
PostDeactivate    == Writes(Provider, {"open", "contact"})
GetOwnAnalytics   == Reads(Provider, {"booking", "service", "queue", "review"})
GetOwnHours       == Reads(Provider, {"hours"})
PutOwnHours       == Writes(Provider, {"hours"})
GetOwnFuel        == Reads(Provider, {"fuel"})
GetOwnSummary     == Reads(Provider, {"ledger", "rate"})
GetOwnTransactions == Reads(Provider, {"ledger", "business", "account", "booking", "service"})
GetOwnCommission  == Reads(Provider, {"rate"})
PostService       == Writes(Provider, {"service"})
PatchService      == Writes(Provider, {"service"})
DelService == Writes(Provider, {"service"})

-----------------------------------------------------------------------------
(* /admin.                                                                 *)

GetOverview       == Reads(Admin, {"account", "contact", "business", "approval", "open", "booking",
                                   "review", "queue", "category", "service", "complaint"})
GetAnalytics      == Reads(Admin, {"booking", "service", "category", "business", "account", "review"})
GetUsers          == Reads(Admin, {"account", "contact", "business", "approval", "booking", "review"})
GetUser           == Reads(Admin, {"account", "contact", "business", "approval", "open", "service",
                                   "booking", "review", "complaint"})
GetAllReviews     == Reads(Admin, {"review", "account", "business"})
GetComplaints     == Reads(Admin, {"complaint", "account", "business"})
PatchComplaint    == Writes(Admin, {"complaint"})
GetAdminFuel      == Reads(Admin, {"fuel", "account"})
PutFuel           == Writes(Admin, {"fuel", "fuelHistory", "audit"})
GetAdminFuelHistory == Reads(Admin, {"fuelHistory", "account"})
GetAdminSummary   == Reads(Admin, {"ledger"})
GetTransactions   == Reads(Admin, {"ledger", "business", "account", "booking", "service"})
GetProviderFinance == Reads(Admin, {"ledger", "rate", "business", "account", "booking", "service"})
PatchSettlement   == Writes(Admin, {"ledger", "audit"})
GetCommission     == Reads(Admin, {"rate"})
PutCommission     == Writes(Admin, {"rate", "audit"})
GetPolicy         == Reads(Admin, {"policy"})
PatchPolicy       == Writes(Admin, {"policy", "audit"})
GetAuditLog       == Reads(Admin, {"audit", "account"})
PostBackup        == Writes(Admin, {"audit"})

=============================================================================
