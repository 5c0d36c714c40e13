------------------------------ MODULE MCRealtime ------------------------------
(***************************************************************************)
(* A small instance of what one open screen learns of the work of others:  *)
(* the Queue screens, shown what is pushed (QueueScreen), or one of those  *)
(* that refetch when told to (Announcements); or of two screens and what   *)
(* they do with a visit (Workflow).  A behaviour is about one of these;    *)
(* the variables of the others stay as they start.                         *)
(***************************************************************************)
EXTENDS QueueScreen, Announcements, Workflow

CONSTANTS e1, e2, r1, r2, d1, d2

\* Nobody waits at first, or somebody else before the customer.
MCFirstLines == {<<>>, <<e2, e1>>}

MCScreens == {"PROVIDER", "CUSTOMER", "visit"} \cup Screens

\* Which of two screens is called the first makes no difference.
MCKinds == <<"webBookings", "phoneBooking", "webQueue", "phoneQueue", "webCustomer", "phoneCustomer">>
MCRank(kind) == CHOOSE i \in DOMAIN MCKinds : MCKinds[i] = kind

VARIABLE screen

MCInit == /\ screen \in MCScreens
          /\ ScreenStart(IF screen = "CUSTOMER" THEN "CUSTOMER" ELSE "PROVIDER")
          /\ screen \notin {"PROVIDER", "CUSTOMER"} => scrQueue.line = <<>>
          /\ AnnouncementsStart(IF screen \in Screens THEN screen ELSE "fuel")
          /\ WorkflowStart(IF screen = "visit" THEN AnyKind ELSE {"webQueue"})
          /\ MCRank(deskKind[d1]) <= MCRank(deskKind[d2])
          /\ screen # "visit" => visit.booking = "none"

MCNext == \/ /\ screen \in {"PROVIDER", "CUSTOMER"}
             /\ ScreenNext /\ UNCHANGED <<screen, annVars, wfVars>>
          \/ /\ screen \in Screens
             /\ AnnouncementsNext /\ UNCHANGED <<screen, scrVars, wfVars>>
          \/ /\ screen = "visit"
             /\ WorkflowNext /\ UNCHANGED <<screen, scrVars, annVars>>

MCSpec == MCInit /\ [][MCNext]_<<screen, scrVars, annVars, wfVars>>

\* Requests differ in nothing; the customer's entry and the other one do.
MCSymmetry == Permutations(Handlers)

\* States that differ in nothing a behaviour or a property asks of them are
\* one.  Asked of the causes is whether there are any; of what was emitted, by
\* a request that may yet emit an older version, as later requests' are newer;
\* of what was heard, by an answer that has been read, as later ones are no older.
ScreenView == <<scrViewer, scrQueue, scrVersion, scrCall, scrSocket, scrChannel, scrAcks, scrCache, scrCauses = {},
                IF \E h \in Handlers : scrCall[h] # NoCall THEN scrEmitted ELSE 0,
                IF scrCache.fetch \in {"reading", "answered"} THEN scrHeard ELSE 0>>

AnnouncementsView == <<annScreen, annVersion, annOps, annRequest, annOnline, annChannel, annCache, annAudit,
                       annCauses = {},
                       IF \E r \in Requests : annRequest[r] # Done THEN annEmitted ELSE 0,
                       IF annCache.fetch = "answered" THEN annHeard ELSE 0>>

MCView == <<screen, ScreenView, AnnouncementsView, wfVars>>

===============================================================================
