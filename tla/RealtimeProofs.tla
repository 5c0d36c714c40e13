----------------------------- MODULE RealtimeProofs ----------------------------
(***************************************************************************)
(* What holds of everything that is pushed, for every number of requests,  *)
(* rows and entries: the announcements and the audit (Announcements), the  *)
(* almost-your-turn message (Inbox), and the Queue screens (QueueScreen).  *)
(***************************************************************************)
EXTENDS Announcements, Inbox, QueueScreen, SequenceTheorems, FiniteSetTheorems, WellFoundedInduction,
        TLAPS

-----------------------------------------------------------------------------
(* The announcements.  The table of operations, as far as it matters what  *)
(* follows each.                                                           *)

Steps == [kind : {"announce", "broadcast", "notify", "audit"}, screens : SUBSET Screens]

\* The steps that write no audit record; only announcements reach screens.
PlainSteps == {s \in Steps : s.kind # "audit" /\ (s.kind # "announce" => s.screens = {})}

\* Steps other than announcements reach no screen; the audit comes last, and
\* not in a request that has one guard for all.
WellFormed(steps, guarded) ==
    /\ steps \in Seq(PlainSteps \cup {Audit})
    /\ \A i \in DOMAIN steps : steps[i] = Audit => i = Len(steps) /\ guarded

Announces(steps, screen) == \E i \in DOMAIN steps : screen \in steps[i].screens

\* An operation that changes a screen announces it, or is listed as silent; one
\* that owes an audit record has a step for it, and no other has.
OperationHolds(op, operation) ==
    /\ operation.guarded \in BOOLEAN
    /\ WellFormed(operation.after, operation.guarded)
    /\ Audited(operation.after) <=> op \in OwesAudit
    /\ \A screen \in Screens :
          screen \in operation.changes /\ op \notin Silent[screen]
             => Announces(operation.after, screen)

LEMMA AuditIsNotPlain == Audit \notin PlainSteps
BY DEF Audit, PlainSteps

\* The steps the operations are made of, and the screens they reach.
LEMMA StepsArePlain ==
    /\ {Notify, Broadcast, StatusChanged, StatusChangedByQueue, AvailabilityChanged, ProviderStatus,
        FuelUpdated, FinanceUpdated} \subseteq PlainSteps
    /\ StatusChanged.screens = BookingScreens
    /\ StatusChangedByQueue.screens = {"customerBookings"}
    /\ AvailabilityChanged.screens = {"availability"}
    /\ ProviderStatus.screens = {"providers"}
    /\ FuelUpdated.screens = {"fuel"}
    /\ FinanceUpdated.screens = {"finance"}
BY DEF Notify, Broadcast, StatusChanged, StatusChangedByQueue, AvailabilityChanged, ProviderStatus,
       FuelUpdated, FinanceUpdated, PlainSteps, Steps, Screens, BookingScreens, Announce

LEMMA NothingIsWellFormed ==
    ASSUME NEW guarded \in BOOLEAN
    PROVE  WellFormed(<<>>, guarded) /\ ~Audited(<<>>)
BY DEF WellFormed, Audited

LEMMA AuditIsWellFormed == WellFormed(<<Audit>>, TRUE) /\ Audited(<<Audit>>)
BY AuditIsNotPlain DEF WellFormed, Audited

\* Sequences of up to four steps are well formed with the audit at the end.
LEMMA ShortSequences ==
    ASSUME NEW a \in PlainSteps, NEW b \in PlainSteps, NEW c \in PlainSteps, NEW d \in PlainSteps,
           NEW guarded \in BOOLEAN
    PROVE  /\ WellFormed(<<a>>, guarded) /\ ~Audited(<<a>>)
           /\ WellFormed(<<a, b>>, guarded) /\ ~Audited(<<a, b>>)
           /\ WellFormed(<<a, b, c>>, guarded) /\ ~Audited(<<a, b, c>>)
           /\ WellFormed(<<a, b, c, d>>, guarded) /\ ~Audited(<<a, b, c, d>>)
           /\ WellFormed(<<a, Audit>>, TRUE) /\ Audited(<<a, Audit>>)
           /\ WellFormed(<<a, b, Audit>>, TRUE) /\ Audited(<<a, b, Audit>>)
           /\ WellFormed(<<a, b, c, Audit>>, TRUE) /\ Audited(<<a, b, c, Audit>>)
<1>1. WellFormed(<<a>>, guarded) /\ ~Audited(<<a>>)
  BY AuditIsNotPlain DEF WellFormed, Audited
<1>2. WellFormed(<<a, b>>, guarded) /\ ~Audited(<<a, b>>)
  BY AuditIsNotPlain DEF WellFormed, Audited
<1>3. WellFormed(<<a, b, c>>, guarded) /\ ~Audited(<<a, b, c>>)
  BY AuditIsNotPlain DEF WellFormed, Audited
<1>4. WellFormed(<<a, b, c, d>>, guarded) /\ ~Audited(<<a, b, c, d>>)
  BY AuditIsNotPlain DEF WellFormed, Audited
<1>5. WellFormed(<<a, Audit>>, TRUE) /\ Audited(<<a, Audit>>)
  BY AuditIsNotPlain DEF WellFormed, Audited
<1>6. WellFormed(<<a, b, Audit>>, TRUE) /\ Audited(<<a, b, Audit>>)
  BY AuditIsNotPlain DEF WellFormed, Audited
<1>7. WellFormed(<<a, b, c, Audit>>, TRUE) /\ Audited(<<a, b, c, Audit>>)
  BY AuditIsNotPlain DEF WellFormed, Audited
<1> QED BY <1>1, <1>2, <1>3, <1>4, <1>5, <1>6, <1>7

LEMMA FiveSteps ==
    ASSUME NEW a \in PlainSteps, NEW b \in PlainSteps, NEW c \in PlainSteps, NEW d \in PlainSteps
    PROVE  WellFormed(<<a, b, c, d, Audit>>, TRUE) /\ Audited(<<a, b, c, d, Audit>>)
<1>1. WellFormed(<<a, b, c, d, Audit>>, TRUE)
  BY AuditIsNotPlain DEF WellFormed
<1>2. <<a, b, c, d, Audit>>[5] = Audit /\ 5 \in DOMAIN <<a, b, c, d, Audit>>
  OBVIOUS
<1> QED BY <1>1, <1>2 DEF Audited

\* What owes an audit record.
LEMMA OwingIs ==
    OwesAudit = {"updateStatusByAdmin", "completeBookingByAdmin", "setApproval", "updateProviderFuel",
                 "settleFinanceTransaction", "setProviderCommission", "updateBookingPolicy",
                 "exportBackup", "changeCategory"}
BY DEF OwesAudit, ByAdmin, Unaudited, QueueOperations, AdminOperations, CategoryOperations,
       ReviewOperations

\* A booking that gets another status is on its two lists and frees or takes
\* a slot; one that is completed is in the figures as well.
EveryBooking == BookingScreens \cup {"availability"}
CompletionScreens == BookingScreens \cup {"availability", "finance"}

\* What shows who can be booked.
BookableScreens == {"providers", "availability"}

LEMMA OneAnnounced ==
    ASSUME NEW a, NEW screen, screen \in a.screens
    PROVE  Announces(<<a>>, screen)
BY DEF Announces

LEMMA TwoAnnounced ==
    ASSUME NEW a, NEW b, NEW screen, screen \in a.screens \/ screen \in b.screens
    PROVE  Announces(<<a, b>>, screen)
BY DEF Announces

LEMMA ThreeAnnounced ==
    ASSUME NEW a, NEW b, NEW c, NEW screen, screen \in a.screens \/ screen \in b.screens \/ screen \in c.screens
    PROVE  Announces(<<a, b, c>>, screen)
BY DEF Announces

LEMMA FourAnnounced ==
    ASSUME NEW a, NEW b, NEW c, NEW d, NEW screen,
           \/ screen \in a.screens \/ screen \in b.screens \/ screen \in c.screens \/ screen \in d.screens
    PROVE  Announces(<<a, b, c, d>>, screen)
BY DEF Announces

LEMMA FiveAnnounced ==
    ASSUME NEW a, NEW b, NEW c, NEW d, NEW e, NEW screen,
           \/ screen \in a.screens \/ screen \in b.screens \/ screen \in c.screens \/ screen \in d.screens
    PROVE  Announces(<<a, b, c, d, e>>, screen)
BY DEF Announces

LEMMA OperationFrom ==
    ASSUME NEW op, NEW changes, NEW after, NEW guarded \in BOOLEAN, WellFormed(after, guarded),
           Audited(after) <=> op \in OwesAudit,
           \A screen \in Screens :
              screen \in changes /\ op \notin Silent[screen] => Announces(after, screen)
    PROVE  OperationHolds(op, [changes |-> changes, after |-> after, guarded |-> guarded])
BY DEF OperationHolds

LEMMA BookingOperationsHold ==
    ASSUME NEW op \in DOMAIN BookingOperations
    PROVE  OperationHolds(op, BookingOperations[op])
<1>0. op \in {"createBooking", "updateStatus",
                "updateStatusByAdmin", "completeBooking", "completeBookingByAdmin", "deleteBooking"}
  BY DEF BookingOperations
<1>1. CASE op = "createBooking"
  <2>1. BookingOperations[op] = Op(EveryBooking, <<Notify, AvailabilityChanged>>)
    BY <1>1 DEF BookingOperations, EveryBooking
  <2>2. WellFormed(<<Notify, AvailabilityChanged>>, TRUE)
    BY StepsArePlain, ShortSequences
  <2>3. \A screen \in Screens :
           screen \in EveryBooking /\ op \notin Silent[screen]
           => Announces(<<Notify, AvailabilityChanged>>, screen)
    BY <1>1, StepsArePlain, TwoAnnounced DEF Silent, Screens, BookingScreens, EveryBooking
  <2>4. Audited(<<Notify, AvailabilityChanged>>) <=> op \in OwesAudit
    BY <1>1, StepsArePlain, ShortSequences, OwingIs
  <2> QED BY <2>1, <2>2, <2>3, <2>4, OperationFrom, Zenon DEF Op
<1>2. CASE op = "updateStatus"
  <2>1. BookingOperations[op] = Op(EveryBooking, <<StatusChanged, AvailabilityChanged, Notify>>)
    BY <1>2 DEF BookingOperations, EveryBooking
  <2>2. WellFormed(<<StatusChanged, AvailabilityChanged, Notify>>, TRUE)
    BY StepsArePlain, ShortSequences
  <2>3. \A screen \in Screens :
           screen \in EveryBooking /\ op \notin Silent[screen]
           => Announces(<<StatusChanged, AvailabilityChanged, Notify>>, screen)
    BY <1>2, StepsArePlain, ThreeAnnounced DEF Silent, Screens, BookingScreens, EveryBooking
  <2>4. Audited(<<StatusChanged, AvailabilityChanged, Notify>>) <=> op \in OwesAudit
    BY <1>2, StepsArePlain, ShortSequences, OwingIs
  <2> QED BY <2>1, <2>2, <2>3, <2>4, OperationFrom, Zenon DEF Op
<1>3. CASE op = "updateStatusByAdmin"
  <2>1. BookingOperations[op] = Op(EveryBooking, <<StatusChanged, AvailabilityChanged, Notify, Audit>>)
    BY <1>3 DEF BookingOperations, EveryBooking
  <2>2. WellFormed(<<StatusChanged, AvailabilityChanged, Notify, Audit>>, TRUE)
    BY StepsArePlain, ShortSequences
  <2>3. \A screen \in Screens :
           screen \in EveryBooking /\ op \notin Silent[screen]
           => Announces(<<StatusChanged, AvailabilityChanged, Notify, Audit>>, screen)
    BY <1>3, StepsArePlain, FourAnnounced DEF Silent, Screens, BookingScreens, EveryBooking
  <2>4. Audited(<<StatusChanged, AvailabilityChanged, Notify, Audit>>) <=> op \in OwesAudit
    BY <1>3, StepsArePlain, ShortSequences, OwingIs
  <2> QED BY <2>1, <2>2, <2>3, <2>4, OperationFrom, Zenon DEF Op
<1>4. CASE op = "completeBooking"
  <2>1. BookingOperations[op] = Op(CompletionScreens, <<StatusChanged, AvailabilityChanged, FinanceUpdated, Notify>>)
    BY <1>4 DEF BookingOperations, CompletionScreens
  <2>2. WellFormed(<<StatusChanged, AvailabilityChanged, FinanceUpdated, Notify>>, TRUE)
    BY StepsArePlain, ShortSequences
  <2>3. \A screen \in Screens :
           screen \in CompletionScreens /\ op \notin Silent[screen]
           => Announces(<<StatusChanged, AvailabilityChanged, FinanceUpdated, Notify>>, screen)
    BY <1>4, StepsArePlain, FourAnnounced DEF Silent, Screens, BookingScreens, CompletionScreens
  <2>4. Audited(<<StatusChanged, AvailabilityChanged, FinanceUpdated, Notify>>) <=> op \in OwesAudit
    BY <1>4, StepsArePlain, ShortSequences, OwingIs
  <2> QED BY <2>1, <2>2, <2>3, <2>4, OperationFrom, Zenon DEF Op
<1>5. CASE op = "deleteBooking"
  <2>1. BookingOperations[op] = Op(EveryBooking, <<>>)
    BY <1>5 DEF BookingOperations, EveryBooking
  <2>2. WellFormed(<<>>, TRUE)
    BY NothingIsWellFormed
  <2>3. \A screen \in Screens :
           screen \in EveryBooking /\ op \notin Silent[screen]
           => Announces(<<>>, screen)
    BY <1>5, StepsArePlain DEF Silent, Screens, BookingScreens, EveryBooking
  <2>4. Audited(<<>>) <=> op \in OwesAudit
    BY <1>5, NothingIsWellFormed, OwingIs
  <2> QED BY <2>1, <2>2, <2>3, <2>4, OperationFrom, Zenon DEF Op
<1>6. CASE op = "completeBookingByAdmin"
  <2>1. BookingOperations[op] = Op(CompletionScreens,
                                   <<StatusChanged, AvailabilityChanged, FinanceUpdated, Notify, Audit>>)
    BY <1>6 DEF BookingOperations, CompletionScreens
  <2>2. WellFormed(<<StatusChanged, AvailabilityChanged, FinanceUpdated, Notify, Audit>>, TRUE)
    BY StepsArePlain, FiveSteps
  <2>3. \A screen \in Screens :
           screen \in CompletionScreens /\ op \notin Silent[screen]
           => Announces(<<StatusChanged, AvailabilityChanged, FinanceUpdated, Notify, Audit>>, screen)
    BY <1>6, StepsArePlain, FiveAnnounced DEF Silent, Screens, BookingScreens, CompletionScreens
  <2>4. Audited(<<StatusChanged, AvailabilityChanged, FinanceUpdated, Notify, Audit>>) <=> op \in OwesAudit
    BY <1>6, StepsArePlain, FiveSteps, OwingIs
  <2> QED BY <2>1, <2>2, <2>3, <2>4, OperationFrom, Zenon DEF Op
<1> QED BY <1>0, <1>1, <1>2, <1>3, <1>4, <1>5, <1>6

LEMMA QueueOperationsHold ==
    ASSUME NEW op \in DOMAIN QueueOperations
    PROVE  OperationHolds(op, QueueOperations[op])
<1>0. op \in {"enqueueBooking", "removeFromQueue", "completeInQueue"}
  BY DEF QueueOperations
<1>1. CASE op = "enqueueBooking"
  <2>1. QueueOperations[op] = QueueOp(BookingScreens, <<Broadcast, StatusChangedByQueue, Notify>>)
    BY <1>1 DEF QueueOperations
  <2>2. WellFormed(<<Broadcast, StatusChangedByQueue, Notify>>, FALSE)
    BY StepsArePlain, ShortSequences
  <2>3. \A screen \in Screens :
           screen \in BookingScreens /\ op \notin Silent[screen]
           => Announces(<<Broadcast, StatusChangedByQueue, Notify>>, screen)
    BY <1>1, StepsArePlain, ThreeAnnounced DEF Silent, Screens, BookingScreens
  <2>4. Audited(<<Broadcast, StatusChangedByQueue, Notify>>) <=> op \in OwesAudit
    BY <1>1, StepsArePlain, ShortSequences, OwingIs
  <2> QED BY <2>1, <2>2, <2>3, <2>4, OperationFrom, Zenon DEF QueueOp
<1>2. CASE op = "removeFromQueue"
  <2>1. QueueOperations[op] = QueueOp(EveryBooking, <<Broadcast, StatusChangedByQueue, Notify>>)
    BY <1>2 DEF QueueOperations, EveryBooking
  <2>2. WellFormed(<<Broadcast, StatusChangedByQueue, Notify>>, FALSE)
    BY StepsArePlain, ShortSequences
  <2>3. \A screen \in Screens :
           screen \in EveryBooking /\ op \notin Silent[screen]
           => Announces(<<Broadcast, StatusChangedByQueue, Notify>>, screen)
    BY <1>2, StepsArePlain, ThreeAnnounced DEF Silent, Screens, BookingScreens, EveryBooking
  <2>4. Audited(<<Broadcast, StatusChangedByQueue, Notify>>) <=> op \in OwesAudit
    BY <1>2, StepsArePlain, ShortSequences, OwingIs
  <2> QED BY <2>1, <2>2, <2>3, <2>4, OperationFrom, Zenon DEF QueueOp
<1>3. CASE op = "completeInQueue"
  <2>1. QueueOperations[op] = QueueOp(CompletionScreens, <<Broadcast, StatusChangedByQueue, Notify, FinanceUpdated>>)
    BY <1>3 DEF QueueOperations, CompletionScreens
  <2>2. WellFormed(<<Broadcast, StatusChangedByQueue, Notify, FinanceUpdated>>, FALSE)
    BY StepsArePlain, ShortSequences
  <2>3. \A screen \in Screens :
           screen \in CompletionScreens /\ op \notin Silent[screen]
           => Announces(<<Broadcast, StatusChangedByQueue, Notify, FinanceUpdated>>, screen)
    BY <1>3, StepsArePlain, FourAnnounced DEF Silent, Screens, BookingScreens, CompletionScreens
  <2>4. Audited(<<Broadcast, StatusChangedByQueue, Notify, FinanceUpdated>>) <=> op \in OwesAudit
    BY <1>3, StepsArePlain, ShortSequences, OwingIs
  <2> QED BY <2>1, <2>2, <2>3, <2>4, OperationFrom, Zenon DEF QueueOp
<1> QED BY <1>0, <1>1, <1>2, <1>3

LEMMA ProviderOperationsHold ==
    ASSUME NEW op \in DOMAIN ProviderOperations
    PROVE  OperationHolds(op, ProviderOperations[op])
<1>0. op \in {"approve", "setApproval", "updateMe",
                "describeMe", "deactivateMe", "changeMyService", "updateMyHours"}
  BY DEF ProviderOperations
<1>1. CASE op = "approve"
  <2>1. ProviderOperations[op] = Op(BookableScreens, <<>>)
    BY <1>1 DEF ProviderOperations, BookableScreens
  <2>2. WellFormed(<<>>, TRUE)
    BY NothingIsWellFormed
  <2>3. \A screen \in Screens :
           screen \in BookableScreens /\ op \notin Silent[screen]
           => Announces(<<>>, screen)
    BY <1>1, StepsArePlain DEF Silent, Screens, BookingScreens, BookableScreens
  <2>4. Audited(<<>>) <=> op \in OwesAudit
    BY <1>1, NothingIsWellFormed, OwingIs
  <2> QED BY <2>1, <2>2, <2>3, <2>4, OperationFrom, Zenon DEF Op
<1>2. CASE op = "setApproval"
  <2>1. ProviderOperations[op] = Op(BookableScreens, <<ProviderStatus, Notify, Audit>>)
    BY <1>2 DEF ProviderOperations, BookableScreens
  <2>2. WellFormed(<<ProviderStatus, Notify, Audit>>, TRUE)
    BY StepsArePlain, ShortSequences
  <2>3. \A screen \in Screens :
           screen \in BookableScreens /\ op \notin Silent[screen]
           => Announces(<<ProviderStatus, Notify, Audit>>, screen)
    BY <1>2, StepsArePlain, ThreeAnnounced DEF Silent, Screens, BookingScreens, BookableScreens
  <2>4. Audited(<<ProviderStatus, Notify, Audit>>) <=> op \in OwesAudit
    BY <1>2, StepsArePlain, ShortSequences, OwingIs
  <2> QED BY <2>1, <2>2, <2>3, <2>4, OperationFrom, Zenon DEF Op
<1>3. CASE op = "updateMe"
  <2>1. ProviderOperations[op] = Op({"providers"}, <<ProviderStatus>>)
    BY <1>3 DEF ProviderOperations
  <2>2. WellFormed(<<ProviderStatus>>, TRUE)
    BY StepsArePlain, ShortSequences
  <2>3. \A screen \in Screens :
           screen \in {"providers"} /\ op \notin Silent[screen]
           => Announces(<<ProviderStatus>>, screen)
    BY <1>3, StepsArePlain, OneAnnounced DEF Silent, Screens, BookingScreens
  <2>4. Audited(<<ProviderStatus>>) <=> op \in OwesAudit
    BY <1>3, StepsArePlain, ShortSequences, OwingIs
  <2> QED BY <2>1, <2>2, <2>3, <2>4, OperationFrom, Zenon DEF Op
<1>4. CASE op = "describeMe"
  <2>1. ProviderOperations[op] = Op({"providers"}, <<>>)
    BY <1>4 DEF ProviderOperations
  <2>2. WellFormed(<<>>, TRUE)
    BY NothingIsWellFormed
  <2>3. \A screen \in Screens :
           screen \in {"providers"} /\ op \notin Silent[screen]
           => Announces(<<>>, screen)
    BY <1>4, StepsArePlain DEF Silent, Screens, BookingScreens
  <2>4. Audited(<<>>) <=> op \in OwesAudit
    BY <1>4, NothingIsWellFormed, OwingIs
  <2> QED BY <2>1, <2>2, <2>3, <2>4, OperationFrom, Zenon DEF Op
<1>5. CASE op = "deactivateMe"
  <2>1. ProviderOperations[op] = Op({"providers"}, <<>>)
    BY <1>5 DEF ProviderOperations
  <2>2. WellFormed(<<>>, TRUE)
    BY NothingIsWellFormed
  <2>3. \A screen \in Screens :
           screen \in {"providers"} /\ op \notin Silent[screen]
           => Announces(<<>>, screen)
    BY <1>5, StepsArePlain DEF Silent, Screens, BookingScreens
  <2>4. Audited(<<>>) <=> op \in OwesAudit
    BY <1>5, NothingIsWellFormed, OwingIs
  <2> QED BY <2>1, <2>2, <2>3, <2>4, OperationFrom, Zenon DEF Op
<1>6. CASE op = "changeMyService"
  <2>1. ProviderOperations[op] = Op(BookableScreens, <<>>)
    BY <1>6 DEF ProviderOperations, BookableScreens
  <2>2. WellFormed(<<>>, TRUE)
    BY NothingIsWellFormed
  <2>3. \A screen \in Screens :
           screen \in BookableScreens /\ op \notin Silent[screen]
           => Announces(<<>>, screen)
    BY <1>6, StepsArePlain DEF Silent, Screens, BookingScreens, BookableScreens
  <2>4. Audited(<<>>) <=> op \in OwesAudit
    BY <1>6, NothingIsWellFormed, OwingIs
  <2> QED BY <2>1, <2>2, <2>3, <2>4, OperationFrom, Zenon DEF Op
<1>7. CASE op = "updateMyHours"
  <2>1. ProviderOperations[op] = Op({"availability"}, <<>>)
    BY <1>7 DEF ProviderOperations
  <2>2. WellFormed(<<>>, TRUE)
    BY NothingIsWellFormed
  <2>3. \A screen \in Screens :
           screen \in {"availability"} /\ op \notin Silent[screen]
           => Announces(<<>>, screen)
    BY <1>7, StepsArePlain DEF Silent, Screens, BookingScreens
  <2>4. Audited(<<>>) <=> op \in OwesAudit
    BY <1>7, NothingIsWellFormed, OwingIs
  <2> QED BY <2>1, <2>2, <2>3, <2>4, OperationFrom, Zenon DEF Op
<1> QED BY <1>0, <1>1, <1>2, <1>3, <1>4, <1>5, <1>6, <1>7

LEMMA AdminOperationsHold ==
    ASSUME NEW op \in DOMAIN AdminOperations
    PROVE  OperationHolds(op, AdminOperations[op])
<1>0. op \in {"updateProviderFuel", "settleFinanceTransaction",
                "setProviderCommission", "updateBookingPolicy", "updateComplaint", "exportBackup"}
  BY DEF AdminOperations
<1>1. CASE op = "updateProviderFuel"
  <2>1. AdminOperations[op] = Op({"fuel"}, <<FuelUpdated, Audit>>)
    BY <1>1 DEF AdminOperations
  <2>2. WellFormed(<<FuelUpdated, Audit>>, TRUE)
    BY StepsArePlain, ShortSequences
  <2>3. \A screen \in Screens :
           screen \in {"fuel"} /\ op \notin Silent[screen]
           => Announces(<<FuelUpdated, Audit>>, screen)
    BY <1>1, StepsArePlain, TwoAnnounced DEF Silent, Screens, BookingScreens
  <2>4. Audited(<<FuelUpdated, Audit>>) <=> op \in OwesAudit
    BY <1>1, StepsArePlain, ShortSequences, OwingIs
  <2> QED BY <2>1, <2>2, <2>3, <2>4, OperationFrom, Zenon DEF Op
<1>2. CASE op = "settleFinanceTransaction"
  <2>1. AdminOperations[op] = Op({"finance"}, <<FinanceUpdated, Audit>>)
    BY <1>2 DEF AdminOperations
  <2>2. WellFormed(<<FinanceUpdated, Audit>>, TRUE)
    BY StepsArePlain, ShortSequences
  <2>3. \A screen \in Screens :
           screen \in {"finance"} /\ op \notin Silent[screen]
           => Announces(<<FinanceUpdated, Audit>>, screen)
    BY <1>2, StepsArePlain, TwoAnnounced DEF Silent, Screens, BookingScreens
  <2>4. Audited(<<FinanceUpdated, Audit>>) <=> op \in OwesAudit
    BY <1>2, StepsArePlain, ShortSequences, OwingIs
  <2> QED BY <2>1, <2>2, <2>3, <2>4, OperationFrom, Zenon DEF Op
<1>3. CASE op = "setProviderCommission"
  <2>1. AdminOperations[op] = Op({"finance"}, <<FinanceUpdated, Audit>>)
    BY <1>3 DEF AdminOperations
  <2>2. WellFormed(<<FinanceUpdated, Audit>>, TRUE)
    BY StepsArePlain, ShortSequences
  <2>3. \A screen \in Screens :
           screen \in {"finance"} /\ op \notin Silent[screen]
           => Announces(<<FinanceUpdated, Audit>>, screen)
    BY <1>3, StepsArePlain, TwoAnnounced DEF Silent, Screens, BookingScreens
  <2>4. Audited(<<FinanceUpdated, Audit>>) <=> op \in OwesAudit
    BY <1>3, StepsArePlain, ShortSequences, OwingIs
  <2> QED BY <2>1, <2>2, <2>3, <2>4, OperationFrom, Zenon DEF Op
<1>4. CASE op = "updateBookingPolicy"
  <2>1. AdminOperations[op] = Op({"availability"}, <<Audit>>)
    BY <1>4 DEF AdminOperations
  <2>2. WellFormed(<<Audit>>, TRUE)
    BY AuditIsWellFormed
  <2>3. \A screen \in Screens :
           screen \in {"availability"} /\ op \notin Silent[screen]
           => Announces(<<Audit>>, screen)
    BY <1>4, StepsArePlain, OneAnnounced DEF Silent, Screens, BookingScreens
  <2>4. Audited(<<Audit>>) <=> op \in OwesAudit
    BY <1>4, AuditIsWellFormed, OwingIs
  <2> QED BY <2>1, <2>2, <2>3, <2>4, OperationFrom, Zenon DEF Op
<1>5. CASE op = "exportBackup"
  <2>1. AdminOperations[op] = Op({}, <<Audit>>)
    BY <1>5 DEF AdminOperations
  <2>2. WellFormed(<<Audit>>, TRUE)
    BY AuditIsWellFormed
  <2>3. \A screen \in Screens :
           screen \in {} /\ op \notin Silent[screen]
           => Announces(<<Audit>>, screen)
    BY <1>5, StepsArePlain, OneAnnounced DEF Silent, Screens, BookingScreens
  <2>4. Audited(<<Audit>>) <=> op \in OwesAudit
    BY <1>5, AuditIsWellFormed, OwingIs
  <2> QED BY <2>1, <2>2, <2>3, <2>4, OperationFrom, Zenon DEF Op
<1>6. CASE op = "updateComplaint"
  <2>1. AdminOperations[op] = Op({}, <<>>)
    BY <1>6 DEF AdminOperations
  <2>2. WellFormed(<<>>, TRUE)
    BY NothingIsWellFormed
  <2>3. \A screen \in Screens :
           screen \in {} /\ op \notin Silent[screen] => Announces(<<>>, screen)
    OBVIOUS
  <2>4. Audited(<<>>) <=> op \in OwesAudit
    BY <1>6, NothingIsWellFormed, OwingIs
  <2> QED BY <2>1, <2>2, <2>3, <2>4, OperationFrom, Zenon DEF Op
<1> QED BY <1>0, <1>1, <1>2, <1>3, <1>4, <1>5, <1>6

LEMMA CategoryOperationsHold ==
    ASSUME NEW op \in DOMAIN CategoryOperations
    PROVE  OperationHolds(op, CategoryOperations[op])
<1>1. OperationHolds(op, CategoryOperations[op])
  <2>0. op = "changeCategory"
    BY DEF CategoryOperations
  <2>1. CategoryOperations[op] = Op({"providers"}, <<Audit>>)
    BY <2>0 DEF CategoryOperations
  <2>2. WellFormed(<<Audit>>, TRUE)
    BY AuditIsWellFormed
  <2>3. \A screen \in Screens :
           screen \in {"providers"} /\ op \notin Silent[screen]
           => Announces(<<Audit>>, screen)
    BY <2>0, StepsArePlain, OneAnnounced DEF Silent, Screens, BookingScreens
  <2>4. Audited(<<Audit>>) <=> op \in OwesAudit
    BY <2>0, AuditIsWellFormed, OwingIs
  <2> QED BY <2>1, <2>2, <2>3, <2>4, OperationFrom, Zenon DEF Op
<1> QED BY <1>1

LEMMA ReviewOperationsHold ==
    ASSUME NEW op \in DOMAIN ReviewOperations
    PROVE  OperationHolds(op, ReviewOperations[op])
<1>0. op = "deleteReview"
  BY DEF ReviewOperations
<1>1. CASE op = "deleteReview"
  <2>1. ReviewOperations[op] = Op({}, <<>>)
    BY <1>1 DEF ReviewOperations
  <2>2. WellFormed(<<>>, TRUE)
    BY NothingIsWellFormed
  <2>3. \A screen \in Screens :
           screen \in {} /\ op \notin Silent[screen] => Announces(<<>>, screen)
    OBVIOUS
  <2>4. Audited(<<>>) <=> op \in OwesAudit
    BY <1>1, NothingIsWellFormed, OwingIs
  <2> QED BY <2>1, <2>2, <2>3, <2>4, OperationFrom, Zenon DEF Op
<1> QED BY <1>0, <1>1

LEMMA OperationsHold ==
    ASSUME NEW op \in DOMAIN Operation
    PROVE  OperationHolds(op, Operation[op])
<1>1. PICK c \in Controllers : op \in DOMAIN c /\ Operation[op] = c[op]
  BY DEF Operation
<1>2. CASE c = BookingOperations
  BY <1>1, <1>2, BookingOperationsHold
<1>3. CASE c = QueueOperations
  BY <1>1, <1>3, QueueOperationsHold
<1>4. CASE c = ProviderOperations
  BY <1>1, <1>4, ProviderOperationsHold
<1>5. CASE c = AdminOperations
  BY <1>1, <1>5, AdminOperationsHold
<1>6. CASE c = CategoryOperations
  BY <1>1, <1>6, CategoryOperationsHold
<1>7. CASE c = ReviewOperations
  BY <1>1, <1>7, ReviewOperationsHold
<1> QED BY <1>1, <1>2, <1>3, <1>4, <1>5, <1>6, <1>7 DEF Controllers

-----------------------------------------------------------------------------
(* The requests, and the audit records they owe.                           *)

AnnRequests == [left : Seq(PlainSteps \cup {Audit}), guarded : BOOLEAN, version : Nat]

RequestsOK == /\ annRequest \in [Requests -> AnnRequests]
              /\ \A r \in Requests : WellFormed(annRequest[r].left, annRequest[r].guarded)

\* The requests that have yet to write an audit record.
OwingAudit == {r \in Requests : Audited(annRequest[r].left)}

AuditRecords == [owed : Nat, written : Nat, lost : Nat]

\* Every record that is owed has been written, has been lost, or is still to
\* be written by one request.
AuditInv ==
    /\ annVersion \in Nat
    /\ RequestsOK
    /\ annAudit \in AuditRecords
    /\ IsFiniteSet(OwingAudit)
    /\ annAudit.owed = annAudit.written + annAudit.lost + Cardinality(OwingAudit)

LEMMA DoneIsWellFormed ==
    /\ Done \in AnnRequests
    /\ WellFormed(Done.left, Done.guarded) /\ ~Audited(Done.left) /\ Done.left = <<>>
BY NothingIsWellFormed DEF Done, AnnRequests, Audited, WellFormed

\* What is left after a step is well formed; of the audit nothing is left.
LEMMA RestIsWellFormed ==
    ASSUME NEW steps, NEW guarded \in BOOLEAN, WellFormed(steps, guarded), steps # <<>>
    PROVE  /\ Head(steps) \in PlainSteps \cup {Audit}
           /\ WellFormed(Tail(steps), guarded)
           /\ Head(steps) = Audit => Tail(steps) = <<>> /\ guarded
           /\ Audited(steps) <=> Head(steps) = Audit \/ Audited(Tail(steps))
<1>1. steps \in Seq(PlainSteps \cup {Audit}) /\ Len(steps) \in Nat \ {0} /\ DOMAIN steps = 1 .. Len(steps)
  BY DEF WellFormed
<1>2. /\ Head(steps) = steps[1] /\ Tail(steps) \in Seq(PlainSteps \cup {Audit})
      /\ Len(Tail(steps)) = Len(steps) - 1
      /\ \A i \in 1 .. Len(steps) - 1 : Tail(steps)[i] = steps[i + 1]
  BY <1>1
<1>3. Head(steps) \in PlainSteps \cup {Audit}
  BY <1>1, <1>2
<1>4. WellFormed(Tail(steps), guarded)
  BY <1>1, <1>2 DEF WellFormed
<1>5. Head(steps) = Audit => Len(steps) = 1 /\ guarded
  BY <1>1, <1>2 DEF WellFormed
<1>6. Len(steps) = 1 => Tail(steps) = <<>>
  <2> SUFFICES ASSUME Len(steps) = 1 PROVE Tail(steps) = <<>>
    OBVIOUS
  <2>1. Len(Tail(steps)) = 0
    BY <1>2
  <2> QED BY <1>2, <2>1, EmptySeq
<1>7. Audited(steps) <=> Head(steps) = Audit \/ Audited(Tail(steps))
  <2>1. ASSUME NEW i \in 2 .. Len(steps)
        PROVE  i - 1 \in 1 .. Len(steps) - 1 /\ Tail(steps)[i - 1] = steps[i]
    BY <1>1, <1>2
  <2>2. Audited(steps) => Head(steps) = Audit \/ Audited(Tail(steps))
    <3> SUFFICES ASSUME NEW i \in DOMAIN steps, steps[i] = Audit
                 PROVE  Head(steps) = Audit \/ Audited(Tail(steps))
      BY DEF Audited
    <3>1. i = 1 \/ i \in 2 .. Len(steps)
      BY <1>1
    <3>2. CASE i = 1
      BY <1>2, <3>2
    <3>3. CASE i \in 2 .. Len(steps)
      <4>1. i - 1 \in DOMAIN Tail(steps) /\ Tail(steps)[i - 1] = Audit
        BY <1>2, <2>1, <3>3
      <4> QED BY <4>1 DEF Audited
    <3> QED BY <3>1, <3>2, <3>3
  <2>3. ASSUME NEW i \in 1 .. Len(steps) - 1
        PROVE  i + 1 \in 1 .. Len(steps) /\ Tail(steps)[i] = steps[i + 1]
    BY <1>1, <1>2
  <2>4. Head(steps) = Audit \/ Audited(Tail(steps)) => Audited(steps)
    BY <1>1, <1>2, <2>3 DEF Audited
  <2> QED BY <2>2, <2>4
<1> QED BY <1>3, <1>4, <1>5, <1>6, <1>7


LEMMA AuditInitially ==
    ASSUME NEW screen \in Screens, AnnouncementsStart(screen)
    PROVE  AuditInv
<1>1. annRequest \in [Requests -> AnnRequests] /\ \A r \in Requests : annRequest[r] = Done
  BY DoneIsWellFormed DEF AnnouncementsStart
<1>2. RequestsOK
  BY <1>1, DoneIsWellFormed DEF RequestsOK
<1>3. OwingAudit = {}
  BY <1>1, DoneIsWellFormed DEF OwingAudit
<1>4. IsFiniteSet(OwingAudit) /\ Cardinality(OwingAudit) = 0
  BY <1>3, FS_EmptySet
<1> QED BY <1>2, <1>4 DEF AuditInv, AuditRecords, AnnouncementsStart

\* The request that takes up an operation owes its audit record, if any.
LEMMA CommitKeepsAudit ==
    ASSUME AuditInv, NEW r \in Requests, NEW op \in DOMAIN Operation, Commit(r, op)
    PROVE  AuditInv'
<1> DEFINE new == [left |-> Operation[op].after, guarded |-> Operation[op].guarded, version |-> annVersion']
<1>1. annVersion' \in Nat
  BY DEF AuditInv, Commit
<1>2. new \in AnnRequests /\ WellFormed(new.left, new.guarded)
  <2>1. WellFormed(Operation[op].after, Operation[op].guarded) /\ Operation[op].guarded \in BOOLEAN
    BY OperationsHold DEF OperationHolds
  <2> QED BY <1>1, <2>1 DEF AnnRequests, WellFormed
<1>3. annRequest' = [annRequest EXCEPT ![r] = new]
  BY DEF Commit
<1>4. Audited(new.left) <=> op \in OwesAudit
  BY OperationsHold DEF OperationHolds
<1> HIDE DEF new
<1>5. RequestsOK'
  BY <1>2, <1>3 DEF AuditInv, RequestsOK
<1>6. annRequest[r] = Done /\ r \notin OwingAudit
  BY DoneIsWellFormed DEF Commit, OwingAudit
<1>7. CASE Audited(new.left)
  <2>1. OwingAudit' = OwingAudit \cup {r}
    BY <1>3, <1>7 DEF OwingAudit, AuditInv, RequestsOK
  <2>2. IsFiniteSet(OwingAudit') /\ Cardinality(OwingAudit') = Cardinality(OwingAudit) + 1
    BY <1>6, <2>1, FS_AddElement DEF AuditInv
  <2>3. annAudit' = [annAudit EXCEPT !.owed = @ + 1]
    BY <1>4, <1>7 DEF Commit
  <2>4. annAudit' \in AuditRecords
    BY <2>3 DEF AuditInv, AuditRecords
  <2>5. /\ annAudit'.owed = annAudit.owed + 1
        /\ annAudit'.written = annAudit.written /\ annAudit'.lost = annAudit.lost
    BY <2>3 DEF AuditInv, AuditRecords
  <2>6. Cardinality(OwingAudit) \in Nat
    BY FS_CardinalityType DEF AuditInv
  <2>7. annAudit'.owed = annAudit'.written + annAudit'.lost + Cardinality(OwingAudit')
    BY <2>2, <2>5, <2>6 DEF AuditInv, AuditRecords
  <2> QED BY <1>1, <1>5, <2>2, <2>4, <2>7 DEF AuditInv
<1>8. CASE ~Audited(new.left)
  <2>1. OwingAudit' = OwingAudit
    BY <1>3, <1>6, <1>8 DEF OwingAudit, AuditInv, RequestsOK
  <2>2. annAudit' = annAudit
    BY <1>4, <1>8 DEF Commit
  <2> QED BY <1>1, <1>5, <2>1, <2>2 DEF AuditInv
<1> QED BY <1>7, <1>8

\* What Proceed leaves of a request.
LEMMA ProceedKeepsRequests ==
    ASSUME AuditInv, NEW r \in Requests, annRequest[r].left # <<>>, Proceed(r)
    PROVE  /\ RequestsOK'
           /\ NextStep(r) \in PlainSteps \cup {Audit}
           /\ NextStep(r) = Audit => r \in OwingAudit /\ OwingAudit' = OwingAudit \ {r}
           /\ NextStep(r) # Audit => OwingAudit' = OwingAudit
<1> DEFINE steps == annRequest[r].left
           guarded == annRequest[r].guarded
           rest == Tail(steps)
<1>1. /\ annRequest \in [Requests -> AnnRequests] /\ WellFormed(steps, guarded)
      /\ annRequest[r] \in AnnRequests
  BY DEF AuditInv, RequestsOK
<1>2. guarded \in BOOLEAN
  BY <1>1 DEF AnnRequests
<1>3. /\ Head(steps) \in PlainSteps \cup {Audit} /\ WellFormed(rest, guarded)
      /\ Head(steps) = Audit => rest = <<>>
      /\ Audited(steps) <=> Head(steps) = Audit \/ Audited(rest)
  BY <1>1, <1>2, RestIsWellFormed
<1>4. PICK new : /\ new = IF rest = <<>> THEN Done ELSE [annRequest[r] EXCEPT !.left = rest]
                 /\ annRequest' = [annRequest EXCEPT ![r] = new]
  BY DEF Proceed
<1>5. new \in AnnRequests /\ WellFormed(new.left, new.guarded) /\ new.left = rest
  <2>1. CASE rest = <<>>
    BY <1>4, <2>1, DoneIsWellFormed
  <2>2. CASE rest # <<>>
    <3>1. rest \in Seq(PlainSteps \cup {Audit})
      BY <1>3 DEF WellFormed
    <3>2. new \in AnnRequests /\ new.left = rest /\ new.guarded = guarded
      BY <1>1, <1>4, <2>2, <3>1 DEF AnnRequests
    <3> QED BY <1>3, <3>2
  <2> QED BY <2>1, <2>2
<1>6. RequestsOK'
  BY <1>1, <1>4, <1>5 DEF AuditInv, RequestsOK
<1>7. \A q \in Requests : annRequest'[q].left = IF q = r THEN rest ELSE annRequest[q].left
  BY <1>1, <1>4, <1>5
<1>8. ~Audited(<<>>)
  BY DEF Audited
<1>9. Head(steps) = Audit => r \in OwingAudit /\ OwingAudit' = OwingAudit \ {r}
  BY <1>3, <1>7, <1>8 DEF OwingAudit
<1>10. Head(steps) # Audit => OwingAudit' = OwingAudit
  BY <1>3, <1>7 DEF OwingAudit
<1> QED BY <1>3, <1>6, <1>9, <1>10 DEF NextStep


\* A step that is not the audit leaves the account of it as it is.
LEMMA AuditUntouched ==
    ASSUME AuditInv, RequestsOK', OwingAudit' = OwingAudit, annAudit' = annAudit, annVersion' = annVersion
    PROVE  AuditInv'
BY DEF AuditInv

\* An error in a request with one guard costs it the rest, which has no audit.
LEMMA FailureKeepsAudit ==
    ASSUME AuditInv, NEW r \in Requests, StepFails(r)
    PROVE  AuditInv'
<1>1. annRequest[r].left # <<>> /\ annAudit' = annAudit /\ annVersion' = annVersion
  BY DEF StepFails
<1>2. CASE annRequest[r].guarded
  <2>1. Proceed(r) /\ NextStep(r) # Audit
    BY <1>2 DEF StepFails, Queries, Audit
  <2> QED BY <1>1, <2>1, ProceedKeepsRequests, AuditUntouched
<1>3. CASE ~annRequest[r].guarded
  <2>1. annRequest' = [annRequest EXCEPT ![r] = Done]
    BY <1>3 DEF StepFails
  <2>2. RequestsOK'
    BY <2>1, DoneIsWellFormed DEF AuditInv, RequestsOK
  <2>3. ~Audited(annRequest[r].left)
    BY <1>3 DEF AuditInv, RequestsOK, WellFormed, Audited
  <2>4. OwingAudit' = OwingAudit
    BY <2>1, <2>3, DoneIsWellFormed DEF OwingAudit, AuditInv, RequestsOK
  <2> QED BY <1>1, <2>2, <2>4, AuditUntouched
<1> QED BY <1>2, <1>3

LEMMA RecordKeepsAudit ==
    ASSUME AuditInv, NEW r \in Requests, NEW succeeds \in BOOLEAN, RecordAudit(r, succeeds)
    PROVE  AuditInv'
<1>1. annRequest[r].left # <<>> /\ NextStep(r).kind = "audit" /\ Proceed(r) /\ annVersion' = annVersion
  BY DEF RecordAudit
<1>2. NextStep(r) = Audit
  BY <1>1, ProceedKeepsRequests DEF PlainSteps
<1>3. RequestsOK' /\ r \in OwingAudit /\ OwingAudit' = OwingAudit \ {r}
  BY <1>1, <1>2, ProceedKeepsRequests
<1>4. /\ IsFiniteSet(OwingAudit') /\ Cardinality(OwingAudit') = Cardinality(OwingAudit) - 1
      /\ Cardinality(OwingAudit) \in Nat
  BY <1>3, FS_RemoveElement, FS_CardinalityType DEF AuditInv
<1>5. \/ annAudit' = [annAudit EXCEPT !.written = @ + 1]
      \/ annAudit' = [annAudit EXCEPT !.lost = @ + 1]
  BY DEF RecordAudit
<1>6. annAudit' \in AuditRecords
  BY <1>5 DEF AuditInv, AuditRecords
<1>7. /\ annAudit'.owed = annAudit.owed
      /\ annAudit'.written + annAudit'.lost = annAudit.written + annAudit.lost + 1
  BY <1>5 DEF AuditInv, AuditRecords
<1>8. annAudit'.owed = annAudit'.written + annAudit'.lost + Cardinality(OwingAudit')
  BY <1>4, <1>6, <1>7 DEF AuditInv, AuditRecords
<1> QED BY <1>1, <1>3, <1>4, <1>6, <1>8 DEF AuditInv

\* What is owed when the server stops is lost.
LEMMA RestartKeepsAudit ==
    ASSUME AuditInv, ServerRestarts
    PROVE  AuditInv'
<1>1. /\ annRequest' = [r \in Requests |-> Done] /\ annVersion' = annVersion
      /\ annAudit' = [annAudit EXCEPT !.lost = @ + Cardinality(OwingAudit)]
  BY DEF ServerRestarts, OwingAudit
<1>2. RequestsOK'
  BY <1>1, DoneIsWellFormed DEF RequestsOK
<1>3. OwingAudit' = {}
  BY <1>1, DoneIsWellFormed DEF OwingAudit
<1>4. IsFiniteSet(OwingAudit') /\ Cardinality(OwingAudit') = 0
  BY <1>3, FS_EmptySet
<1>5. Cardinality(OwingAudit) \in Nat
  BY FS_CardinalityType DEF AuditInv
<1>6. annAudit' \in AuditRecords
  BY <1>1, <1>5 DEF AuditInv, AuditRecords
<1>7. annAudit'.owed = annAudit'.written + annAudit'.lost
  BY <1>1, <1>5 DEF AuditInv, AuditRecords
<1>8. annAudit'.owed = annAudit'.written + annAudit'.lost + Cardinality(OwingAudit')
  BY <1>4, <1>6, <1>7 DEF AuditRecords
<1> QED BY <1>1, <1>2, <1>4, <1>6, <1>8 DEF AuditInv

\* No audit record is forgotten: one request writes it, or it is lost.
LEMMA AuditStays ==
    ASSUME AuditInv, [AnnouncementsNext]_annVars
    PROVE  AuditInv'
<1>1. ASSUME NEW r \in Requests, NEW op \in DOMAIN Operation, Commit(r, op) PROVE AuditInv'
  BY <1>1, CommitKeepsAudit
<1>2. ASSUME NEW r \in Requests, Emit(r) PROVE AuditInv'
  <2>1. /\ annRequest[r].left # <<>> /\ Proceed(r) /\ NextStep(r) # Audit
        /\ annAudit' = annAudit /\ annVersion' = annVersion
    BY <1>2 DEF Emit, Audit
  <2> QED BY <2>1, ProceedKeepsRequests, AuditUntouched
<1>3. ASSUME NEW r \in Requests, StepSucceeds(r) PROVE AuditInv'
  <2>1. /\ annRequest[r].left # <<>> /\ Proceed(r) /\ NextStep(r) # Audit
        /\ annAudit' = annAudit /\ annVersion' = annVersion
    BY <1>3 DEF StepSucceeds, Queries, Audit
  <2> QED BY <2>1, ProceedKeepsRequests, AuditUntouched
<1>4. ASSUME NEW r \in Requests, StepFails(r) PROVE AuditInv'
  BY <1>4, FailureKeepsAudit
<1>5. ASSUME NEW r \in Requests, NEW succeeds \in BOOLEAN, RecordAudit(r, succeeds) PROVE AuditInv'
  BY <1>5, RecordKeepsAudit
<1>6. CASE ServerRestarts
  BY <1>6, RestartKeepsAudit
<1>7. CASE \/ AnswerQuery \/ DeliverAnswer \/ QueryFails \/ Hear \/ GoOnline \/ GoOffline
           \/ UNCHANGED annVars
  <2>1. annRequest' = annRequest /\ annAudit' = annAudit /\ annVersion' = annVersion
    BY <1>7 DEF AnswerQuery, DeliverAnswer, QueryFails, Hear, GoOnline, GoOffline, annVars
  <2> QED BY <2>1 DEF AuditInv, RequestsOK, OwingAudit
<1> QED BY <1>1, <1>2, <1>3, <1>4, <1>5, <1>6, <1>7 DEF AnnouncementsNext

\* An administrative action that is not among Unaudited leaves one audit record,
\* and nothing else leaves any, whatever else fails after the answer (safely in
\* the controllers, auditLog.service.js record), for every number of requests.
THEOREM AuditsAreWritten == AnnouncementsSpec => []OwedAuditsAreWritten
<1>1. ASSUME AuditInv PROVE OwedAuditsAreWritten
  <2>1. Cardinality(OwingAudit) \in Nat
    BY <1>1, FS_CardinalityType DEF AuditInv
  <2>2. annAudit.written + annAudit.lost <= annAudit.owed
    BY <1>1, <2>1 DEF AuditInv, AuditRecords
  <2>3. ASSUME \A r \in Requests : annRequest[r] = Done
        PROVE  annAudit.written + annAudit.lost = annAudit.owed
    <3>1. OwingAudit = {}
      BY <2>3, DoneIsWellFormed DEF OwingAudit
    <3>2. Cardinality(OwingAudit) = 0
      BY <3>1, FS_EmptySet
    <3> QED BY <1>1, <3>2 DEF AuditInv, AuditRecords
  <2> QED BY <2>2, <2>3 DEF OwedAuditsAreWritten
<1>2. (\E screen \in Screens : AnnouncementsStart(screen)) => AuditInv
  BY AuditInitially
<1> QED BY <1>1, <1>2, AuditStays, PTL DEF AnnouncementsSpec


-----------------------------------------------------------------------------
(* The screen that hears of changes.                                       *)

LEMMA MaxOfTwo ==
    ASSUME NEW a \in Nat, NEW b \in Nat
    PROVE  Max({a, b}) = IF a >= b THEN a ELSE b
<1>1. \A x \in {a, b} : (\A y \in {a, b} : x >= y) <=> x = IF a >= b THEN a ELSE b
  OBVIOUS
<1> QED BY <1>1 DEF Max

LEMMA BlameStays ==
    ASSUME NEW causes, NEW cause
    PROVE  Blamed(causes, cause) # {}
BY DEF Blamed

AnnCaches == [data : SUBSET Nat, fetch : {"none", "sent", "answered"}, result : SUBSET Nat]

LEMMA InvalidatedAsks ==
    ASSUME NEW c \in AnnCaches
    PROVE  /\ Invalidated(c) \in AnnCaches
           /\ ~JoinsOlder(c) => Invalidated(c).fetch = "sent"
           /\ Invalidated(c).result \subseteq c.result
BY DEF Invalidated, Refetched, JoinsOlder, Fetching, AnnCaches

\* Nothing is newer than the newest version, and who is offline is sent nothing.
AnnOK ==
    /\ annScreen \in Screens
    /\ \A r \in Requests : annRequest[r].version <= annVersion
    /\ annOnline \in BOOLEAN
    /\ annChannel \in Seq(Nat)
    /\ ~annOnline => annChannel = <<>>
    /\ annCache \in AnnCaches
    /\ \A v \in annCache.result : v <= annVersion
    /\ annEmitted \in Nat /\ annEmitted <= annVersion
    /\ annHeard \in Nat

WillAnnounce(r) == Announces(annRequest[r].left, annScreen)

\* Unless something is to blame, a screen that refetches shows the newest, is
\* about to be answered with it, or has an announcement before it.
RefetchInv ==
    annScreen # "providers" /\ annCauses = {} =>
      \/ /\ annCache.fetch = "none" => annCache.data \subseteq {annVersion}
         /\ annCache.fetch = "answered" => annCache.result \subseteq {annVersion}
      \/ ~annOnline
      \/ annChannel # <<>>
      \/ \E r \in Requests : WillAnnounce(r)

NewestPending == \E r \in Requests : WillAnnounce(r) /\ annRequest[r].version = annVersion

\* What the provider list will show once it has heard all there is.  An answer
\* older than what it has heard is to blame when it arrives.
PatchedToNewest ==
    IF annChannel # <<>> THEN annChannel[Len(annChannel)] = annVersion
    ELSE /\ annCache.fetch = "none" => annCache.data \subseteq {annVersion}
         /\ annCache.fetch = "answered" => \A v \in annCache.result : v = annVersion \/ v < annHeard

\* Unless something is to blame, the newest version of the provider list is
\* still to be announced or was the last announced; if the latter, to a
\* screen that is connected, it is what the screen ends up with.
PatchInv ==
    annScreen = "providers" /\ annCauses = {} =>
      /\ NewestPending \/ annEmitted = annVersion \/ \A r \in Requests : ~WillAnnounce(r)
      /\ annOnline /\ ~NewestPending => PatchedToNewest

AnnouncedInv == AuditInv /\ AnnOK /\ RefetchInv /\ PatchInv

LEMMA AnnouncedInitially ==
    ASSUME NEW screen \in Screens, AnnouncementsStart(screen)
    PROVE  AnnouncedInv
<1>1. AuditInv
  BY AuditInitially
<1>2. \A r \in Requests : annRequest[r] = Done
  BY DEF AnnouncementsStart
<1>3. Done.version = 0 /\ 0 \in Nat /\ Mounted \in AnnCaches /\ Mounted.fetch = "sent" /\ Mounted.result = {}
  BY DEF Done, Mounted, AnnCaches
<1>4. AnnOK
  <2>1. annOnline \in BOOLEAN /\ annChannel = <<>> /\ annCache = Mounted
    BY DEF AnnouncementsStart
  <2>2. /\ annScreen \in Screens /\ annVersion = 0 /\ annEmitted = 0 /\ annHeard = 0
        /\ \A r \in Requests : annRequest[r].version <= annVersion
    BY <1>2, <1>3 DEF AnnouncementsStart
  <2> QED BY <1>3, <2>1, <2>2, EmptySeq DEF AnnOK
<1>5. RefetchInv
  BY <1>3 DEF RefetchInv, AnnouncementsStart
<1>6. PatchInv
  BY <1>2, <1>3, DoneIsWellFormed DEF PatchInv, PatchedToNewest, AnnouncementsStart
<1> QED BY <1>1, <1>4, <1>5, <1>6 DEF AnnouncedInv

LEMMA RestAnnounces ==
    ASSUME NEW steps, NEW guarded \in BOOLEAN, WellFormed(steps, guarded), steps # <<>>, NEW screen
    PROVE  Announces(steps, screen) <=> screen \in Head(steps).screens \/ Announces(Tail(steps), screen)
<1>1. steps \in Seq(PlainSteps \cup {Audit}) /\ Len(steps) \in Nat \ {0} /\ DOMAIN steps = 1 .. Len(steps)
  BY DEF WellFormed
<1>2. /\ Head(steps) = steps[1] /\ DOMAIN Tail(steps) = 1 .. Len(steps) - 1
      /\ \A i \in 1 .. Len(steps) - 1 : Tail(steps)[i] = steps[i + 1]
  BY <1>1
<1>3. ASSUME NEW i \in 2 .. Len(steps)
      PROVE  i - 1 \in DOMAIN Tail(steps) /\ Tail(steps)[i - 1] = steps[i]
  BY <1>1, <1>2
<1>4. ASSUME NEW i \in DOMAIN steps, screen \in steps[i].screens
      PROVE  screen \in Head(steps).screens \/ Announces(Tail(steps), screen)
  <2>1. i = 1 \/ i \in 2 .. Len(steps)
    BY <1>1
  <2>2. CASE i = 1
    BY <1>2, <1>4, <2>2
  <2>3. CASE i \in 2 .. Len(steps)
    <3>1. i - 1 \in DOMAIN Tail(steps) /\ screen \in Tail(steps)[i - 1].screens
      BY <1>3, <1>4, <2>3
    <3> QED BY <3>1 DEF Announces
  <2> QED BY <2>1, <2>2, <2>3
<1>5. ASSUME NEW i \in DOMAIN Tail(steps), screen \in Tail(steps)[i].screens
      PROVE  Announces(steps, screen)
  <2>1. i + 1 \in DOMAIN steps /\ screen \in steps[i + 1].screens
    BY <1>1, <1>2, <1>5
  <2> QED BY <2>1 DEF Announces
<1>6. screen \in Head(steps).screens => Announces(steps, screen)
  <2>1. 1 \in DOMAIN steps
    BY <1>1
  <2> QED BY <1>2, <2>1 DEF Announces
<1> QED BY <1>4, <1>5, <1>6 DEF Announces

\* What a step leaves a request to announce.
LEMMA ProceedAnnounces ==
    ASSUME AuditInv, AnnOK, NEW r \in Requests, annRequest[r].left # <<>>, Proceed(r), annScreen' = annScreen
    PROVE  /\ \A q \in Requests : q # r => annRequest'[q] = annRequest[q]
           /\ annRequest'[r].version \in {0, annRequest[r].version}
           /\ WillAnnounce(r)' => WillAnnounce(r) /\ annRequest'[r].version = annRequest[r].version
           /\ IF annScreen \in NextStep(r).screens THEN WillAnnounce(r)
                                                   ELSE WillAnnounce(r)' <=> WillAnnounce(r)
<1> DEFINE steps == annRequest[r].left
           rest == Tail(steps)
<1>1. /\ annRequest \in [Requests -> AnnRequests] /\ annRequest[r] \in AnnRequests
      /\ WellFormed(steps, annRequest[r].guarded) /\ annRequest[r].guarded \in BOOLEAN
  BY DEF AuditInv, RequestsOK, AnnRequests
<1>2. Announces(steps, annScreen) <=> annScreen \in Head(steps).screens \/ Announces(rest, annScreen)
  BY <1>1, RestAnnounces
<1>3. PICK new : /\ new = IF rest = <<>> THEN Done ELSE [annRequest[r] EXCEPT !.left = rest]
                 /\ annRequest' = [annRequest EXCEPT ![r] = new]
  BY DEF Proceed
<1>4. ~Announces(<<>>, annScreen)
  BY DEF Announces
<1>5. /\ new.left = rest
      /\ rest # <<>> => new.version = annRequest[r].version
      /\ rest = <<>> => new.version = 0
  BY <1>1, <1>3, DoneIsWellFormed DEF AnnRequests, Done
<1>6. annRequest'[r] = new /\ \A q \in Requests : q # r => annRequest'[q] = annRequest[q]
  BY <1>1, <1>3
<1>7. WillAnnounce(r)' <=> Announces(rest, annScreen)
  BY <1>5, <1>6 DEF WillAnnounce
<1>8. WillAnnounce(r) <=> Announces(steps, annScreen)
  BY DEF WillAnnounce
<1> QED BY <1>2, <1>4, <1>5, <1>6, <1>7, <1>8 DEF NextStep


\* A step after which every request has the same to announce as before.
LEMMA AnnouncedAsBefore ==
    ASSUME AnnouncedInv, annCauses' = annCauses,
           \A r \in Requests : /\ WillAnnounce(r)' <=> WillAnnounce(r)
                               /\ WillAnnounce(r) => annRequest'[r].version = annRequest[r].version,
           UNCHANGED <<annScreen, annVersion, annOnline, annChannel, annCache, annEmitted, annHeard>>
    PROVE  RefetchInv' /\ PatchInv'
<1>1. NewestPending' <=> NewestPending
  BY DEF NewestPending
<1>2. PatchedToNewest' <=> PatchedToNewest
  BY DEF PatchedToNewest
<1>3. RefetchInv'
  BY DEF AnnouncedInv, RefetchInv
<1>4. PatchInv'
  BY <1>1, <1>2 DEF AnnouncedInv, PatchInv
<1> QED BY <1>3, <1>4

\* What a committed operation changes it announces, or it is to blame.
LEMMA CommitIsAnnounced ==
    ASSUME AnnouncedInv, NEW r \in Requests, NEW op \in DOMAIN Operation, Commit(r, op)
    PROVE  AnnouncedInv'
<1> DEFINE new == [left |-> Operation[op].after, guarded |-> Operation[op].guarded, version |-> annVersion']
<1>1. AuditInv /\ AuditInv' /\ AnnOK
  BY CommitKeepsAudit DEF AnnouncedInv
<1>2. /\ annRequest' = [annRequest EXCEPT ![r] = new] /\ annRequest[r] = Done
      /\ UNCHANGED <<annScreen, annOnline, annChannel, annCache, annEmitted, annHeard>>
  BY DEF Commit
<1>3. new.left = Operation[op].after /\ new.version = annVersion'
  OBVIOUS
<1> HIDE DEF new
<1>4. /\ annRequest'[r] = new
      /\ \A q \in Requests : q # r => annRequest'[q] = annRequest[q]
  BY <1>1, <1>2 DEF AuditInv, RequestsOK
<1>5. annVersion \in Nat /\ annVersion' \in Nat /\ annVersion' \in {annVersion, annVersion + 1}
  BY <1>1 DEF AuditInv, Commit
<1>6. AnnOK'
  <2>1. \A q \in Requests : annRequest'[q].version <= annVersion'
    <3>1. \A q \in Requests : annRequest[q].version \in Nat /\ annRequest[q].version <= annVersion
      BY <1>1 DEF AnnOK, AuditInv, RequestsOK, AnnRequests
    <3>2. \A n \in Nat : n <= annVersion => n <= annVersion'
      BY <1>5
    <3>3. annRequest'[r].version <= annVersion'
      BY <1>3, <1>4, <1>5
    <3> QED BY <1>4, <3>1, <3>2, <3>3
  <2>2. (\A v \in annCache.result : v <= annVersion') /\ annEmitted <= annVersion'
    BY <1>1, <1>5 DEF AnnOK, AnnCaches
  <2> QED BY <1>1, <1>2, <2>1, <2>2 DEF AnnOK
<1>7. ~WillAnnounce(r)
  BY <1>2, DoneIsWellFormed DEF WillAnnounce, Announces, Done
<1>8. ASSUME annCauses' = {}
      PROVE  annCauses = {} /\ (annScreen \in Operation[op].changes => Announces(new.left, annScreen))
  <2>1. annCauses = {} /\ op \notin Silent[annScreen]
    BY <1>8, BlameStays DEF Commit
  <2> QED BY <1>1, <1>3, <2>1, OperationsHold DEF OperationHolds, AnnOK
<1>9. WillAnnounce(r)' <=> Announces(new.left, annScreen)
  BY <1>2, <1>4 DEF WillAnnounce
<1>10. \A q \in Requests : q # r => (WillAnnounce(q)' <=> WillAnnounce(q))
  BY <1>2, <1>4 DEF WillAnnounce
<1>11. CASE annScreen \in Operation[op].changes
  <2>1. annCauses' = {} => WillAnnounce(r)' /\ annRequest'[r].version = annVersion'
    BY <1>3, <1>4, <1>8, <1>9, <1>11
  <2>2. annCauses' = {} => NewestPending'
    BY <2>1 DEF NewestPending
  <2> QED BY <1>1, <1>6, <2>1, <2>2 DEF AnnouncedInv, RefetchInv, PatchInv
<1>12. CASE annScreen \notin Operation[op].changes
  <2>1. annVersion' = annVersion
    BY <1>12 DEF Commit
  <2>2. NewestPending => NewestPending'
    BY <1>4, <1>7, <1>10, <2>1 DEF NewestPending
  <2>3. PatchedToNewest' <=> PatchedToNewest
    BY <1>2, <2>1 DEF PatchedToNewest
  <2>4. WillAnnounce(r)' => NewestPending'
    BY <1>3, <1>4 DEF NewestPending
  <2>5. RefetchInv'
    BY <1>2, <1>7, <1>8, <1>10, <2>1 DEF AnnouncedInv, RefetchInv
  <2>6. PatchInv'
    BY <1>2, <1>7, <1>8, <1>10, <2>1, <2>2, <2>3, <2>4 DEF AnnouncedInv, PatchInv
  <2> QED BY <1>1, <1>6, <2>5, <2>6 DEF AnnouncedInv
<1> QED BY <1>11, <1>12

\* After a step of a request nothing it has left is newer than before.
LEMMA ProceedKeepsVersions ==
    ASSUME AuditInv, AnnOK, NEW r \in Requests, annRequest[r].left # <<>>, Proceed(r),
           annScreen' = annScreen, annVersion' = annVersion
    PROVE  \A q \in Requests : annRequest'[q].version <= annVersion'
<1>1. annRequest'[r].version \in {0, annRequest[r].version}
      /\ \A q \in Requests : q # r => annRequest'[q] = annRequest[q]
  BY ProceedAnnounces
<1>2. annVersion \in Nat /\ \A q \in Requests : annRequest[q].version <= annVersion
  BY DEF AuditInv, AnnOK
<1>3. annRequest'[r].version <= annVersion
  BY <1>1, <1>2
<1> QED BY <1>1, <1>2, <1>3

\* A step that is no announcement to the screen.
LEMMA OtherStepsAnnounceNothing ==
    ASSUME AnnouncedInv, NEW r \in Requests, annRequest[r].left # <<>>, Proceed(r),
           annScreen \notin NextStep(r).screens, AuditInv', annCauses' = annCauses,
           UNCHANGED <<annScreen, annVersion, annOnline, annChannel, annCache, annEmitted, annHeard>>
    PROVE  AnnouncedInv'
<1>1. AuditInv /\ AnnOK
  BY DEF AnnouncedInv
<1>2. \A q \in Requests : annRequest'[q].version <= annVersion'
  BY <1>1, ProceedKeepsVersions
<1>3. AnnOK'
  BY <1>1, <1>2 DEF AnnOK
<1>4. /\ \A q \in Requests : q # r => annRequest'[q] = annRequest[q]
      /\ WillAnnounce(r)' <=> WillAnnounce(r)
      /\ WillAnnounce(r) => annRequest'[r].version = annRequest[r].version
  BY <1>1, ProceedAnnounces
<1>5. \A q \in Requests : /\ WillAnnounce(q)' <=> WillAnnounce(q)
                          /\ WillAnnounce(q) => annRequest'[q].version = annRequest[q].version
  BY <1>4 DEF WillAnnounce
<1>6. RefetchInv' /\ PatchInv'
  BY <1>5, AnnouncedAsBefore
<1> QED BY <1>3, <1>6 DEF AnnouncedInv


\* An announcement takes its place behind those already on their way; a newer
\* one that has overtaken it is to blame.
LEMMA EmitKeepsAnnounced ==
    ASSUME AnnouncedInv, NEW r \in Requests, Emit(r)
    PROVE  AnnouncedInv'
<1> DEFINE v == annRequest[r].version
<1>1. /\ AuditInv /\ AnnOK /\ annRequest[r].left # <<>> /\ Proceed(r) /\ NextStep(r) # Audit
      /\ UNCHANGED <<annScreen, annVersion, annOnline, annCache, annHeard, annAudit>>
  BY DEF AnnouncedInv, Emit, Audit
<1>2. AuditInv'
  BY <1>1, ProceedKeepsRequests, AuditUntouched
<1>3. CASE annScreen \notin NextStep(r).screens
  <2>1. UNCHANGED <<annChannel, annEmitted, annCauses>>
    BY <1>3 DEF Emit
  <2> QED BY <1>1, <1>2, <1>3, <2>1, OtherStepsAnnounceNothing
<1>4. CASE annScreen \in NextStep(r).screens
  <2>1. /\ annChannel' = IF annOnline THEN Append(annChannel, v) ELSE annChannel
        /\ annEmitted' = Max({annEmitted, v})
        /\ annCauses' = IF annScreen = "providers" /\ v < annEmitted THEN Blamed(annCauses, "crossed") ELSE annCauses
    BY <1>4 DEF Emit
  <2>2. v \in Nat /\ v <= annVersion /\ annVersion \in Nat /\ annEmitted \in Nat /\ annEmitted <= annVersion
    BY <1>1 DEF AuditInv, RequestsOK, AnnRequests, AnnOK
  <2>3. annEmitted' = IF annEmitted >= v THEN annEmitted ELSE v
    BY <2>1, <2>2, MaxOfTwo
  <2>4. annChannel \in Seq(Nat) /\ (~annOnline => annChannel = <<>>) /\ annOnline \in BOOLEAN
    BY <1>1 DEF AnnOK
  <2>5. /\ annChannel' \in Seq(Nat)
        /\ annOnline => annChannel' # <<>> /\ annChannel'[Len(annChannel')] = v
        /\ ~annOnline => annChannel' = <<>>
    BY <2>1, <2>2, <2>4
  <2>6. \A q \in Requests : annRequest'[q].version <= annVersion'
    BY <1>1, ProceedKeepsVersions
  <2>7. AnnOK'
    <3>1. annEmitted' \in Nat /\ annEmitted' <= annVersion'
      BY <1>1, <2>2, <2>3
    <3> QED BY <1>1, <2>5, <2>6, <3>1 DEF AnnOK
  <2>8. /\ \A q \in Requests : q # r => annRequest'[q] = annRequest[q]
        /\ WillAnnounce(r)
        /\ WillAnnounce(r)' => annRequest'[r].version = v
    BY <1>1, <1>4, ProceedAnnounces
  <2>9. \A q \in Requests : q # r => (WillAnnounce(q)' <=> WillAnnounce(q))
    BY <1>1, <2>8 DEF WillAnnounce
  <2>10. RefetchInv'
    BY <1>1, <2>4, <2>5 DEF RefetchInv
  <2>11. ASSUME annScreen = "providers", annCauses' = {}
         PROVE  /\ NewestPending' \/ annEmitted' = annVersion \/ \A q \in Requests : ~WillAnnounce(q)'
                /\ annOnline /\ ~NewestPending' => PatchedToNewest'
    <3>1. ~(v < annEmitted) /\ annCauses = {}
      BY <2>1, <2>11, BlameStays
    <3>2. annEmitted' = v
      BY <2>2, <2>3, <3>1
    <3>3. CASE v = annVersion
      BY <1>1, <2>5, <3>2, <3>3 DEF PatchedToNewest
    <3>4. CASE v # annVersion
      <4>1. annEmitted # annVersion
        BY <2>2, <3>1, <3>4
      <4>2. NewestPending
        BY <2>8, <2>11, <3>1, <4>1 DEF AnnouncedInv, PatchInv
      <4>3. NewestPending'
        BY <1>1, <2>8, <2>9, <3>4, <4>2 DEF NewestPending
      <4> QED BY <4>3
    <3> QED BY <3>3, <3>4
  <2>12. PatchInv'
    BY <1>1, <2>11 DEF PatchInv
  <2> QED BY <1>2, <2>7, <2>10, <2>12 DEF AnnouncedInv
<1> QED BY <1>3, <1>4

\* Only announcements reach a screen.
LEMMA QueriesReachNoScreen ==
    ASSUME AuditInv, NEW r \in Requests, annRequest[r].left # <<>>,
           NextStep(r).kind \in Queries \cup {"audit"}, Proceed(r), NEW screen
    PROVE  screen \notin NextStep(r).screens
<1>1. NextStep(r) \in PlainSteps \cup {Audit}
  BY ProceedKeepsRequests
<1> QED BY <1>1 DEF PlainSteps, Audit, Queries

\* A queue request that fails loses its announcements, which is to blame.
LEMMA FailureKeepsAnnounced ==
    ASSUME AnnouncedInv, NEW r \in Requests, StepFails(r)
    PROVE  AnnouncedInv'
<1>1. /\ AuditInv /\ AnnOK /\ annRequest[r].left # <<>> /\ NextStep(r).kind \in Queries
      /\ UNCHANGED <<annScreen, annVersion, annOnline, annChannel, annCache, annEmitted, annHeard>>
  BY DEF AnnouncedInv, StepFails
<1>2. AuditInv'
  BY <1>1, FailureKeepsAudit
<1>3. CASE annRequest[r].guarded
  <2>1. Proceed(r) /\ annCauses' = annCauses
    BY <1>3 DEF StepFails
  <2>2. annScreen \notin NextStep(r).screens
    BY <1>1, <2>1, QueriesReachNoScreen
  <2> QED BY <1>1, <1>2, <2>1, <2>2, OtherStepsAnnounceNothing
<1>4. CASE ~annRequest[r].guarded
  <2>1. annRequest' = [annRequest EXCEPT ![r] = Done]
    BY <1>4 DEF StepFails
  <2>2. annRequest'[r] = Done /\ \A q \in Requests : q # r => annRequest'[q] = annRequest[q]
    BY <1>1, <2>1 DEF AuditInv, RequestsOK
  <2>3. AnnOK'
    <3>1. Done.version = 0 /\ annVersion \in Nat
      BY <1>1 DEF Done, AuditInv
    <3>2. \A q \in Requests : annRequest'[q].version <= annVersion'
      BY <1>1, <2>2, <3>1 DEF AnnOK
    <3> QED BY <1>1, <3>2 DEF AnnOK
  <2>4. CASE WillAnnounce(r)
    <3>1. annCauses' # {}
      BY <1>4, <2>4, BlameStays DEF StepFails, WillAnnounce, Announces
    <3> QED BY <1>2, <2>3, <3>1 DEF AnnouncedInv, RefetchInv, PatchInv
  <2>5. CASE ~WillAnnounce(r)
    <3>1. annCauses' = annCauses
      BY <2>5 DEF StepFails, WillAnnounce, Announces
    <3>2. ~WillAnnounce(r)'
      BY <2>2, DoneIsWellFormed DEF WillAnnounce, Announces, Done
    <3>3. \A q \in Requests : /\ WillAnnounce(q)' <=> WillAnnounce(q)
                              /\ WillAnnounce(q) => annRequest'[q].version = annRequest[q].version
      BY <1>1, <2>2, <2>5, <3>2 DEF WillAnnounce
    <3>4. RefetchInv' /\ PatchInv'
      BY <1>1, <3>1, <3>3, AnnouncedAsBefore
    <3> QED BY <1>2, <2>3, <3>4 DEF AnnouncedInv
  <2> QED BY <2>4, <2>5
<1> QED BY <1>3, <1>4


\* The server that stops closes every connection and forgets what was left.
LEMMA RestartKeepsAnnounced ==
    ASSUME AnnouncedInv, ServerRestarts
    PROVE  AnnouncedInv'
<1>1. /\ AuditInv' /\ AnnOK /\ annVersion \in Nat
  BY RestartKeepsAudit DEF AnnouncedInv, AuditInv
<1>2. /\ \A r \in Requests : annRequest'[r] = Done
      /\ annOnline' = FALSE /\ annChannel' = <<>>
      /\ UNCHANGED <<annScreen, annVersion, annCache, annEmitted, annHeard, annCauses>>
  BY DEF ServerRestarts
<1>3. AnnOK'
  <2>1. annOnline' \in BOOLEAN
    BY <1>2
  <2>2. Done.version = 0
    BY DEF Done
  <2>3. \A r \in Requests : annRequest'[r].version <= annVersion'
    BY <1>1, <1>2, <2>2
  <2> QED BY <1>1, <1>2, <2>1, <2>3, EmptySeq DEF AnnOK
<1>4. \A r \in Requests : ~WillAnnounce(r)'
  BY <1>2, DoneIsWellFormed DEF WillAnnounce, Announces, Done
<1>5. RefetchInv'
  BY <1>2 DEF RefetchInv
<1>6. PatchInv'
  BY <1>2, <1>4 DEF PatchInv
<1> QED BY <1>1, <1>3, <1>5, <1>6 DEF AnnouncedInv

\* What the steps of the screen and its query leave alone.
Server == <<annScreen, annVersion, annRequest, annEmitted, annAudit>>

LEMMA ServerAsBefore ==
    ASSUME AuditInv, UNCHANGED Server
    PROVE  /\ AuditInv'
           /\ \A r \in Requests : WillAnnounce(r)' <=> WillAnnounce(r)
           /\ NewestPending' <=> NewestPending
<1>1. AuditInv'
  BY DEF Server, AuditInv, RequestsOK, OwingAudit
<1>2. \A r \in Requests : WillAnnounce(r)' <=> WillAnnounce(r)
  BY DEF Server, WillAnnounce
<1>3. NewestPending' <=> NewestPending
  BY <1>2 DEF Server, NewestPending
<1> QED BY <1>1, <1>2, <1>3

LEMMA AnswerKeepsAnnounced ==
    ASSUME AnnouncedInv, AnswerQuery
    PROVE  AnnouncedInv'
<1>1. /\ AuditInv /\ AnnOK /\ annVersion \in Nat
      /\ UNCHANGED Server /\ UNCHANGED <<annOnline, annChannel, annHeard, annCauses>>
  BY DEF AnnouncedInv, AuditInv, AnswerQuery, Server
<1>2. annCache' = Answered(annCache, annVersion)
  BY DEF AnswerQuery
<1>3. annCache' \in AnnCaches /\ annCache'.fetch = "answered" /\ annCache'.result = {annVersion}
  BY <1>1, <1>2 DEF Answered, AnnCaches, AnnOK
<1>4. AnnOK'
  BY <1>1, <1>3 DEF AnnOK, Server
<1>5. RefetchInv'
  BY <1>1, <1>3 DEF RefetchInv, Server
<1>6. annChannel = <<>> => PatchedToNewest'
  BY <1>1, <1>3 DEF PatchedToNewest, Server
<1>7. annChannel # <<>> => (PatchedToNewest' <=> PatchedToNewest)
  BY <1>1 DEF PatchedToNewest, Server
<1>8. PatchInv'
  BY <1>1, <1>6, <1>7, ServerAsBefore DEF AnnouncedInv, PatchInv, Server
<1> QED BY <1>1, <1>4, <1>5, <1>8, ServerAsBefore DEF AnnouncedInv

\* An answer that is older than what the provider list has heard is to blame;
\* one that is the newest, with nothing on its way, makes good.
LEMMA DeliveryKeepsAnnounced ==
    ASSUME AnnouncedInv, DeliverAnswer
    PROVE  AnnouncedInv'
<1>1. /\ AuditInv /\ AnnOK /\ annVersion \in Nat
      /\ UNCHANGED Server /\ UNCHANGED <<annOnline, annChannel, annHeard>>
      /\ annCache.fetch = "answered" /\ annCache \in AnnCaches
  BY DEF AnnouncedInv, AuditInv, DeliverAnswer, Server, AnnOK
<1>2. annCache' = Delivered(annCache)
  BY DEF DeliverAnswer
<1>3. /\ annCache' \in AnnCaches /\ annCache'.fetch = "none"
      /\ annCache'.data = annCache.result /\ annCache'.result = {}
  BY <1>1, <1>2 DEF Delivered, AnnCaches
<1>4. AnnOK'
  BY <1>1, <1>3 DEF AnnOK, Server
<1>5. AuditInv' /\ (NewestPending' <=> NewestPending)
      /\ \A r \in Requests : WillAnnounce(r)' <=> WillAnnounce(r)
  BY <1>1, ServerAsBefore
<1>6. CASE annAtRest /\ annCache.result = {annVersion}
  <2>1. \A r \in Requests : ~WillAnnounce(r)
    BY <1>6, DoneIsWellFormed DEF annAtRest, WillAnnounce, Announces, Done
  <2>2. annCache'.data \subseteq {annVersion'} /\ annChannel' = <<>>
    BY <1>1, <1>3, <1>6 DEF annAtRest, Server
  <2>3. RefetchInv'
    BY <1>1, <1>3, <2>2 DEF RefetchInv, Server
  <2>4. PatchedToNewest'
    BY <1>3, <2>2 DEF PatchedToNewest
  <2>5. PatchInv'
    BY <1>5, <2>1, <2>4 DEF PatchInv
  <2> QED BY <1>4, <1>5, <2>3, <2>5 DEF AnnouncedInv
<1>7. CASE ~(annAtRest /\ annCache.result = {annVersion})
  <2>1. annCauses' = IF annScreen = "providers" /\ \E v \in annCache.result : v < annHeard
                     THEN Blamed(annCauses, "overtaken") ELSE annCauses
    BY <1>7 DEF DeliverAnswer
  <2>2. annCauses' = {} => annCauses = {} /\ (annScreen = "providers" => \A v \in annCache.result : ~(v < annHeard))
    BY <2>1, BlameStays
  <2>3. RefetchInv'
    BY <1>1, <1>3, <1>5, <2>2 DEF AnnouncedInv, RefetchInv, Server
  <2>4. annCauses' = {} /\ annScreen = "providers" /\ PatchedToNewest => PatchedToNewest'
    BY <1>1, <1>3, <2>2 DEF PatchedToNewest, Server
  <2>5. PatchInv'
    BY <1>1, <1>5, <2>2, <2>4 DEF AnnouncedInv, PatchInv, Server
  <2> QED BY <1>4, <1>5, <2>3, <2>5 DEF AnnouncedInv
<1> QED BY <1>6, <1>7

LEMMA QueryFailureKeepsAnnounced ==
    ASSUME AnnouncedInv, QueryFails
    PROVE  AnnouncedInv'
<1>1. /\ AuditInv /\ AnnOK /\ annCache \in AnnCaches
      /\ UNCHANGED Server /\ UNCHANGED <<annOnline, annChannel, annHeard>>
      /\ annCache' = GaveUp(annCache) /\ annCauses' # {}
  BY BlameStays DEF AnnouncedInv, QueryFails, Server, AnnOK
<1>2. annCache' \in AnnCaches /\ annCache'.result = {}
  BY <1>1 DEF GaveUp, AnnCaches
<1>3. AnnOK'
  BY <1>1, <1>2 DEF AnnOK, Server
<1> QED BY <1>1, <1>3, ServerAsBefore DEF AnnouncedInv, RefetchInv, PatchInv

\* A patched list shows what it has heard last; another screen refetches.
LEMMA HearingKeepsAnnounced ==
    ASSUME AnnouncedInv, Hear
    PROVE  AnnouncedInv'
<1> DEFINE v == Head(annChannel)
<1>1. /\ AuditInv /\ AnnOK /\ annVersion \in Nat /\ annCache \in AnnCaches /\ annChannel # <<>>
      /\ UNCHANGED Server /\ UNCHANGED annOnline
  BY DEF AnnouncedInv, AuditInv, Hear, Server, AnnOK
<1>2. annChannel \in Seq(Nat) /\ v \in Nat /\ annHeard \in Nat /\ (~annOnline => annChannel = <<>>)
  BY <1>1 DEF AnnOK
<1>3. annHeard' = IF annHeard >= v THEN annHeard ELSE v
  BY <1>2, MaxOfTwo DEF Hear
<1>4. annHeard' \in Nat /\ annHeard' >= v
  BY <1>2, <1>3
<1>5. annChannel' = Tail(annChannel) /\ annChannel' \in Seq(Nat)
  BY <1>1, <1>2 DEF Hear
<1>6. /\ annChannel' = <<>> => annChannel[Len(annChannel)] = v
      /\ annChannel' # <<>> => annChannel'[Len(annChannel')] = annChannel[Len(annChannel)]
  <2>1. Len(annChannel) \in Nat \ {0} /\ Len(annChannel') = Len(annChannel) - 1
        /\ \A i \in 1 .. Len(annChannel) - 1 : annChannel'[i] = annChannel[i + 1]
    BY <1>1, <1>2, <1>5
  <2>2. annChannel' = <<>> => Len(annChannel) = 1
    BY <2>1
  <2>3. annChannel' # <<>> => Len(annChannel') \in 1 .. Len(annChannel) - 1
    BY <1>5, <2>1
  <2> QED BY <1>2, <2>1, <2>2, <2>3
<1>7. CASE annScreen = "providers"
  <2>1. annCache' = IF annCache.data = {} THEN annCache ELSE WithData(annCache, v)
    BY <1>7 DEF Hear
  <2>2. annCauses' = annCauses
    BY <1>7 DEF Hear
  <2>3. /\ annCache' \in AnnCaches /\ annCache'.result = annCache.result /\ annCache'.fetch = annCache.fetch
        /\ annCache'.data \subseteq {v}
    BY <1>1, <1>2, <2>1 DEF WithData, AnnCaches
  <2>4. AnnOK'
    BY <1>1, <1>4, <1>5, <2>3 DEF AnnOK, Server
  <2>5. PatchedToNewest => PatchedToNewest'
    <3>1. SUFFICES ASSUME annChannel[Len(annChannel)] = annVersion PROVE PatchedToNewest'
      BY <1>1 DEF PatchedToNewest
    <3>2. CASE annChannel' # <<>>
      BY <1>1, <1>6, <3>1, <3>2 DEF PatchedToNewest, Server
    <3>3. CASE annChannel' = <<>>
      <4>1. v = annVersion
        BY <1>6, <3>1, <3>3
      <4>2. annCache'.data \subseteq {annVersion}
        BY <2>3, <4>1
      <4>3. \A w \in annCache'.result : w = annVersion \/ w < annHeard'
        BY <1>1, <1>4, <2>3, <4>1 DEF AnnOK, AnnCaches
      <4> QED BY <1>1, <3>3, <4>2, <4>3 DEF PatchedToNewest, Server
    <3> QED BY <3>2, <3>3
  <2>6. PatchInv'
    BY <1>1, <2>2, <2>5, ServerAsBefore DEF AnnouncedInv, PatchInv, Server
  <2>7. RefetchInv'
    BY <1>1, <1>7 DEF RefetchInv, Server
  <2> QED BY <1>1, <2>4, <2>6, <2>7, ServerAsBefore DEF AnnouncedInv
<1>8. CASE annScreen # "providers"
  <2>1. annCache' = Invalidated(annCache) /\ (annCauses' = {} => ~JoinsOlder(annCache))
    BY <1>8, BlameStays DEF Hear, RefetchScreen
  <2>2. annCache' \in AnnCaches /\ annCache'.result \subseteq annCache.result
        /\ (annCauses' = {} => annCache'.fetch = "sent")
    BY <1>1, <2>1, InvalidatedAsks
  <2>3. AnnOK'
    BY <1>1, <1>2, <1>4, <1>5, <2>2 DEF AnnOK, Server
  <2>4. RefetchInv'
    BY <2>2 DEF RefetchInv
  <2>5. PatchInv'
    BY <1>1, <1>8 DEF PatchInv, Server
  <2> QED BY <1>1, <2>3, <2>4, <2>5, ServerAsBefore DEF AnnouncedInv
<1> QED BY <1>7, <1>8

\* Who connects asks again.
LEMMA ConnectionKeepsAnnounced ==
    ASSUME AnnouncedInv, GoOnline
    PROVE  AnnouncedInv'
<1>1. /\ AuditInv /\ AnnOK /\ annCache \in AnnCaches /\ annChannel = <<>>
      /\ UNCHANGED Server /\ UNCHANGED <<annChannel, annHeard>>
  BY DEF AnnouncedInv, GoOnline, Server, AnnOK
<1>2. annCache' = Invalidated(annCache) /\ (annCauses' = {} => annCauses = {} /\ ~JoinsOlder(annCache))
  BY BlameStays DEF GoOnline, RefetchScreen
<1>3. annCache' \in AnnCaches /\ annCache'.result \subseteq annCache.result
      /\ (annCauses' = {} => annCache'.fetch = "sent")
  BY <1>1, <1>2, InvalidatedAsks
<1>4. AnnOK'
  <2>1. annOnline' \in BOOLEAN
    BY DEF GoOnline
  <2> QED BY <1>1, <1>3, <2>1 DEF AnnOK, Server
<1>5. RefetchInv'
  BY <1>3 DEF RefetchInv
<1>6. annCauses' = {} => PatchedToNewest'
  BY <1>1, <1>3 DEF PatchedToNewest
<1>7. PatchInv'
  BY <1>1, <1>2, <1>6, ServerAsBefore DEF AnnouncedInv, PatchInv, Server
<1> QED BY <1>1, <1>4, <1>5, <1>7, ServerAsBefore DEF AnnouncedInv

LEMMA DisconnectionKeepsAnnounced ==
    ASSUME AnnouncedInv, GoOffline
    PROVE  AnnouncedInv'
<1>1. /\ AuditInv /\ AnnOK /\ annOnline' = FALSE /\ annChannel' = <<>>
      /\ UNCHANGED Server /\ UNCHANGED <<annCache, annHeard, annCauses>>
  BY DEF AnnouncedInv, GoOffline, Server
<1>2. AnnOK'
  <2>1. annOnline' \in BOOLEAN
    BY <1>1
  <2> QED BY <1>1, <2>1, EmptySeq DEF AnnOK, Server
<1>3. RefetchInv'
  BY <1>1 DEF RefetchInv
<1>4. PatchInv'
  BY <1>1, ServerAsBefore DEF AnnouncedInv, PatchInv, Server
<1> QED BY <1>1, <1>2, <1>3, <1>4, ServerAsBefore DEF AnnouncedInv

LEMMA AnnouncedStays ==
    ASSUME AnnouncedInv, [AnnouncementsNext]_annVars
    PROVE  AnnouncedInv'
<1>0. AuditInv /\ AuditInv'
  BY AuditStays DEF AnnouncedInv
<1>1. ASSUME NEW r \in Requests, NEW op \in DOMAIN Operation, Commit(r, op) PROVE AnnouncedInv'
  BY <1>1, CommitIsAnnounced
<1>2. ASSUME NEW r \in Requests, Emit(r) PROVE AnnouncedInv'
  BY <1>2, EmitKeepsAnnounced
<1>3. ASSUME NEW r \in Requests, StepSucceeds(r) PROVE AnnouncedInv'
  <2>1. /\ annRequest[r].left # <<>> /\ NextStep(r).kind \in Queries /\ Proceed(r) /\ annCauses' = annCauses
        /\ UNCHANGED <<annScreen, annVersion, annOnline, annChannel, annCache, annEmitted, annHeard>>
    BY <1>3 DEF StepSucceeds
  <2> QED BY <1>0, <2>1, QueriesReachNoScreen, OtherStepsAnnounceNothing
<1>4. ASSUME NEW r \in Requests, StepFails(r) PROVE AnnouncedInv'
  BY <1>4, FailureKeepsAnnounced
<1>5. ASSUME NEW r \in Requests, NEW succeeds \in BOOLEAN, RecordAudit(r, succeeds) PROVE AnnouncedInv'
  <2>1. /\ annRequest[r].left # <<>> /\ NextStep(r).kind = "audit" /\ Proceed(r) /\ annCauses' = annCauses
        /\ UNCHANGED <<annScreen, annVersion, annOnline, annChannel, annCache, annEmitted, annHeard>>
    BY <1>5 DEF RecordAudit
  <2> QED BY <1>0, <2>1, QueriesReachNoScreen, OtherStepsAnnounceNothing
<1>6. CASE ServerRestarts
  BY <1>6, RestartKeepsAnnounced
<1>7. CASE AnswerQuery
  BY <1>7, AnswerKeepsAnnounced
<1>8. CASE DeliverAnswer
  BY <1>8, DeliveryKeepsAnnounced
<1>9. CASE QueryFails
  BY <1>9, QueryFailureKeepsAnnounced
<1>10. CASE Hear
  BY <1>10, HearingKeepsAnnounced
<1>11. CASE GoOnline
  BY <1>11, ConnectionKeepsAnnounced
<1>12. CASE GoOffline
  BY <1>12, DisconnectionKeepsAnnounced
<1>13. CASE UNCHANGED annVars
  <2>1. AnnOK'
    BY <1>13 DEF annVars, AnnouncedInv, AnnOK
  <2>2. \A r \in Requests : WillAnnounce(r)' <=> WillAnnounce(r)
    BY <1>13 DEF annVars, WillAnnounce
  <2>3. RefetchInv' /\ PatchInv'
    BY <1>13, <2>2, AnnouncedAsBefore DEF annVars
  <2> QED BY <1>0, <2>1, <2>3 DEF AnnouncedInv
<1> QED BY <1>1, <1>2, <1>3, <1>4, <1>5, <1>6, <1>7, <1>8, <1>9, <1>10, <1>11, <1>12, <1>13
        DEF AnnouncementsNext

\* Once nothing is on its way, a connected screen shows what the database has,
\* unless one of the listed races or failures is to blame (the notify calls
\* after the controllers' answers, the web's socket handlers), for every
\* number of requests at work.
THEOREM AnnouncedScreensAreCurrent == AnnouncementsSpec => []AnnouncedScreenIsCurrent
<1>1. ASSUME AnnouncedInv PROVE AnnouncedScreenIsCurrent
  <2> SUFFICES ASSUME annAtRest, annOnline, ~Fetching(annCache), annCauses = {}
               PROVE  annCache.data \subseteq {annVersion}
    BY DEF AnnouncedScreenIsCurrent
  <2>1. \A r \in Requests : ~WillAnnounce(r)
    BY DoneIsWellFormed DEF annAtRest, WillAnnounce, Announces, Done
  <2>2. annCache.fetch = "none" /\ annChannel = <<>>
    BY DEF Fetching, annAtRest
  <2>3. CASE annScreen = "providers"
    BY <1>1, <2>1, <2>2, <2>3 DEF AnnouncedInv, PatchInv, NewestPending, PatchedToNewest
  <2>4. CASE annScreen # "providers"
    BY <1>1, <2>1, <2>2, <2>4 DEF AnnouncedInv, RefetchInv
  <2> QED BY <2>3, <2>4
<1>2. (\E screen \in Screens : AnnouncementsStart(screen)) => AnnouncedInv
  BY AnnouncedInitially
<1> QED BY <1>1, <1>2, AnnouncedStays, PTL DEF AnnouncementsSpec


-----------------------------------------------------------------------------
(* The almost-your-turn message.                                           *)

InboxRows == [state : {"unread", "read", "deleted"}, almost : BOOLEAN]

InboxWriters == [phase : {"idle", "wanted", "enabled", "inserted"}, almost : BOOLEAN, id : Nat, version : Nat]

\* The user's almost-your-turn messages of the entry, and who is about to
\* create one.
AlmostRows == {id \in DOMAIN inbRows : inbRows[id].almost /\ inbRows[id].state # "deleted"}

AlmostWriters == {r \in Writers : inbWriter[r].phase \in {"wanted", "enabled"} /\ inbWriter[r].almost}

InboxOK == /\ inbRows \in Seq(InboxRows)
           /\ inbWriter \in [Writers -> InboxWriters]
           /\ inbVersion \in Nat
           /\ inbOverlap \in BOOLEAN

\* Unless two checks have overlapped: one message, or one request that is
\* about to create it, and never both.
OneOfBoth ==
    ~inbOverlap => /\ \A id, other \in AlmostRows : id = other
                   /\ \A r, q \in AlmostWriters : r = q
                   /\ AlmostWriters = {} \/ AlmostRows = {}

AlmostInv == InboxOK /\ OneOfBoth

LEMMA NoWriterIsAWriter == NoWriter \in InboxWriters /\ NoWriter.phase = "idle"
BY DEF NoWriter, InboxWriters

LEMMA AlmostInitially ==
    ASSUME NEW view, InboxStart(view)
    PROVE  AlmostInv
<1>1. inbRows = <<>> /\ inbVersion = 0 /\ inbOverlap \in BOOLEAN /\ inbWriter = [r \in Writers |-> NoWriter]
  BY DEF InboxStart
<1>2. InboxOK
  BY <1>1, NoWriterIsAWriter, EmptySeq DEF InboxOK
<1>3. AlmostWriters = {} /\ AlmostRows = {}
  BY <1>1, NoWriterIsAWriter DEF AlmostWriters, AlmostRows
<1> QED BY <1>2, <1>3 DEF AlmostInv, OneOfBoth

\* A step that creates no message and no wish for one.
LEMMA AlmostFewer ==
    ASSUME AlmostInv, InboxOK', inbOverlap' = inbOverlap,
           AlmostRows' \subseteq AlmostRows, AlmostWriters' \subseteq AlmostWriters
    PROVE  AlmostInv'
<1>1. ~inbOverlap' => ~inbOverlap
  OBVIOUS
<1> QED BY <1>1 DEF AlmostInv, OneOfBoth

\* What one request's next phase does to the requests.
LEMMA OneWriterMoves ==
    ASSUME InboxOK, NEW r \in Writers, NEW new \in InboxWriters, inbWriter' = [inbWriter EXCEPT ![r] = new]
    PROVE  /\ inbWriter' \in [Writers -> InboxWriters]
           /\ AlmostWriters' = IF new.phase \in {"wanted", "enabled"} /\ new.almost
                               THEN AlmostWriters \cup {r} ELSE AlmostWriters \ {r}
BY DEF InboxOK, AlmostWriters

LEMMA CheckKeepsAlmost ==
    ASSUME AlmostInv, NEW r \in Writers, CheckAlmostTurn(r)
    PROVE  AlmostInv'
<1>1. PICK new : new = [NoWriter EXCEPT !.phase = "wanted", !.almost = TRUE]
  OBVIOUS
<1>2. new \in InboxWriters /\ new.phase = "wanted" /\ new.almost
  BY <1>1 DEF NoWriter, InboxWriters
<1>3. /\ inbWriter' = [inbWriter EXCEPT ![r] = new]
      /\ UNCHANGED <<inbRows, inbVersion>> /\ ~AlreadyNotified
  BY <1>1 DEF CheckAlmostTurn
<1>4. inbOverlap' = (inbOverlap \/ AlmostUnderWay)
  BY DEF CheckAlmostTurn
<1>5. inbOverlap' \in BOOLEAN
  BY <1>4
<1>6. AlmostRows = {} /\ AlmostRows' = {}
  BY <1>3 DEF AlreadyNotified, AlmostRows
<1>7. ~inbOverlap' => AlmostWriters = {}
  BY <1>4 DEF AlmostUnderWay, AlmostWriters
<1>8. /\ inbWriter' \in [Writers -> InboxWriters]
      /\ AlmostWriters' = AlmostWriters \cup {r}
  BY <1>2, <1>3, OneWriterMoves DEF AlmostInv
<1>9. InboxOK'
  BY <1>3, <1>5, <1>8 DEF AlmostInv, InboxOK
<1>10. OneOfBoth'
  BY <1>6, <1>7, <1>8 DEF OneOfBoth
<1> QED BY <1>9, <1>10 DEF AlmostInv

LEMMA InsertKeepsAlmost ==
    ASSUME AlmostInv, NEW r \in Writers, InsertNotification(r)
    PROVE  AlmostInv'
<1> DEFINE almost == inbWriter[r].almost
           n == Len(inbRows) + 1
<1>1. /\ inbRows \in Seq(InboxRows) /\ Len(inbRows) \in Nat /\ inbVersion \in Nat
      /\ inbWriter[r] \in InboxWriters /\ inbWriter[r].phase = "enabled" /\ almost \in BOOLEAN
  BY DEF AlmostInv, InboxOK, InsertNotification, InboxWriters
<1>2. PICK row \in InboxRows : row = NotificationRow(almost)
  BY <1>1 DEF NotificationRow, InboxRows
<1>3. inbRows' = Append(inbRows, row) /\ inbVersion' = inbVersion + 1 /\ inbOverlap' = inbOverlap
  BY <1>2 DEF InsertNotification
<1>4. /\ inbRows' \in Seq(InboxRows) /\ Len(inbRows') = n
      /\ inbRows'[n] = row /\ \A i \in DOMAIN inbRows : inbRows'[i] = inbRows[i]
      /\ DOMAIN inbRows' = DOMAIN inbRows \cup {n}
  BY <1>1, <1>2, <1>3
<1>5. PICK new : new = [phase |-> "inserted", almost |-> FALSE, id |-> Len(inbRows'), version |-> inbVersion']
  OBVIOUS
<1>6. new \in InboxWriters /\ new.phase = "inserted"
  BY <1>1, <1>3, <1>4, <1>5 DEF InboxWriters
<1>7. inbWriter' = [inbWriter EXCEPT ![r] = new]
  BY <1>5 DEF InsertNotification
<1>8. /\ inbWriter' \in [Writers -> InboxWriters]
      /\ AlmostWriters' = AlmostWriters \ {r}
  BY <1>6, <1>7, OneWriterMoves DEF AlmostInv
<1>9. InboxOK'
  BY <1>1, <1>3, <1>4, <1>8 DEF AlmostInv, InboxOK
<1>10. CASE almost
  <2>1. r \in AlmostWriters
    BY <1>1, <1>10 DEF AlmostWriters
  <2>2. ~inbOverlap' => AlmostWriters' = {} /\ AlmostRows = {}
    BY <1>3, <1>8, <2>1 DEF AlmostInv, OneOfBoth
  <2>3. AlmostRows' \subseteq AlmostRows \cup {n}
    BY <1>4 DEF AlmostRows
  <2>4. OneOfBoth'
    BY <2>2, <2>3 DEF OneOfBoth
  <2> QED BY <1>9, <2>4 DEF AlmostInv
<1>11. CASE ~almost
  <2>1. ~row.almost
    BY <1>2, <1>11 DEF NotificationRow
  <2>2. AlmostRows' \subseteq AlmostRows
    BY <1>4, <2>1 DEF AlmostRows
  <2> QED BY <1>3, <1>8, <1>9, <2>2, AlmostFewer
<1> QED BY <1>10, <1>11

\* The other steps of a request, none of which wishes for a message anew.
LEMMA OtherPhasesKeepAlmost ==
    ASSUME AlmostInv, NEW r \in Writers,
           \/ WantNotification(r) \/ \E enabled \in BOOLEAN : ReadPreference(r, enabled)
           \/ InsertNotificationFails(r) \/ EmitNotification(r)
    PROVE  AlmostInv'
<1>1. UNCHANGED <<inbRows, inbVersion, inbOverlap>>
  BY DEF WantNotification, ReadPreference, InsertNotificationFails, EmitNotification
<1>2. inbWriter[r] \in InboxWriters
  BY DEF AlmostInv, InboxOK
<1>3. \E new \in InboxWriters :
         /\ inbWriter' = [inbWriter EXCEPT ![r] = new]
         /\ new.phase \in {"wanted", "enabled"} /\ new.almost => r \in AlmostWriters
  <2>1. CASE WantNotification(r)
    <3>1. PICK new : new = [NoWriter EXCEPT !.phase = "wanted"]
      OBVIOUS
    <3>2. new \in InboxWriters /\ ~new.almost
      BY <3>1 DEF NoWriter, InboxWriters
    <3> QED BY <2>1, <3>1, <3>2 DEF WantNotification
  <2>2. CASE \E enabled \in BOOLEAN : ReadPreference(r, enabled)
    <3>1. PICK enabled \in BOOLEAN : ReadPreference(r, enabled)
      BY <2>2
    <3>2. inbWriter[r].phase = "wanted"
      BY <3>1 DEF ReadPreference
    <3>3. PICK new : new = IF enabled THEN [inbWriter[r] EXCEPT !.phase = "enabled"] ELSE NoWriter
      OBVIOUS
    <3>4. new \in InboxWriters /\ (new.phase = "enabled" => new.almost = inbWriter[r].almost)
          /\ new.phase \in {"idle", "enabled"}
      BY <1>2, <3>3 DEF NoWriter, InboxWriters
    <3>5. inbWriter' = [inbWriter EXCEPT ![r] = new]
      BY <3>1, <3>3 DEF ReadPreference
    <3> QED BY <3>2, <3>4, <3>5 DEF AlmostWriters
  <2>3. CASE InsertNotificationFails(r) \/ EmitNotification(r)
    <3>1. inbWriter' = [inbWriter EXCEPT ![r] = NoWriter]
      BY <2>3 DEF InsertNotificationFails, EmitNotification
    <3> QED BY <3>1, NoWriterIsAWriter
  <2> QED BY <2>1, <2>2, <2>3
<1>4. inbWriter' \in [Writers -> InboxWriters] /\ AlmostWriters' \subseteq AlmostWriters
  BY <1>3, OneWriterMoves DEF AlmostInv
<1>5. InboxOK'
  BY <1>1, <1>4 DEF AlmostInv, InboxOK
<1>6. AlmostRows' \subseteq AlmostRows
  BY <1>1 DEF AlmostRows
<1> QED BY <1>1, <1>4, <1>5, <1>6, AlmostFewer

\* A change of the rows that are there, which makes none an almost-your-turn
\* message or undoes its deletion.
LEMMA ChangedRowsKeepAlmost ==
    ASSUME AlmostInv, NEW rows \in Seq(InboxRows), DOMAIN rows = DOMAIN inbRows,
           \A id \in DOMAIN rows : /\ rows[id].almost => inbRows[id].almost
                                   /\ inbRows[id].state = "deleted" => rows[id].state = "deleted",
           inbRows' = rows, inbVersion' \in {inbVersion, inbVersion + 1},
           UNCHANGED <<inbWriter, inbOverlap>>
    PROVE  AlmostInv'
<1>1. InboxOK'
  BY DEF AlmostInv, InboxOK
<1>2. AlmostRows' \subseteq AlmostRows
  BY DEF AlmostRows
<1>3. AlmostWriters' = AlmostWriters
  BY DEF AlmostWriters
<1> QED BY <1>1, <1>2, <1>3, AlmostFewer


LEMMA OwnRequestsKeepAlmost ==
    ASSUME AlmostInv,
           \/ \E own \in BOOLEAN : MarkAllAsRead(own) \/ \E id \in DOMAIN inbRows : MarkAsRead(id, own)
           \/ \E id \in DOMAIN inbRows : DeleteNotification(id)
           \/ QueueEntryRemoved
    PROVE  AlmostInv'
<1>1. inbRows \in Seq(InboxRows)
  BY DEF AlmostInv, InboxOK
<1>2. ASSUME NEW rows, NEW own \in BOOLEAN, ChangeRows(rows, own)
      PROVE  inbRows' = rows /\ inbVersion' = inbVersion + 1 /\ UNCHANGED <<inbWriter, inbOverlap>>
  BY <1>2 DEF ChangeRows
<1>3. CASE \E own \in BOOLEAN : MarkAllAsRead(own)
  <2>1. PICK own \in BOOLEAN : MarkAllAsRead(own)
    BY <1>3
  <2>2. PICK rows : rows = [id \in DOMAIN inbRows |->
                               IF id \in Unread THEN [inbRows[id] EXCEPT !.state = "read"] ELSE inbRows[id]]
    OBVIOUS
  <2>3. ASSUME NEW id \in DOMAIN inbRows
        PROVE  /\ rows[id] \in InboxRows /\ rows[id].almost = inbRows[id].almost
               /\ inbRows[id].state = "deleted" => rows[id].state = "deleted"
    <3>1. inbRows[id] \in InboxRows
      BY <1>1
    <3>2. CASE id \in Unread
      BY <2>2, <3>1, <3>2 DEF InboxRows, Unread
    <3>3. CASE id \notin Unread
      BY <2>2, <3>1, <3>3
    <3> QED BY <3>2, <3>3
  <2>4. rows \in Seq(InboxRows) /\ DOMAIN rows = DOMAIN inbRows
    <3>1. DOMAIN inbRows = 1 .. Len(inbRows) /\ Len(inbRows) \in Nat
      BY <1>1
    <3>2. rows \in [1 .. Len(inbRows) -> InboxRows]
      BY <2>2, <2>3, <3>1
    <3> QED BY <2>2, <3>1, <3>2, SeqDef
  <2>5. inbRows' = rows /\ inbVersion' = inbVersion + 1 /\ UNCHANGED <<inbWriter, inbOverlap>>
    BY <1>2, <2>1, <2>2 DEF MarkAllAsRead
  <2> QED BY <2>3, <2>4, <2>5, ChangedRowsKeepAlmost
<1>4. CASE \/ \E own \in BOOLEAN, id \in DOMAIN inbRows : MarkAsRead(id, own)
           \/ \E id \in DOMAIN inbRows : DeleteNotification(id)
  <2>1. PICK own \in BOOLEAN, id \in DOMAIN inbRows, state \in {"read", "deleted"} :
              /\ ChangeRows([inbRows EXCEPT ![id].state = state], own)
              /\ inbRows[id].state = "deleted" => state = "deleted"
    BY <1>4 DEF MarkAsRead, DeleteNotification
  <2>2. PICK row : row = [inbRows[id] EXCEPT !.state = state]
    OBVIOUS
  <2>3. /\ row \in InboxRows /\ row.almost = inbRows[id].almost
        /\ inbRows[id].state = "deleted" => row.state = "deleted"
    <3>1. inbRows[id] \in InboxRows
      BY <1>1
    <3> QED BY <2>1, <2>2, <3>1 DEF InboxRows
  <2>4. PICK rows : rows = [inbRows EXCEPT ![id] = row]
    OBVIOUS
  <2>5. rows \in Seq(InboxRows) /\ DOMAIN rows = DOMAIN inbRows
    BY <1>1, <2>3, <2>4, ExceptSeq
  <2>6. inbRows' = rows /\ inbVersion' = inbVersion + 1 /\ UNCHANGED <<inbWriter, inbOverlap>>
    BY <1>2, <2>1, <2>2, <2>4
  <2>7. \A i \in DOMAIN rows : /\ rows[i].almost => inbRows[i].almost
                               /\ inbRows[i].state = "deleted" => rows[i].state = "deleted"
    BY <1>1, <2>3, <2>4
  <2> QED BY <2>5, <2>6, <2>7, ChangedRowsKeepAlmost
<1>5. CASE QueueEntryRemoved
  <2>1. PICK rows : rows = [id \in DOMAIN inbRows |-> [inbRows[id] EXCEPT !.almost = FALSE]]
    OBVIOUS
  <2>2. ASSUME NEW id \in DOMAIN inbRows
        PROVE  rows[id] \in InboxRows /\ ~rows[id].almost /\ rows[id].state = inbRows[id].state
    <3>1. inbRows[id] \in InboxRows
      BY <1>1
    <3> QED BY <2>1, <3>1 DEF InboxRows
  <2>3. rows \in Seq(InboxRows) /\ DOMAIN rows = DOMAIN inbRows
    <3>1. DOMAIN inbRows = 1 .. Len(inbRows) /\ Len(inbRows) \in Nat
      BY <1>1
    <3>2. rows \in [1 .. Len(inbRows) -> InboxRows]
      BY <2>1, <2>2, <3>1
    <3> QED BY <2>1, <3>1, <3>2, SeqDef
  <2>4. inbRows' = rows /\ inbVersion' = inbVersion /\ UNCHANGED <<inbWriter, inbOverlap>>
    BY <1>5, <2>1 DEF QueueEntryRemoved
  <2> QED BY <2>2, <2>3, <2>4, ChangedRowsKeepAlmost
<1> QED BY <1>3, <1>4, <1>5

LEMMA AlmostStays ==
    ASSUME AlmostInv, [InboxNext]_inbVars
    PROVE  AlmostInv'
<1>1. ASSUME NEW r \in Writers, CheckAlmostTurn(r) PROVE AlmostInv'
  BY <1>1, CheckKeepsAlmost
<1>2. ASSUME NEW r \in Writers,
             \/ WantNotification(r) \/ \E enabled \in BOOLEAN : ReadPreference(r, enabled)
             \/ InsertNotificationFails(r) \/ EmitNotification(r)
      PROVE  AlmostInv'
  BY <1>2, OtherPhasesKeepAlmost
<1>3. ASSUME NEW r \in Writers, InsertNotification(r) PROVE AlmostInv'
  BY <1>3, InsertKeepsAlmost
<1>4. CASE \/ \E own \in BOOLEAN : MarkAllAsRead(own) \/ \E id \in DOMAIN inbRows : MarkAsRead(id, own)
           \/ \E id \in DOMAIN inbRows : DeleteNotification(id)
           \/ QueueEntryRemoved
  BY <1>4, OwnRequestsKeepAlmost
<1>5. CASE \/ AnswerInbox \/ DeliverInbox \/ InboxFetchFails \/ OnNotificationNew \/ AcknowledgeMark
           \/ InboxConnects \/ InboxDisconnects \/ UNCHANGED inbVars
  <2>1. UNCHANGED <<inbRows, inbWriter, inbVersion, inbOverlap>>
    BY <1>5 DEF AnswerInbox, DeliverInbox, InboxFetchFails, OnNotificationNew, AcknowledgeMark,
                InboxConnects, InboxDisconnects, inbVars
  <2> QED BY <2>1 DEF AlmostInv, InboxOK, OneOfBoth, AlmostRows, AlmostWriters
<1> QED BY <1>1, <1>2, <1>3, <1>4, <1>5 DEF InboxNext

\* A queue entry has one almost-your-turn message, unless two requests looked
\* for it before either had inserted it (notifyAlmostTurnIfNeeded), for every
\* number of requests and messages.
THEOREM OneMessageOfTheTurn == InboxSpec => []OneAlmostTurn
<1>1. ASSUME AlmostInv PROVE OneAlmostTurn
  <2> SUFFICES ASSUME ~inbOverlap PROVE Cardinality(AlmostRows) <= 1
    BY DEF OneAlmostTurn, AlmostRows
  <2>1. \A id, other \in AlmostRows : id = other
    BY <1>1 DEF AlmostInv, OneOfBoth
  <2>2. CASE AlmostRows = {}
    BY <2>2, FS_EmptySet
  <2>3. CASE AlmostRows # {}
    <3>1. PICK id : AlmostRows = {id}
      BY <2>1, <2>3
    <3>2. Cardinality({id}) = 1
      BY FS_Singleton
    <3> QED BY <3>1, <3>2
  <2> QED BY <2>2, <2>3
<1>2. (\E view \in {"list", "badge"} : InboxStart(view)) => AlmostInv
  BY AlmostInitially
<1> QED BY <1>1, <1>2, AlmostStays, PTL DEF InboxSpec


-----------------------------------------------------------------------------
(* Channels: sequences of whatever is sent.                                *)

IsSequence(s) == \E S : s \in Seq(S)

LEMMA AppendFacts ==
    ASSUME NEW s, IsSequence(s), NEW m
    PROVE  /\ IsSequence(Append(s, m)) /\ Append(s, m) # <<>>
           /\ Len(s) \in Nat /\ DOMAIN s = 1 .. Len(s)
           /\ Len(Append(s, m)) = Len(s) + 1 /\ DOMAIN Append(s, m) = 1 .. Len(s) + 1
           /\ \A i \in DOMAIN s : Append(s, m)[i] = s[i]
           /\ Append(s, m)[Len(s) + 1] = m
<1>1. PICK S : s \in Seq(S)
  BY DEF IsSequence
<1> DEFINE T == S \cup {m}
<1>2. s \in Seq(T) /\ m \in T
  BY <1>1, SeqDef
<1>3. Append(s, m) \in Seq(T)
  BY <1>2, AppendProperties
<1>4. /\ Append(s, m) # <<>> /\ Len(Append(s, m)) = Len(s) + 1
      /\ \A i \in 1 .. Len(s) : Append(s, m)[i] = s[i]
      /\ Append(s, m)[Len(s) + 1] = m
  BY <1>2, AppendProperties
<1>5. Len(s) \in Nat /\ DOMAIN s = 1 .. Len(s) /\ DOMAIN Append(s, m) = 1 .. Len(Append(s, m))
  BY <1>1, <1>3, LenProperties
<1> QED BY <1>3, <1>4, <1>5 DEF IsSequence

LEMMA TailFacts ==
    ASSUME NEW s, IsSequence(s), s # <<>>
    PROVE  /\ IsSequence(Tail(s))
           /\ Len(s) \in Nat \ {0} /\ DOMAIN s = 1 .. Len(s) /\ Head(s) = s[1]
           /\ Len(Tail(s)) = Len(s) - 1 /\ DOMAIN Tail(s) = 1 .. Len(s) - 1
           /\ \A i \in 1 .. Len(s) - 1 : Tail(s)[i] = s[i + 1]
<1>1. PICK S : s \in Seq(S)
  BY DEF IsSequence
<1>2. /\ Tail(s) \in Seq(S) /\ Len(Tail(s)) = Len(s) - 1
      /\ \A i \in 1 .. Len(Tail(s)) : Tail(s)[i] = s[i + 1]
  BY <1>1, HeadTailProperties
<1>3. Len(s) \in Nat /\ DOMAIN s = 1 .. Len(s) /\ DOMAIN Tail(s) = 1 .. Len(Tail(s)) /\ Head(s) = s[1]
  BY <1>1, <1>2, LenProperties
<1>4. Len(s) # 0
  BY <1>1, EmptySeq
<1> QED BY <1>2, <1>3, <1>4 DEF IsSequence

LEMMA NothingIsASequence == IsSequence(<<>>) /\ DOMAIN <<>> = {}
<1>1. <<>> \in Seq({})
  BY EmptySeq
<1>2. DOMAIN <<>> = {}
  BY <1>1, LenProperties, EmptySeq
<1> QED BY <1>1, <1>2 DEF IsSequence


-----------------------------------------------------------------------------
(* The notifications an open page shows.                                   *)

\* Every set of natural numbers has a least one: what holds of 0, and of n
\* when it holds of n - 1, fails nowhere first.
LEMMA Smallest ==
    ASSUME NEW T, T \subseteq Nat, T # {}
    PROVE  \E n \in T : \A m \in T : n <= m
<1>1. PICK R : R = OpToRel(<, Nat)
  OBVIOUS
<1>2. IsWellFoundedOn(R, Nat)
  BY <1>1, NatLessThanWellFounded
<1>3. \A x, y \in Nat : <<x, y>> \in R <=> x < y
  BY <1>1 DEF OpToRel
<1>4. PICK x \in T : \A y \in T : ~(<<y, x>> \in R)
  BY <1>2, WFMin
<1>5. \A y \in T : x <= y
  <2> TAKE y \in T
  <2>1. ~(<<y, x>> \in R) /\ x \in Nat /\ y \in Nat
    BY <1>4
  <2>2. ~(y < x)
    BY <2>1, <1>3, Zenon
  <2> QED BY <2>1, <2>2
<1> QED BY <1>4, <1>5

\* The list of the first n rows, from that of the first n - 1.
Longer(rows, list, n) ==
    IF n = 0 THEN <<>>
    ELSE IF rows[n].state = "deleted" THEN list[n - 1]
    ELSE <<[id |-> n, unread |-> rows[n].state = "unread"]>> \o list[n - 1]

IsListUpTo(rows, max, list) == list = [n \in 0 .. max |-> Longer(rows, list, n)]

LEMMA ListExists ==
    ASSUME NEW rows, NEW k \in Nat
    PROVE  \E list : IsListUpTo(rows, k, list)
<1> DEFINE T == {n \in Nat : ~\E list : IsListUpTo(rows, n, list)}
<1>1. SUFFICES ASSUME T # {} PROVE FALSE
  OBVIOUS
<1>2. PICK n \in T : \A m \in T : n <= m
  BY <1>1, Smallest
<1>3. CASE n = 0
  <2>1. PICK list : list = [i \in 0 .. 0 |-> <<>>]
    OBVIOUS
  <2>2. IsListUpTo(rows, 0, list)
    BY <2>1 DEF IsListUpTo, Longer
  <2> QED BY <1>3, <2>2
<1>4. CASE n # 0
  <2>1. n - 1 \in Nat /\ n - 1 \notin T
    BY <1>2, <1>4
  <2>2. PICK list : IsListUpTo(rows, n - 1, list)
    BY <2>1
  <2>3. PICK more : more = [i \in 0 .. n |-> IF i = n THEN Longer(rows, list, n) ELSE list[i]]
    OBVIOUS
  <2>4. \A i \in 0 .. n : Longer(rows, more, i) = Longer(rows, list, i)
    BY <2>1, <2>3 DEF Longer
  <2>5. \A i \in 0 .. n - 1 : list[i] = Longer(rows, list, i)
    BY <2>2 DEF IsListUpTo
  <2>6. \A i \in 0 .. n : more[i] = Longer(rows, more, i)
    BY <2>1, <2>3, <2>4, <2>5
  <2>7. IsListUpTo(rows, n, more)
    BY <2>3, <2>6 DEF IsListUpTo
  <2> QED BY <2>7
<1> QED BY <1>3, <1>4

LEMMA ListSays ==
    ASSUME NEW rows, Len(rows) \in Nat
    PROVE  \A n \in 0 .. Len(rows) : ListUpTo(rows)[n] = Longer(rows, ListUpTo(rows), n)
<1>1. ListUpTo(rows) = CHOOSE list : IsListUpTo(rows, Len(rows), list)
  BY DEF ListUpTo, IsListUpTo, Longer
<1>2. IsListUpTo(rows, Len(rows), ListUpTo(rows))
  BY <1>1, ListExists
<1> QED BY <1>2 DEF IsListUpTo
\* The first rows' list is theirs alone.
LEMMA ListAgrees ==
    ASSUME NEW rows, NEW more, Len(rows) \in Nat, Len(more) \in Nat, Len(rows) <= Len(more),
           \A i \in 1 .. Len(rows) : more[i].state = rows[i].state
    PROVE  \A n \in 0 .. Len(rows) : ListUpTo(more)[n] = ListUpTo(rows)[n]
<1> DEFINE T == {n \in 0 .. Len(rows) : ListUpTo(more)[n] # ListUpTo(rows)[n]}
<1>1. SUFFICES ASSUME T # {} PROVE FALSE
  OBVIOUS
<1>2. PICK n \in T : \A m \in T : n <= m
  <2>1. T \subseteq Nat
    OBVIOUS
  <2> HIDE DEF T
  <2> QED BY <1>1, <2>1, Smallest
<1>3. /\ ListUpTo(rows)[n] = Longer(rows, ListUpTo(rows), n)
      /\ ListUpTo(more)[n] = Longer(more, ListUpTo(more), n)
  BY ListSays
<1>4. n = 0 \/ ListUpTo(more)[n - 1] = ListUpTo(rows)[n - 1]
  BY <1>2
<1>5. Longer(more, ListUpTo(more), n) = Longer(rows, ListUpTo(rows), n)
  BY <1>4 DEF Longer
<1> QED BY <1>3, <1>5

\* The messages newer than v that are still to reach the page.
PushesAfter(v)  == {i \in DOMAIN inbChannel : inbChannel[i].version > v}
Inserted(r)     == inbWriter[r].phase = "inserted"
InsertsAfter(v) == {r \in Writers : Inserted(r) /\ inbWriter[r].version > v}
ToCome(v)       == {inbChannel[i].id : i \in PushesAfter(v)} \cup {inbWriter[r].id : r \in InsertsAfter(v)}

\* A message is of a row that has been inserted, and no two are of one row;
\* later rows have later versions.
OfARow(m)   == m.id \in 1 .. Len(inbRows) /\ m.version \in 1 .. inbVersion
Apart(m, k) == \/ m.id < k.id /\ m.version < k.version
               \/ m.id > k.id /\ m.version > k.version

MessagesOK ==
    /\ IsSequence(inbChannel)
    /\ \A i \in DOMAIN inbChannel : OfARow(inbChannel[i])
    /\ \A r \in Writers : Inserted(r) => OfARow(inbWriter[r])
    /\ \A i, j \in DOMAIN inbChannel : i # j => Apart(inbChannel[i], inbChannel[j])
    /\ \A r, q \in Writers : Inserted(r) /\ Inserted(q) /\ r # q => Apart(inbWriter[r], inbWriter[q])
    /\ \A i \in DOMAIN inbChannel, r \in Writers : Inserted(r) => Apart(inbChannel[i], inbWriter[r])

\* A list has no count and a badge no list.
OfTheView(m) == IF inbView = "list" THEN m.count = 0 ELSE m.list = <<>>

InbCacheOK ==
    /\ inbCache = [data |-> inbCache.data, fetch |-> inbCache.fetch, result |-> inbCache.result]
    /\ inbCache.fetch \in {"none", "sent", "answered"}
    /\ inbCache.fetch # "answered" => inbCache.result = {}
    /\ \A m \in inbCache.data \cup inbCache.result : m.version \in 0 .. inbVersion /\ OfTheView(m)
    /\ \A m, n \in inbCache.result : m = n
    /\ \A m, n \in inbCache.data : m = n
    /\ inbCauses = {} /\ inbCache.fetch = "none" => inbCache.data # {}

PageOK ==
    /\ inbView \in {"list", "badge"}
    /\ InbCacheOK
    /\ inbAcks \in Nat
    /\ inbEmitted \in 0 .. inbVersion
    /\ inbHeard \in 0 .. inbVersion
    /\ ~inbOnline => inbChannel = <<>>

\* Of a list, pushes arrive in the order of their rows, unless two have crossed.
PushesOrdered ==
    inbView = "list" =>
      /\ \A i \in DOMAIN inbChannel : inbChannel[i].version <= inbEmitted
      /\ inbCauses = {} => \A i, j \in DOMAIN inbChannel :
                              i < j => inbChannel[i].version < inbChannel[j].version

\* An answer that nothing has changed since.
AnswerIsTrue ==
    \A m \in inbCache.result : m.version = inbVersion => m.list = Stored.list /\ m.count = Stored.count

\* A push that will have crossed a newer one.
Crossing == \E r \in Writers : Inserted(r) /\ inbWriter[r].version < inbEmitted

\* m becomes what is stored once the messages newer than it are in front of it
\* or counted in.
Fits(m) ==
    /\ ToCome(m.version) \subseteq Unread
    /\ IF inbView = "list"
       THEN \E n \in 0 .. Len(inbRows) : /\ ToCome(m.version) = n + 1 .. Len(inbRows)
                                         /\ m.list = ListUpTo(inbRows)[n]
       ELSE m.count = Cardinality(Unread \ ToCome(m.version))

Blameless == inbCauses = {} /\ inbOnline /\ inbAcks = 0 /\ ~Crossing

PageFits ==
    Blameless =>
      /\ inbCache.fetch = "none" => \A m \in inbCache.data : Fits(m)
      /\ inbCache.fetch = "answered" => \A m \in inbCache.result : m.version < inbHeard \/ Fits(m)

InboxInv == AlmostInv /\ MessagesOK /\ PageOK /\ PushesOrdered /\ AnswerIsTrue /\ PageFits

LEMMA RowsAre ==
    ASSUME InboxOK
    PROVE  /\ Len(inbRows) \in Nat /\ DOMAIN inbRows = 1 .. Len(inbRows)
           /\ \A id \in DOMAIN inbRows : inbRows[id] \in InboxRows
           /\ Unread \subseteq 1 .. Len(inbRows) /\ IsFiniteSet(Unread)
           /\ inbVersion \in Nat
<1>1. /\ Len(inbRows) \in Nat /\ DOMAIN inbRows = 1 .. Len(inbRows)
      /\ \A id \in DOMAIN inbRows : inbRows[id] \in InboxRows
  BY DEF InboxOK
<1>2. Unread \subseteq 1 .. Len(inbRows)
  BY <1>1 DEF Unread
<1>3. IsFiniteSet(1 .. Len(inbRows))
  BY <1>1, FS_Interval
<1> QED BY <1>1, <1>2, <1>3, FS_Subset DEF InboxOK

LEMMA InboxInitially ==
    ASSUME NEW view \in {"list", "badge"}, InboxStart(view)
    PROVE  InboxInv
<1>1. /\ inbView = view /\ inbRows = <<>> /\ inbVersion = 0 /\ inbWriter = [r \in Writers |-> NoWriter]
      /\ inbOnline = FALSE /\ inbChannel = <<>> /\ inbAcks = 0 /\ inbCache = Mounted
      /\ inbEmitted = 0 /\ inbHeard = 0 /\ inbCauses = {}
  BY DEF InboxStart
<1>2. \A r \in Writers : ~Inserted(r)
  BY <1>1 DEF Inserted, NoWriter
<1>3. MessagesOK
  BY <1>1, <1>2, NothingIsASequence DEF MessagesOK
<1>4. /\ inbCache.data = {} /\ inbCache.result = {} /\ inbCache.fetch = "sent"
      /\ inbCache = [data |-> inbCache.data, fetch |-> inbCache.fetch, result |-> inbCache.result]
  BY <1>1 DEF Mounted
<1>5. PageOK
  BY <1>1, <1>4 DEF PageOK, InbCacheOK
<1>6. PushesOrdered
  BY <1>1, NothingIsASequence DEF PushesOrdered
<1>7. AnswerIsTrue /\ PageFits
  BY <1>1, <1>4 DEF AnswerIsTrue, PageFits
<1> QED BY <1>3, <1>5, <1>6, <1>7, AlmostInitially DEF InboxInv

\* Nothing is inserted or emitted.
InsertsAsBefore == \A r \in Writers : /\ Inserted(r)' <=> Inserted(r)
                                      /\ Inserted(r) => inbWriter'[r] = inbWriter[r]

\* The rows are those there were, each in the state it was in.
StatesAsBefore == /\ Len(inbRows') = Len(inbRows)
                  /\ \A id \in 1 .. Len(inbRows) : inbRows'[id].state = inbRows[id].state

LEMMA ToComeAsBefore ==
    ASSUME inbChannel' = inbChannel, InsertsAsBefore
    PROVE  \A v : ToCome(v)' = ToCome(v)
<1> TAKE v
<1>1. PushesAfter(v)' = PushesAfter(v)
  BY DEF PushesAfter
<1>2. InsertsAfter(v)' = InsertsAfter(v)
  BY DEF InsertsAfter, InsertsAsBefore
<1>3. \A r \in InsertsAfter(v) : inbWriter'[r] = inbWriter[r]
  BY DEF InsertsAfter, InsertsAsBefore
<1> QED BY <1>1, <1>2, <1>3 DEF ToCome

LEMMA StoredAsBefore ==
    ASSUME InboxOK, InboxOK', StatesAsBefore
    PROVE  /\ Unread' = Unread
           /\ \A n \in 0 .. Len(inbRows) : ListUpTo(inbRows')[n] = ListUpTo(inbRows)[n]
           /\ ListOf(inbRows') = ListOf(inbRows)
<1>1. Len(inbRows) \in Nat /\ DOMAIN inbRows = 1 .. Len(inbRows) /\ DOMAIN inbRows' = 1 .. Len(inbRows)
  BY RowsAre DEF InboxOK, StatesAsBefore
<1>2. Unread' = Unread
  BY <1>1 DEF Unread, StatesAsBefore
<1>3. \A n \in 0 .. Len(inbRows) : ListUpTo(inbRows')[n] = ListUpTo(inbRows)[n]
  BY <1>1, ListAgrees DEF StatesAsBefore
<1> QED BY <1>1, <1>2, <1>3 DEF ListOf, StatesAsBefore

LEMMA FitsAsBefore ==
    ASSUME InboxOK, InboxOK', StatesAsBefore, inbView' = inbView,
           NEW m, ToCome(m.version)' = ToCome(m.version)
    PROVE  Fits(m) => Fits(m)'
<1>1. /\ Unread' = Unread /\ Len(inbRows') = Len(inbRows)
      /\ \A n \in 0 .. Len(inbRows) : ListUpTo(inbRows')[n] = ListUpTo(inbRows)[n]
  BY StoredAsBefore DEF StatesAsBefore
<1> QED BY <1>1 DEF Fits

LEMMA QuietKeepsInbox ==
    ASSUME InboxInv, AlmostInv', InsertsAsBefore, StatesAsBefore,
           UNCHANGED <<inbVersion, inbChannel, inbPage, inbEmitted, inbCauses>>
    PROVE  InboxInv'
<1>1. InboxOK /\ InboxOK' /\ UNCHANGED <<inbView, inbOnline, inbAcks, inbCache, inbHeard>>
  BY DEF InboxInv, AlmostInv, inbPage
<1>2. MessagesOK'
  <2>1. \A i \in DOMAIN inbChannel : OfARow(inbChannel[i])'
    BY DEF InboxInv, MessagesOK, OfARow, StatesAsBefore
  <2>2. \A r \in Writers : Inserted(r)' => OfARow(inbWriter[r])'
    BY DEF InboxInv, MessagesOK, OfARow, StatesAsBefore, InsertsAsBefore
  <2>3. \A i, j \in DOMAIN inbChannel : i # j => Apart(inbChannel'[i], inbChannel'[j])
    BY DEF InboxInv, MessagesOK
  <2>4. \A r, q \in Writers : Inserted(r)' /\ Inserted(q)' /\ r # q => Apart(inbWriter'[r], inbWriter'[q])
    BY DEF InboxInv, MessagesOK, InsertsAsBefore
  <2>5. \A i \in DOMAIN inbChannel, r \in Writers : Inserted(r)' => Apart(inbChannel'[i], inbWriter'[r])
    BY DEF InboxInv, MessagesOK, InsertsAsBefore
  <2> QED BY <2>1, <2>2, <2>3, <2>4, <2>5 DEF InboxInv, MessagesOK, Apart
<1>3. PageOK' /\ PushesOrdered'
  BY <1>1 DEF InboxInv, PageOK, InbCacheOK, OfTheView, PushesOrdered
<1>4. AnswerIsTrue'
  <2>1. Unread' = Unread /\ ListOf(inbRows') = ListOf(inbRows)
    BY <1>1, StoredAsBefore
  <2> QED BY <1>1, <2>1 DEF InboxInv, AnswerIsTrue, Stored
<1>5. PageFits'
  <2>1. Blameless' => Blameless
    BY <1>1 DEF Blameless, Crossing, InsertsAsBefore
  <2>2. \A m : Fits(m) => Fits(m)'
    BY <1>1, ToComeAsBefore, FitsAsBefore
  <2> QED BY <1>1, <2>1, <2>2 DEF InboxInv, PageFits
<1> QED BY <1>2, <1>3, <1>4, <1>5 DEF InboxInv

LEMMA WishesKeepInbox ==
    ASSUME InboxInv, AlmostInv', NEW r \in Writers,
           \/ CheckAlmostTurn(r) \/ WantNotification(r)
           \/ \E enabled \in BOOLEAN : ReadPreference(r, enabled)
           \/ InsertNotificationFails(r)
    PROVE  InboxInv'
<1>1. UNCHANGED <<inbRows, inbVersion, inbChannel, inbPage, inbEmitted, inbCauses>>
  BY DEF CheckAlmostTurn, WantNotification, ReadPreference, InsertNotificationFails
<1>2. /\ inbWriter \in [Writers -> InboxWriters] /\ inbWriter[r] \in InboxWriters
      /\ inbWriter[r].phase # "inserted"
  BY DEF InboxInv, AlmostInv, InboxOK, CheckAlmostTurn, WantNotification, ReadPreference,
         InsertNotificationFails
<1>3. PICK new : inbWriter' = [inbWriter EXCEPT ![r] = new] /\ new.phase # "inserted"
  <2>1. CASE CheckAlmostTurn(r)
    <3>1. PICK new : new = [NoWriter EXCEPT !.phase = "wanted", !.almost = TRUE]
      OBVIOUS
    <3>2. new.phase # "inserted"
      BY <3>1 DEF NoWriter
    <3>3. inbWriter' = [inbWriter EXCEPT ![r] = new]
      BY <2>1, <3>1 DEF CheckAlmostTurn
    <3> QED BY <3>2, <3>3
  <2>2. CASE WantNotification(r)
    <3>1. PICK new : new = [NoWriter EXCEPT !.phase = "wanted"]
      OBVIOUS
    <3>2. new.phase # "inserted"
      BY <3>1 DEF NoWriter
    <3>3. inbWriter' = [inbWriter EXCEPT ![r] = new]
      BY <2>2, <3>1 DEF WantNotification
    <3> QED BY <3>2, <3>3
  <2>3. CASE \E enabled \in BOOLEAN : ReadPreference(r, enabled)
    <3>1. PICK enabled \in BOOLEAN : ReadPreference(r, enabled)
      BY <2>3
    <3>2. PICK new : new = IF enabled THEN [inbWriter[r] EXCEPT !.phase = "enabled"] ELSE NoWriter
      OBVIOUS
    <3>3. new.phase # "inserted"
      BY <1>2, <3>2 DEF NoWriter, InboxWriters
    <3>4. inbWriter' = [inbWriter EXCEPT ![r] = new]
      BY <3>1, <3>2 DEF ReadPreference
    <3> QED BY <3>3, <3>4
  <2>4. CASE InsertNotificationFails(r)
    <3>1. inbWriter' = [inbWriter EXCEPT ![r] = NoWriter]
      BY <2>4 DEF InsertNotificationFails
    <3> QED BY <3>1, NoWriterIsAWriter
  <2> QED BY <2>1, <2>2, <2>3, <2>4
<1>4. InsertsAsBefore
  BY <1>2, <1>3 DEF InsertsAsBefore, Inserted
<1>5. StatesAsBefore
  BY <1>1 DEF StatesAsBefore
<1> QED BY <1>1, <1>4, <1>5, QuietKeepsInbox

LEMMA EntryGoneKeepsInbox ==
    ASSUME InboxInv, AlmostInv', QueueEntryRemoved
    PROVE  InboxInv'
<1>1. UNCHANGED <<inbVersion, inbWriter, inbChannel, inbPage, inbEmitted, inbCauses>>
  BY DEF QueueEntryRemoved
<1>2. InboxOK
  BY DEF InboxInv, AlmostInv
<1>3. StatesAsBefore
  <2>1. PICK rows : rows = [id \in DOMAIN inbRows |-> [inbRows[id] EXCEPT !.almost = FALSE]]
    OBVIOUS
  <2>2. /\ Len(inbRows) \in Nat /\ DOMAIN inbRows = 1 .. Len(inbRows)
        /\ \A id \in DOMAIN inbRows : inbRows[id] \in InboxRows
    BY <1>2, RowsAre
  <2>3. \A id \in DOMAIN inbRows : rows[id].state = inbRows[id].state
    BY <2>1, <2>2 DEF InboxRows
  <2>4. inbRows' = rows /\ DOMAIN inbRows' = 1 .. Len(inbRows)
    BY <2>1, <2>2 DEF QueueEntryRemoved
  <2>5. DOMAIN inbRows' = 1 .. Len(inbRows') /\ Len(inbRows') \in Nat
    BY DEF AlmostInv, InboxOK
  <2>6. Len(inbRows') = Len(inbRows)
    BY <2>2, <2>4, <2>5
  <2> QED BY <2>2, <2>3, <2>4, <2>6 DEF StatesAsBefore
<1>4. InsertsAsBefore
  BY <1>1 DEF InsertsAsBefore, Inserted
<1> QED BY <1>1, <1>3, <1>4, QuietKeepsInbox

LEMMA InsertKeepsInbox ==
    ASSUME InboxInv, AlmostInv', NEW r \in Writers, InsertNotification(r)
    PROVE  InboxInv'
<1> DEFINE n == Len(inbRows) + 1
<1>1. /\ InboxOK /\ InboxOK' /\ Len(inbRows) \in Nat /\ DOMAIN inbRows = 1 .. Len(inbRows)
      /\ Unread \subseteq 1 .. Len(inbRows) /\ inbVersion \in Nat
      /\ inbWriter \in [Writers -> InboxWriters] /\ inbWriter[r] \in InboxWriters
  BY RowsAre DEF InboxInv, AlmostInv, InboxOK
<1>2. PICK row : row = NotificationRow(inbWriter[r].almost)
  OBVIOUS
<1>3. /\ inbRows' = Append(inbRows, row) /\ inbVersion' = inbVersion + 1
      /\ UNCHANGED <<inbChannel, inbView, inbOnline, inbAcks, inbCache, inbHeard, inbEmitted, inbCauses>>
      /\ ~Inserted(r)
  BY <1>2 DEF InsertNotification, inbPage, Inserted
<1>4. row \in InboxRows /\ row.state = "unread"
  BY <1>1, <1>2 DEF NotificationRow, InboxRows, InboxWriters
<1>5. /\ Len(inbRows') = n /\ DOMAIN inbRows' = 1 .. n /\ inbRows'[n] = row
      /\ \A i \in 1 .. Len(inbRows) : inbRows'[i] = inbRows[i]
  BY <1>1, <1>3, <1>4 DEF InboxOK
<1>6. PICK new : new = [phase |-> "inserted", almost |-> FALSE, id |-> Len(inbRows'), version |-> inbVersion']
  OBVIOUS
<1>7. new.phase = "inserted" /\ new.id = n /\ new.version = inbVersion + 1
  BY <1>3, <1>5, <1>6
<1>8. inbWriter' = [inbWriter EXCEPT ![r] = new]
  BY <1>6 DEF InsertNotification
<1>9. /\ inbWriter'[r] = new /\ Inserted(r)'
      /\ \A q \in Writers \ {r} : inbWriter'[q] = inbWriter[q] /\ (Inserted(q)' <=> Inserted(q))
  BY <1>1, <1>7, <1>8 DEF Inserted
<1>10. MessagesOK'
  <2>1. /\ \A i \in DOMAIN inbChannel : OfARow(inbChannel[i]) /\ OfARow(inbChannel[i])'
        /\ \A i \in DOMAIN inbChannel : Apart(inbChannel[i], new)
    <3>1. \A i \in DOMAIN inbChannel : OfARow(inbChannel[i])
      BY DEF InboxInv, MessagesOK
    <3> QED BY <1>1, <1>3, <1>5, <1>7, <3>1 DEF OfARow, Apart
  <2>2. \A q \in Writers : Inserted(q)' => OfARow(inbWriter[q])'
    <3>1. \A q \in Writers : Inserted(q) => OfARow(inbWriter[q])
      BY DEF InboxInv, MessagesOK
    <3>2. ASSUME NEW q \in Writers, Inserted(q)' PROVE OfARow(inbWriter[q])'
      <4>1. CASE q = r
        BY <1>1, <1>3, <1>5, <1>7, <1>9, <4>1 DEF OfARow
      <4>2. CASE q # r
        BY <1>1, <1>3, <1>5, <1>9, <3>1, <3>2, <4>2 DEF OfARow
      <4> QED BY <4>1, <4>2
    <3> QED BY <3>2
  <2>3. \A q, p \in Writers : Inserted(q)' /\ Inserted(p)' /\ q # p => Apart(inbWriter'[q], inbWriter'[p])
    <3>1. \A q \in Writers \ {r} : Inserted(q) => Apart(inbWriter[q], new) /\ Apart(new, inbWriter[q])
      <4>1. \A q \in Writers : Inserted(q) => OfARow(inbWriter[q])
        BY DEF InboxInv, MessagesOK
      <4> QED BY <1>1, <1>7, <4>1 DEF OfARow, Apart
    <3>2. \A q, p \in Writers : Inserted(q) /\ Inserted(p) /\ q # p => Apart(inbWriter[q], inbWriter[p])
      BY DEF InboxInv, MessagesOK
    <3> QED BY <1>9, <3>1, <3>2
  <2>4. \A i \in DOMAIN inbChannel, q \in Writers : Inserted(q)' => Apart(inbChannel[i], inbWriter'[q])
    <3>1. \A i \in DOMAIN inbChannel, q \in Writers : Inserted(q) => Apart(inbChannel[i], inbWriter[q])
      BY DEF InboxInv, MessagesOK
    <3> QED BY <1>9, <2>1, <3>1
  <2>5. IsSequence(inbChannel) /\ \A i, j \in DOMAIN inbChannel : i # j => Apart(inbChannel[i], inbChannel[j])
    BY DEF InboxInv, MessagesOK
  <2> QED BY <1>3, <2>1, <2>2, <2>3, <2>4, <2>5 DEF MessagesOK, Apart
<1>11. PageOK' /\ PushesOrdered'
  <2>1. \A v \in 0 .. inbVersion : v \in 0 .. inbVersion'
    BY <1>1, <1>3
  <2> QED BY <1>3, <2>1 DEF InboxInv, PageOK, InbCacheOK, OfTheView, PushesOrdered
<1>12. \A m \in inbCache.data \cup inbCache.result : m.version \in 0 .. inbVersion
  BY DEF InboxInv, PageOK, InbCacheOK
<1>13. AnswerIsTrue'
  BY <1>1, <1>3, <1>12 DEF AnswerIsTrue
<1>14. Unread' = Unread \cup {n}
  BY <1>1, <1>4, <1>5 DEF Unread
<1>15. \A v \in 0 .. inbVersion : ToCome(v)' = ToCome(v) \cup {n}
  <2> TAKE v \in 0 .. inbVersion
  <2>1. PushesAfter(v)' = PushesAfter(v)
    BY <1>3 DEF PushesAfter
  <2>2. InsertsAfter(v)' = InsertsAfter(v) \cup {r} /\ r \notin InsertsAfter(v)
    BY <1>1, <1>3, <1>7, <1>9 DEF InsertsAfter
  <2> QED BY <1>3, <1>7, <1>9, <2>1, <2>2 DEF ToCome, InsertsAfter
<1>16. ASSUME NEW m, m.version \in 0 .. inbVersion, Fits(m)
       PROVE  Fits(m)'
  <2> DEFINE late == ToCome(m.version)
  <2>1. ToCome(m.version)' = late \cup {n} /\ late \subseteq Unread
    BY <1>15, <1>16 DEF Fits
  <2>2. CASE inbView = "list"
    <3>1. PICK k \in 0 .. Len(inbRows) : late = k + 1 .. Len(inbRows) /\ m.list = ListUpTo(inbRows)[k]
      BY <1>16, <2>2 DEF Fits
    <3>2. ListUpTo(inbRows')[k] = ListUpTo(inbRows)[k]
      <4>1. Len(inbRows') \in Nat /\ Len(inbRows) <= Len(inbRows')
        BY <1>1, <1>5
      <4>2. \A i \in 1 .. Len(inbRows) : inbRows'[i].state = inbRows[i].state
        BY <1>5
      <4> QED BY <1>1, <4>1, <4>2, ListAgrees
    <3>3. ToCome(m.version)' = k + 1 .. n /\ k \in 0 .. n
      BY <1>1, <2>1, <3>1
    <3>4. ToCome(m.version)' \subseteq Unread'
      BY <1>14, <2>1
    <3>5. inbView' = "list" /\ m.list = ListUpTo(inbRows')[k] /\ Len(inbRows') = n
      BY <1>3, <1>5, <2>2, <3>1, <3>2
    <3> HIDE DEF n
    <3> QED BY <3>3, <3>4, <3>5 DEF Fits
  <2>3. CASE inbView # "list"
    <3>1. Unread' \ ToCome(m.version)' = Unread \ late
      BY <1>1, <1>14, <2>1
    <3>2. ToCome(m.version)' \subseteq Unread'
      BY <1>14, <2>1
    <3> QED BY <1>3, <1>16, <2>3, <3>1, <3>2 DEF Fits
  <2> QED BY <2>2, <2>3
<1>17. Blameless' => Blameless
  BY <1>3, <1>9 DEF Blameless, Crossing
<1>18. PageFits'
  BY <1>3, <1>12, <1>16, <1>17 DEF InboxInv, PageFits
<1> QED BY <1>10, <1>11, <1>13, <1>18 DEF InboxInv

LEMMA EmitKeepsInbox ==
    ASSUME InboxInv, AlmostInv', NEW r \in Writers, EmitNotification(r)
    PROVE  InboxInv'
<1>1. /\ InboxOK /\ InboxOK' /\ inbVersion \in Nat /\ Len(inbRows) \in Nat
      /\ inbWriter \in [Writers -> InboxWriters] /\ inbWriter[r] \in InboxWriters
  BY RowsAre DEF InboxInv, AlmostInv, InboxOK
<1>2. PICK w : w = inbWriter[r]
  OBVIOUS
<1>3. PICK message : message = [id |-> w.id, version |-> w.version]
  OBVIOUS
<1>4. /\ Inserted(r)
      /\ inbChannel' = IF inbOnline THEN Append(inbChannel, message) ELSE inbChannel
      /\ inbEmitted' = IF inbView = "list" THEN Max({inbEmitted, w.version}) ELSE inbEmitted
      /\ inbCauses' = IF w.version < inbEmitted THEN Blamed(inbCauses, "crossed") ELSE inbCauses
      /\ inbWriter' = [inbWriter EXCEPT ![r] = NoWriter]
      /\ UNCHANGED <<inbRows, inbVersion, inbView, inbOnline, inbAcks, inbCache, inbHeard>>
  BY <1>2, <1>3 DEF EmitNotification, inbPage, Inserted
<1>5. /\ ~Inserted(r)'
      /\ \A q \in Writers \ {r} : inbWriter'[q] = inbWriter[q] /\ (Inserted(q)' <=> Inserted(q))
  BY <1>1, <1>4, NoWriterIsAWriter DEF Inserted
<1>6. OfARow(w) /\ message.id = w.id /\ message.version = w.version
  BY <1>2, <1>3, <1>4 DEF InboxInv, MessagesOK
<1>7. w.version \in 1 .. inbVersion /\ inbEmitted \in 0 .. inbVersion
  BY <1>6 DEF OfARow, InboxInv, PageOK
<1>8. inbEmitted' \in 0 .. inbVersion /\ inbEmitted' >= inbEmitted
      /\ (inbView = "list" => inbEmitted' >= w.version)
  <2>1. Max({inbEmitted, w.version}) = IF inbEmitted >= w.version THEN inbEmitted ELSE w.version
    BY <1>1, <1>7, MaxOfTwo
  <2> QED BY <1>1, <1>4, <1>7, <2>1
<1>9. inbCauses' = {} => inbCauses = {} /\ w.version >= inbEmitted
  BY <1>1, <1>4, <1>7, BlameStays
<1>10. /\ IsSequence(inbChannel) /\ Len(inbChannel) \in Nat /\ DOMAIN inbChannel = 1 .. Len(inbChannel)
       /\ IsSequence(inbChannel')
       /\ inbOnline => /\ DOMAIN inbChannel' = 1 .. Len(inbChannel) + 1
                       /\ \A i \in DOMAIN inbChannel : inbChannel'[i] = inbChannel[i]
                       /\ inbChannel'[Len(inbChannel) + 1] = message
       /\ ~inbOnline => inbChannel' = <<>> /\ DOMAIN inbChannel' = {}
  BY <1>4, AppendFacts, NothingIsASequence DEF InboxInv, MessagesOK, PageOK
<1>11. ASSUME NEW i \in DOMAIN inbChannel'
       PROVE  \/ i \in DOMAIN inbChannel /\ inbChannel'[i] = inbChannel[i]
              \/ i = Len(inbChannel) + 1 /\ inbChannel'[i] = message
  BY <1>10
<1>12. \A i \in DOMAIN inbChannel : Apart(inbChannel[i], message) /\ Apart(message, inbChannel[i])
  <2>1. \A i \in DOMAIN inbChannel : Apart(inbChannel[i], w)
    BY <1>2, <1>4 DEF InboxInv, MessagesOK
  <2>2. \A i \in DOMAIN inbChannel : OfARow(inbChannel[i])
    BY DEF InboxInv, MessagesOK
  <2> QED BY <1>1, <1>6, <2>1, <2>2 DEF Apart, OfARow
<1>13. \A q \in Writers : Inserted(q)' => /\ Inserted(q) /\ inbWriter'[q] = inbWriter[q]
                                          /\ Apart(message, inbWriter[q])
  <2>1. \A q \in Writers : Inserted(q) /\ q # r => Apart(w, inbWriter[q])
    BY <1>2, <1>4 DEF InboxInv, MessagesOK
  <2> QED BY <1>5, <1>6, <2>1 DEF Apart
<1>14. MessagesOK'
  <2>1. \A i \in DOMAIN inbChannel' : OfARow(inbChannel[i])'
    <3>1. \A i \in DOMAIN inbChannel : OfARow(inbChannel[i])
      BY DEF InboxInv, MessagesOK
    <3>2. OfARow(message)
      BY <1>6 DEF OfARow
    <3> QED BY <1>4, <1>11, <3>1, <3>2 DEF OfARow
  <2>2. \A q \in Writers : Inserted(q)' => OfARow(inbWriter[q])'
    BY <1>4, <1>13 DEF InboxInv, MessagesOK, OfARow
  <2>3. \A i, j \in DOMAIN inbChannel' : i # j => Apart(inbChannel'[i], inbChannel'[j])
    <3>1. \A i, j \in DOMAIN inbChannel : i # j => Apart(inbChannel[i], inbChannel[j])
      BY DEF InboxInv, MessagesOK
    <3> QED BY <1>11, <1>12, <3>1
  <2>4. \A q, p \in Writers : Inserted(q)' /\ Inserted(p)' /\ q # p => Apart(inbWriter'[q], inbWriter'[p])
    BY <1>13 DEF InboxInv, MessagesOK
  <2>5. \A i \in DOMAIN inbChannel', q \in Writers : Inserted(q)' => Apart(inbChannel'[i], inbWriter'[q])
    BY <1>11, <1>13 DEF InboxInv, MessagesOK
  <2> QED BY <1>10, <2>1, <2>2, <2>3, <2>4, <2>5 DEF MessagesOK, Apart
<1>15. PageOK'
  BY <1>4, <1>8, <1>9, <1>10 DEF InboxInv, PageOK, InbCacheOK, OfTheView
<1>16. PushesOrdered'
  <2> SUFFICES ASSUME inbView = "list"
               PROVE  /\ \A i \in DOMAIN inbChannel' : inbChannel'[i].version <= inbEmitted'
                      /\ inbCauses' = {} => \A i, j \in DOMAIN inbChannel' :
                                               i < j => inbChannel'[i].version < inbChannel'[j].version
    BY <1>4 DEF PushesOrdered
  <2>1. \A i \in DOMAIN inbChannel : inbChannel[i].version <= inbEmitted /\ inbChannel[i].version \in Nat
    BY <1>1 DEF InboxInv, PushesOrdered, MessagesOK, OfARow
  <2>2. \A i \in DOMAIN inbChannel' : inbChannel'[i].version <= inbEmitted'
    BY <1>1, <1>6, <1>7, <1>8, <1>11, <2>1
  <2>3. ASSUME inbCauses' = {}, NEW i \in DOMAIN inbChannel', NEW j \in DOMAIN inbChannel', i < j
        PROVE  inbChannel'[i].version < inbChannel'[j].version
    <3>1. i \in DOMAIN inbChannel /\ inbChannel'[i] = inbChannel[i]
      BY <1>10, <1>11, <2>3
    <3>2. CASE j \in DOMAIN inbChannel /\ inbChannel'[j] = inbChannel[j]
      BY <1>9, <2>3, <3>1, <3>2 DEF InboxInv, PushesOrdered
    <3>3. CASE inbChannel'[j] = message
      <4>1. inbChannel[i].version <= message.version /\ inbChannel[i].version # message.version
        BY <1>1, <1>6, <1>7, <1>9, <1>12, <2>1, <2>3, <3>1 DEF Apart
      <4> QED BY <1>1, <1>6, <1>7, <2>1, <3>1, <3>3, <4>1
    <3> QED BY <1>11, <3>2, <3>3
  <2> QED BY <2>2, <2>3
<1>17. AnswerIsTrue'
  BY <1>4 DEF InboxInv, AnswerIsTrue, Stored, Unread
<1>18. ASSUME inbOnline, NEW v PROVE ToCome(v)' = ToCome(v)
  <2>1. ASSUME NEW id PROVE id \in ToCome(v)' <=> id \in ToCome(v)
    <3>1. id \in ToCome(v) <=> \/ \E i \in DOMAIN inbChannel : inbChannel[i].version > v /\ id = inbChannel[i].id
                               \/ \E q \in Writers : Inserted(q) /\ inbWriter[q].version > v /\ id = inbWriter[q].id
      BY DEF ToCome, PushesAfter, InsertsAfter
    <3>2. id \in ToCome(v)' <=>
            \/ \E i \in DOMAIN inbChannel' : inbChannel'[i].version > v /\ id = inbChannel'[i].id
            \/ \E q \in Writers : Inserted(q)' /\ inbWriter'[q].version > v /\ id = inbWriter'[q].id
      BY DEF ToCome, PushesAfter, InsertsAfter
    <3>3. (\E i \in DOMAIN inbChannel' : inbChannel'[i].version > v /\ id = inbChannel'[i].id) <=>
            \/ \E i \in DOMAIN inbChannel : inbChannel[i].version > v /\ id = inbChannel[i].id
            \/ w.version > v /\ id = w.id
      BY <1>6, <1>10, <1>11, <1>18
    <3>4. (\E q \in Writers : Inserted(q) /\ inbWriter[q].version > v /\ id = inbWriter[q].id) <=>
            \/ \E q \in Writers : Inserted(q)' /\ inbWriter'[q].version > v /\ id = inbWriter'[q].id
            \/ w.version > v /\ id = w.id
      BY <1>2, <1>4, <1>5
    <3> QED BY <3>1, <3>2, <3>3, <3>4
  <2> QED BY <2>1
<1>19. PageFits'
  <2> SUFFICES ASSUME Blameless'
               PROVE  /\ inbCache.fetch = "none" => \A m \in inbCache.data : Fits(m)'
                      /\ inbCache.fetch = "answered" => \A m \in inbCache.result : m.version < inbHeard \/ Fits(m)'
    BY <1>4 DEF PageFits
  <2>1. inbOnline /\ inbAcks = 0 /\ inbCauses = {} /\ w.version >= inbEmitted
    BY <1>4, <1>9 DEF Blameless
  <2>2. ~Crossing
    <3>1. ASSUME NEW q \in Writers, Inserted(q), inbWriter[q].version < inbEmitted PROVE FALSE
      <4>1. q # r
        BY <1>1, <1>2, <1>7, <2>1, <3>1
      <4>2. Inserted(q)' /\ inbWriter'[q].version = inbWriter[q].version /\ inbWriter[q].version \in Nat
        BY <1>1, <1>5, <3>1, <4>1 DEF InboxWriters
      <4>3. inbWriter'[q].version < inbEmitted'
        BY <1>1, <1>7, <1>8, <3>1, <4>2
      <4> QED BY <4>2, <4>3 DEF Blameless, Crossing
    <3> QED BY <3>1 DEF Crossing
  <2>3. StatesAsBefore
    BY <1>4 DEF StatesAsBefore
  <2>4. \A m : Fits(m) => Fits(m)'
    BY <1>1, <1>4, <1>18, <2>1, <2>3, FitsAsBefore
  <2> QED BY <2>1, <2>2, <2>4 DEF InboxInv, PageFits, Blameless
<1> QED BY <1>14, <1>15, <1>16, <1>17, <1>19 DEF InboxInv

LEMMA ChangesKeepInbox ==
    ASSUME InboxInv, AlmostInv',
           \/ \E own \in BOOLEAN : MarkAllAsRead(own) \/ \E id \in DOMAIN inbRows : MarkAsRead(id, own)
           \/ \E id \in DOMAIN inbRows : DeleteNotification(id)
    PROVE  InboxInv'
<1>1. /\ InboxOK /\ InboxOK' /\ inbVersion \in Nat /\ Len(inbRows) \in Nat
      /\ DOMAIN inbRows = 1 .. Len(inbRows) /\ DOMAIN inbRows' = 1 .. Len(inbRows') /\ Len(inbRows') \in Nat
  BY RowsAre DEF InboxInv, AlmostInv, InboxOK
<1>2. PICK own, rows : own \in BOOLEAN /\ ChangeRows(rows, own) /\ DOMAIN rows = DOMAIN inbRows
  <2>1. CASE \E own \in BOOLEAN : MarkAllAsRead(own)
    <3>1. PICK own \in BOOLEAN : MarkAllAsRead(own)
      BY <2>1
    <3>2. PICK rows : rows = [id \in DOMAIN inbRows |->
                                 IF id \in Unread THEN [inbRows[id] EXCEPT !.state = "read"] ELSE inbRows[id]]
      OBVIOUS
    <3>3. ChangeRows(rows, own) /\ DOMAIN rows = DOMAIN inbRows
      BY <3>1, <3>2 DEF MarkAllAsRead
    <3> QED BY <3>3
  <2>2. CASE \/ \E own \in BOOLEAN, id \in DOMAIN inbRows : MarkAsRead(id, own)
             \/ \E id \in DOMAIN inbRows : DeleteNotification(id)
    <3>1. PICK own \in BOOLEAN, id \in DOMAIN inbRows, state \in {"read", "deleted"} :
                ChangeRows([inbRows EXCEPT ![id].state = state], own)
      BY <2>2 DEF MarkAsRead, DeleteNotification
    <3>2. PICK rows : rows = [inbRows EXCEPT ![id].state = state]
      OBVIOUS
    <3>3. ChangeRows(rows, own) /\ DOMAIN rows = DOMAIN inbRows
      BY <3>1, <3>2
    <3> QED BY <3>3
  <2> QED BY <2>1, <2>2
<1>3. /\ inbRows' = rows /\ inbVersion' = inbVersion + 1
      /\ inbAcks' = IF own THEN inbAcks + 1 ELSE inbAcks
      /\ inbCauses' = IF own THEN inbCauses ELSE Blamed(inbCauses, "elsewhere")
      /\ UNCHANGED <<inbView, inbWriter, inbOnline, inbChannel, inbCache, inbEmitted, inbHeard>>
  BY <1>2 DEF ChangeRows
<1>4. Len(inbRows') = Len(inbRows)
  <2>1. DOMAIN inbRows' = 1 .. Len(inbRows)
    BY <1>1, <1>2, <1>3
  <2>2. DOMAIN inbRows' = 1 .. Len(inbRows') /\ Len(inbRows') \in Nat
    BY <1>1
  <2>3. Len(inbRows) \in Nat
    BY <1>1
  <2> QED BY <2>1, <2>2, <2>3
<1>5. (inbCauses' = {} => inbCauses = {}) /\ inbAcks' \in Nat
  BY <1>3, BlameStays DEF InboxInv, PageOK
<1>6. MessagesOK'
  <2>1. \A m : OfARow(m) => OfARow(m)'
    BY <1>1, <1>3, <1>4 DEF OfARow
  <2>2. \A i \in DOMAIN inbChannel : OfARow(inbChannel[i])'
    BY <1>3, <2>1 DEF InboxInv, MessagesOK, OfARow
  <2>3. \A r \in Writers : Inserted(r) => OfARow(inbWriter[r])'
    BY <1>3, <2>1 DEF InboxInv, MessagesOK, OfARow
  <2> QED BY <1>3, <2>2, <2>3 DEF InboxInv, MessagesOK, Inserted, Apart
<1>7. PageOK' /\ PushesOrdered'
  <2>1. \A v \in 0 .. inbVersion : v \in 0 .. inbVersion'
    BY <1>1, <1>3
  <2> QED BY <1>3, <1>5, <2>1 DEF InboxInv, PageOK, InbCacheOK, OfTheView, PushesOrdered
<1>8. AnswerIsTrue'
  <2>1. \A m \in inbCache.result : m.version \in 0 .. inbVersion
    BY DEF InboxInv, PageOK, InbCacheOK
  <2> QED BY <1>1, <1>3, <2>1 DEF AnswerIsTrue
<1>9. PageFits'
  <2>1. inbAcks \in Nat
    BY DEF InboxInv, PageOK
  <2> QED BY <1>3, <2>1, BlameStays DEF PageFits, Blameless
<1> QED BY <1>6, <1>7, <1>8, <1>9 DEF InboxInv

\* What a step of the page leaves of the rows and the messages.
InbServer == <<inbView, inbRows, inbVersion, inbWriter, inbEmitted>>

LEMMA MessagesStay ==
    ASSUME InboxInv, UNCHANGED <<InbServer, inbChannel>>
    PROVE  /\ MessagesOK'
           /\ \A v : ToCome(v)' = ToCome(v)
           /\ \A m : Fits(m)' <=> Fits(m)
           /\ Crossing' <=> Crossing
           /\ Stored' = Stored
           /\ inbCauses' = inbCauses => PushesOrdered'
           /\ inbCauses' # {} => PushesOrdered'
<1>1. UNCHANGED <<inbView, inbRows, inbVersion, inbWriter, inbEmitted>>
  BY DEF InbServer
<1>2. MessagesOK'
  BY <1>1 DEF InboxInv, MessagesOK, OfARow, Inserted, Apart
<1>3. \A v : ToCome(v)' = ToCome(v)
  BY <1>1 DEF ToCome, PushesAfter, InsertsAfter, Inserted
<1>4. \A m : Fits(m)' <=> Fits(m)
  BY <1>1, <1>3 DEF Fits, Unread
<1>5. Crossing' <=> Crossing
  BY <1>1 DEF Crossing, Inserted
<1>6. Stored' = Stored
  BY <1>1 DEF Stored, Unread
<1>7. inbCauses' = inbCauses \/ inbCauses' # {} => PushesOrdered'
  BY <1>1 DEF InboxInv, PushesOrdered
<1> QED BY <1>2, <1>3, <1>4, <1>5, <1>6, <1>7

\* With nothing to come, what is stored fits.
LEMMA StoredFits ==
    ASSUME InboxInv, NEW m, ToCome(m.version) = {}, m.list = Stored.list, m.count = Stored.count
    PROVE  Fits(m)
<1>1. Len(inbRows) \in Nat
  BY RowsAre DEF InboxInv, AlmostInv
<1>2. CASE inbView = "list"
  <2>1. m.list = ListUpTo(inbRows)[Len(inbRows)]
    BY <1>2 DEF Stored, ListOf
  <2>2. Len(inbRows) + 1 .. Len(inbRows) = {} /\ Len(inbRows) \in 0 .. Len(inbRows)
    BY <1>1
  <2> QED BY <1>2, <2>1, <2>2 DEF Fits
<1>3. CASE inbView # "list"
  <2>1. inbView = "badge"
    BY <1>3 DEF InboxInv, PageOK
  <2>2. m.count = Cardinality(Unread)
    BY <2>1 DEF Stored
  <2>3. Unread \ ToCome(m.version) = Unread
    OBVIOUS
  <2> QED BY <1>3, <2>2, <2>3 DEF Fits
<1> QED BY <1>2, <1>3

LEMMA AnswerKeepsInbox ==
    ASSUME InboxInv, AlmostInv', AnswerInbox
    PROVE  InboxInv'
<1>1. /\ UNCHANGED <<InbServer, inbChannel>>
      /\ UNCHANGED <<inbView, inbRows, inbVersion, inbOnline, inbAcks, inbHeard, inbCauses, inbEmitted>>
      /\ inbCache.fetch = "sent"
  BY DEF AnswerInbox, InbServer
<1>2. PICK answer : answer = Stored
  OBVIOUS
<1>3. inbCache' = [inbCache EXCEPT !.fetch = "answered", !.result = {answer}]
  BY <1>2 DEF AnswerInbox, Answered
<1>4. /\ inbCache'.fetch = "answered" /\ inbCache'.result = {answer} /\ inbCache'.data = inbCache.data
      /\ inbCache' = [data |-> inbCache'.data, fetch |-> inbCache'.fetch, result |-> inbCache'.result]
  BY <1>3 DEF InboxInv, PageOK, InbCacheOK
<1>5. answer.version = inbVersion /\ inbVersion \in Nat
  BY <1>2, RowsAre DEF Stored, InboxInv, AlmostInv
<1>6. OfTheView(answer) /\ \A m : OfTheView(m)' <=> OfTheView(m)
  BY <1>1, <1>2 DEF OfTheView, Stored, InboxInv, PageOK
<1>7. PageOK'
  BY <1>1, <1>4, <1>5, <1>6 DEF InboxInv, PageOK, InbCacheOK
<1>8. AnswerIsTrue'
  <2>1. Stored' = Stored
    BY <1>1, MessagesStay
  <2> QED BY <1>2, <1>4, <2>1 DEF AnswerIsTrue
<1>9. PageFits'
  <2>1. ToCome(inbVersion) = {}
    <3>1. ASSUME NEW m, OfARow(m) PROVE ~(m.version > inbVersion)
      BY <1>5, <3>1 DEF OfARow
    <3> QED BY <3>1 DEF ToCome, PushesAfter, InsertsAfter, InboxInv, MessagesOK
  <2>2. Fits(answer)
    BY <1>2, <1>5, <2>1, StoredFits
  <2> QED BY <1>1, <1>4, <2>2, MessagesStay DEF PageFits
<1> QED BY <1>1, <1>7, <1>8, <1>9, MessagesStay DEF InboxInv

LEMMA DeliveryKeepsInbox ==
    ASSUME InboxInv, AlmostInv', DeliverInbox
    PROVE  InboxInv'
<1>1. /\ UNCHANGED <<InbServer, inbChannel>>
      /\ UNCHANGED <<inbView, inbRows, inbVersion, inbOnline, inbAcks, inbHeard, inbEmitted>>
      /\ inbCache.fetch = "answered"
      /\ inbCache' = [data |-> inbCache.result, fetch |-> "none", result |-> {}]
  BY DEF DeliverInbox, InbServer, Delivered
<1>2. PICK answer \in inbCache.result :
         inbCauses' = IF InboxAtRest /\ answer.version = inbVersion THEN {}
                      ELSE IF answer.version < inbHeard THEN Blamed(inbCauses, "overtaken")
                      ELSE inbCauses
  BY DEF DeliverInbox
<1>3. \A m \in inbCache.result : m = answer
  BY <1>2 DEF InboxInv, PageOK, InbCacheOK
<1>4. \A m : OfTheView(m)' <=> OfTheView(m)
  BY <1>1 DEF OfTheView
<1>5. inbCache'.data = inbCache.result /\ inbCache'.fetch = "none" /\ inbCache'.result = {}
  BY <1>1
<1>6. PageOK'
  BY <1>1, <1>2, <1>4, <1>5 DEF InboxInv, PageOK, InbCacheOK
<1>7. AnswerIsTrue'
  BY <1>5 DEF AnswerIsTrue
<1>8. CASE InboxAtRest /\ answer.version = inbVersion
  <2>1. inbChannel = <<>> /\ (\A r \in Writers : ~Inserted(r)) /\ DOMAIN inbChannel = {}
    BY <1>8, NothingIsASequence DEF InboxAtRest, Inserted
  <2>2. ToCome(answer.version) = {}
    BY <2>1 DEF ToCome, PushesAfter, InsertsAfter
  <2>3. Fits(answer)
    BY <1>2, <1>8, <2>2, StoredFits DEF InboxInv, AnswerIsTrue
  <2>4. PushesOrdered'
    BY <1>1, <2>1 DEF PushesOrdered
  <2> QED BY <1>1, <1>3, <1>5, <1>6, <1>7, <2>3, <2>4, MessagesStay DEF InboxInv, PageFits
<1>9. CASE ~(InboxAtRest /\ answer.version = inbVersion)
  <2>1. CASE answer.version < inbHeard
    <3>1. inbCauses' # {}
      BY <1>2, <1>9, <2>1, BlameStays
    <3> QED BY <1>1, <1>6, <1>7, <3>1, MessagesStay DEF InboxInv, PageFits, Blameless
  <2>2. CASE ~(answer.version < inbHeard)
    <3>1. inbCauses' = inbCauses
      BY <1>2, <1>9, <2>2
    <3>2. Blameless' => Blameless
      BY <1>1, <3>1, MessagesStay DEF Blameless
    <3>3. Blameless' => Fits(answer)
      BY <1>1, <1>2, <2>2, <3>2 DEF InboxInv, PageFits
    <3> QED BY <1>1, <1>3, <1>5, <1>6, <1>7, <3>1, <3>3, MessagesStay DEF InboxInv, PageFits
  <2> QED BY <2>1, <2>2
<1> QED BY <1>8, <1>9

LEMMA FetchFailureKeepsInbox ==
    ASSUME InboxInv, AlmostInv', InboxFetchFails
    PROVE  InboxInv'
<1>1. /\ UNCHANGED <<InbServer, inbChannel>>
      /\ UNCHANGED <<inbView, inbRows, inbVersion, inbOnline, inbAcks, inbHeard, inbEmitted>>
      /\ inbCache' = [inbCache EXCEPT !.fetch = "none", !.result = {}]
      /\ inbCauses' # {}
  BY BlameStays DEF InboxFetchFails, InbServer, GaveUp
<1>2. /\ inbCache'.data = inbCache.data /\ inbCache'.fetch = "none" /\ inbCache'.result = {}
      /\ inbCache' = [data |-> inbCache'.data, fetch |-> inbCache'.fetch, result |-> inbCache'.result]
  BY <1>1 DEF InboxInv, PageOK, InbCacheOK
<1>3. PageOK'
  BY <1>1, <1>2 DEF InboxInv, PageOK, InbCacheOK, OfTheView
<1>4. AnswerIsTrue' /\ PageFits'
  BY <1>1, <1>2 DEF AnswerIsTrue, PageFits, Blameless
<1> QED BY <1>1, <1>3, <1>4, MessagesStay DEF InboxInv

LEMMA RefetchKeepsInbox ==
    ASSUME InboxInv, AlmostInv', AcknowledgeMark \/ InboxConnects
    PROVE  InboxInv'
<1>1. /\ UNCHANGED <<InbServer, inbChannel>>
      /\ UNCHANGED <<inbView, inbRows, inbVersion, inbHeard, inbEmitted>>
      /\ inbCache' = Invalidated(inbCache)
      /\ inbCauses' = IF JoinsOlder(inbCache) THEN Blamed(inbCauses, "joined") ELSE inbCauses
  BY DEF AcknowledgeMark, InboxConnects, InbServer, RefetchInbox
<1>2. inbAcks' \in Nat /\ (~inbOnline' => ~inbOnline)
  BY DEF AcknowledgeMark, InboxConnects, InboxInv, PageOK
<1>3. CASE inbCache.data = {} /\ Fetching(inbCache)
  <2>1. inbCache' = inbCache
    BY <1>1, <1>3 DEF Invalidated
  <2>2. PageOK'
    BY <1>1, <1>2, <1>3, <2>1 DEF InboxInv, PageOK, InbCacheOK, OfTheView, Fetching
  <2>3. inbCauses' # {} \/ (inbCauses' = inbCauses /\ inbCache.fetch = "sent")
    BY <1>1, <1>3, BlameStays DEF JoinsOlder, Fetching, InboxInv, PageOK, InbCacheOK
  <2>4. AnswerIsTrue'
    BY <1>1, <2>1, MessagesStay DEF InboxInv, AnswerIsTrue
  <2>5. PageFits'
    BY <2>1, <2>3 DEF PageFits, Blameless
  <2> QED BY <1>1, <2>2, <2>3, <2>4, <2>5, MessagesStay DEF InboxInv
<1>4. CASE ~(inbCache.data = {} /\ Fetching(inbCache))
  <2>1. inbCache' = [inbCache EXCEPT !.fetch = "sent", !.result = {}]
    BY <1>1, <1>4 DEF Invalidated, Refetched
  <2>2. /\ inbCache'.data = inbCache.data /\ inbCache'.fetch = "sent" /\ inbCache'.result = {}
        /\ inbCache' = [data |-> inbCache'.data, fetch |-> inbCache'.fetch, result |-> inbCache'.result]
    BY <2>1 DEF InboxInv, PageOK, InbCacheOK
  <2>3. PageOK'
    BY <1>1, <1>2, <2>2 DEF InboxInv, PageOK, InbCacheOK, OfTheView
  <2>4. AnswerIsTrue' /\ PageFits'
    BY <2>2 DEF AnswerIsTrue, PageFits
  <2>5. inbCauses' # {} \/ inbCauses' = inbCauses
    BY <1>1, BlameStays
  <2> QED BY <1>1, <2>3, <2>4, <2>5, MessagesStay DEF InboxInv
<1> QED BY <1>3, <1>4

LEMMA DisconnectionKeepsInbox ==
    ASSUME InboxInv, AlmostInv', InboxDisconnects
    PROVE  InboxInv'
<1>1. /\ inbOnline' = FALSE /\ inbChannel' = <<>>
      /\ UNCHANGED <<inbView, inbRows, inbVersion, inbWriter, inbAcks, inbCache, inbEmitted, inbHeard, inbCauses>>
  BY DEF InboxDisconnects
<1>2. IsSequence(inbChannel') /\ DOMAIN inbChannel' = {}
  BY <1>1, NothingIsASequence
<1>3. MessagesOK'
  BY <1>1, <1>2 DEF InboxInv, MessagesOK, OfARow, Inserted, Apart
<1>4. PageOK' /\ PushesOrdered'
  BY <1>1, <1>2 DEF InboxInv, PageOK, InbCacheOK, OfTheView, PushesOrdered
<1>5. AnswerIsTrue'
  BY <1>1 DEF InboxInv, AnswerIsTrue, Stored, Unread
<1>6. PageFits'
  BY <1>1 DEF PageFits, Blameless
<1> QED BY <1>3, <1>4, <1>5, <1>6 DEF InboxInv

LEMMA HearingKeepsInbox ==
    ASSUME InboxInv, AlmostInv', OnNotificationNew
    PROVE  InboxInv'
<1>1. /\ InboxOK /\ inbVersion \in Nat /\ Len(inbRows) \in Nat /\ DOMAIN inbRows = 1 .. Len(inbRows)
      /\ Unread \subseteq 1 .. Len(inbRows) /\ IsFiniteSet(Unread)
  BY RowsAre DEF InboxInv, AlmostInv
<1>2. PICK message : message = Head(inbChannel)
  OBVIOUS
<1>3. PICK old : old = IF inbCache.data = {} THEN [version |-> 0, list |-> <<>>, count |-> 0]
                       ELSE CHOOSE d \in inbCache.data : TRUE
  OBVIOUS
<1>4. PICK new : new = [version |-> old.version,
                        list    |-> IF inbView = "list" THEN <<[id |-> message.id, unread |-> TRUE]>> \o old.list
                                                        ELSE <<>>,
                        count   |-> IF inbView = "badge" THEN old.count + 1 ELSE 0]
  OBVIOUS
<1>5. /\ inbChannel # <<>> /\ inbChannel' = Tail(inbChannel)
      /\ inbCache' = [inbCache EXCEPT !.data = {new}]
      /\ inbHeard' = Max({inbHeard, message.version})
      /\ inbCauses' = IF message.version <= old.version THEN Blamed(inbCauses, "counted twice") ELSE inbCauses
  BY <1>2, <1>3, <1>4 DEF OnNotificationNew, WithData
<1>6. UNCHANGED <<inbView, inbRows, inbVersion, inbWriter, inbOnline, inbAcks, inbEmitted>>
  BY DEF OnNotificationNew
<1>7. /\ IsSequence(inbChannel') /\ Len(inbChannel) \in Nat \ {0}
      /\ DOMAIN inbChannel = 1 .. Len(inbChannel) /\ DOMAIN inbChannel' = 1 .. Len(inbChannel) - 1
      /\ \A i \in DOMAIN inbChannel' : inbChannel'[i] = inbChannel[i + 1]
      /\ message = inbChannel[1] /\ 1 \in DOMAIN inbChannel
      /\ \A i \in DOMAIN inbChannel' : i + 1 \in DOMAIN inbChannel /\ i + 1 # 1
      /\ \A i \in DOMAIN inbChannel : i # 1 => i - 1 \in DOMAIN inbChannel' /\ inbChannel'[i - 1] = inbChannel[i]
  <2>1. IsSequence(inbChannel)
    BY DEF InboxInv, MessagesOK
  <2>2. /\ IsSequence(inbChannel') /\ Len(inbChannel) \in Nat \ {0}
        /\ DOMAIN inbChannel = 1 .. Len(inbChannel) /\ DOMAIN inbChannel' = 1 .. Len(inbChannel) - 1
        /\ \A i \in 1 .. Len(inbChannel) - 1 : inbChannel'[i] = inbChannel[i + 1]
        /\ message = inbChannel[1]
    BY <1>2, <1>5, <2>1, TailFacts
  <2> QED BY <2>2
<1>8. OfARow(message) /\ message.version \in Nat /\ message.version <= inbVersion
  <2>1. OfARow(message)
    BY <1>7 DEF InboxInv, MessagesOK
  <2> QED BY <1>1, <2>1 DEF OfARow
<1>9. /\ old.version \in 0 .. inbVersion
      /\ inbCache.data # {} => old \in inbCache.data
  BY <1>1, <1>3 DEF InboxInv, PageOK, InbCacheOK
<1>10. /\ inbCache'.data = {new} /\ inbCache'.fetch = inbCache.fetch /\ inbCache'.result = inbCache.result
       /\ inbCache' = [data |-> inbCache'.data, fetch |-> inbCache'.fetch, result |-> inbCache'.result]
  BY <1>5 DEF InboxInv, PageOK, InbCacheOK
<1>11. /\ inbHeard' \in 0 .. inbVersion /\ inbHeard \in 0 .. inbVersion
       /\ inbHeard' >= inbHeard /\ inbHeard' >= message.version
  <2>1. inbHeard \in 0 .. inbVersion
    BY DEF InboxInv, PageOK
  <2>2. Max({inbHeard, message.version}) = IF inbHeard >= message.version THEN inbHeard ELSE message.version
    BY <1>1, <1>8, <2>1, MaxOfTwo
  <2>3. inbHeard' = IF inbHeard >= message.version THEN inbHeard ELSE message.version
    BY <1>5, <2>2
  <2> QED BY <1>1, <1>8, <2>1, <2>3
<1>12. inbCauses' = {} => inbCauses = {} /\ message.version > old.version
  <2>1. CASE message.version <= old.version
    BY <1>5, <2>1, BlameStays
  <2>2. CASE ~(message.version <= old.version)
    <3>1. inbCauses' = inbCauses
      BY <1>5, <2>2
    <3>2. old.version \in Int /\ message.version \in Int
      BY <1>1, <1>8, <1>9
    <3> QED BY <2>2, <3>1, <3>2
  <2> QED BY <2>1, <2>2
<1>13. MessagesOK'
  <2>1. \A i \in DOMAIN inbChannel' : OfARow(inbChannel[i + 1])
    BY <1>7 DEF InboxInv, MessagesOK
  <2>2. \A i \in DOMAIN inbChannel' : OfARow(inbChannel[i])'
    BY <1>6, <1>7, <2>1 DEF OfARow
  <2>3. \A r \in Writers : Inserted(r)' => OfARow(inbWriter[r])'
    BY <1>6 DEF InboxInv, MessagesOK, OfARow, Inserted
  <2>4. \A i, j \in DOMAIN inbChannel' : i # j => Apart(inbChannel'[i], inbChannel'[j])
    <3>1. \A i, j \in DOMAIN inbChannel : i # j => Apart(inbChannel[i], inbChannel[j])
      BY DEF InboxInv, MessagesOK
    <3>2. \A i, j \in DOMAIN inbChannel' : i # j => i + 1 # j + 1
      BY <1>7
    <3> QED BY <1>7, <3>1, <3>2
  <2>5. \A r, q \in Writers : Inserted(r)' /\ Inserted(q)' /\ r # q => Apart(inbWriter'[r], inbWriter'[q])
    BY <1>6 DEF InboxInv, MessagesOK, Inserted
  <2>6. \A i \in DOMAIN inbChannel', r \in Writers : Inserted(r)' => Apart(inbChannel'[i], inbWriter'[r])
    BY <1>6, <1>7 DEF InboxInv, MessagesOK, Inserted
  <2> QED BY <1>7, <2>2, <2>3, <2>4, <2>5, <2>6 DEF MessagesOK, Apart
<1>14. PageOK'
  <2>1. \A m : OfTheView(m)' <=> OfTheView(m)
    BY <1>6 DEF OfTheView
  <2>2. OfTheView(new) /\ new.version = old.version
    BY <1>4 DEF OfTheView, InboxInv, PageOK
  <2>3. InbCacheOK'
    BY <1>6, <1>9, <1>10, <2>1, <2>2 DEF InboxInv, PageOK, InbCacheOK
  <2>4. inbOnline
    BY <1>5 DEF InboxInv, PageOK
  <2> QED BY <1>6, <1>11, <2>3, <2>4 DEF InboxInv, PageOK
<1>15. PushesOrdered'
  <2> SUFFICES ASSUME inbView = "list"
               PROVE  /\ \A i \in DOMAIN inbChannel' : inbChannel'[i].version <= inbEmitted
                      /\ inbCauses' = {} => \A i, j \in DOMAIN inbChannel' :
                                               i < j => inbChannel'[i].version < inbChannel'[j].version
    BY <1>6 DEF PushesOrdered
  <2>1. /\ \A i \in DOMAIN inbChannel : inbChannel[i].version <= inbEmitted
        /\ inbCauses = {} => \A i, j \in DOMAIN inbChannel :
                                i < j => inbChannel[i].version < inbChannel[j].version
    BY DEF InboxInv, PushesOrdered
  <2>2. \A i, j \in DOMAIN inbChannel' : i < j => i + 1 < j + 1
    BY <1>7
  <2> QED BY <1>7, <1>12, <2>1, <2>2
<1>16. AnswerIsTrue'
  BY <1>6, <1>10 DEF InboxInv, AnswerIsTrue, Stored, Unread
<1>17. ASSUME NEW v
       PROVE  /\ message.version > v => /\ message.id \in ToCome(v) /\ ToCome(v)' = ToCome(v) \ {message.id}
              /\ ~(message.version > v) => ToCome(v)' = ToCome(v)
  <2>1. \A id : id \in ToCome(v) <=>
           \/ \E i \in DOMAIN inbChannel : inbChannel[i].version > v /\ id = inbChannel[i].id
           \/ \E q \in Writers : Inserted(q) /\ inbWriter[q].version > v /\ id = inbWriter[q].id
    BY DEF ToCome, PushesAfter, InsertsAfter
  <2>2. \A id : id \in ToCome(v)' <=>
           \/ \E i \in DOMAIN inbChannel' : inbChannel'[i].version > v /\ id = inbChannel'[i].id
           \/ \E q \in Writers : Inserted(q) /\ inbWriter[q].version > v /\ id = inbWriter[q].id
    BY <1>6 DEF ToCome, PushesAfter, InsertsAfter, Inserted
  <2>3. \A id : (\E i \in DOMAIN inbChannel' : inbChannel'[i].version > v /\ id = inbChannel'[i].id) <=>
           \E i \in DOMAIN inbChannel : i # 1 /\ inbChannel[i].version > v /\ id = inbChannel[i].id
    BY <1>7
  <2>4. \A i \in DOMAIN inbChannel : i # 1 => inbChannel[i].id # message.id
    <3>1. \A i \in DOMAIN inbChannel : i # 1 => Apart(inbChannel[i], message) /\ OfARow(inbChannel[i])
      BY <1>7 DEF InboxInv, MessagesOK
    <3> QED BY <1>1, <1>8, <3>1 DEF Apart, OfARow
  <2>5. \A q \in Writers : Inserted(q) => inbWriter[q].id # message.id
    <3>1. \A q \in Writers : Inserted(q) => Apart(message, inbWriter[q]) /\ OfARow(inbWriter[q])
      BY <1>7 DEF InboxInv, MessagesOK
    <3> QED BY <1>1, <1>8, <3>1 DEF Apart, OfARow
  <2>6. CASE message.version > v
    <3>1. message.id \in ToCome(v)
      BY <1>7, <2>1, <2>6
    <3>2. \A id : id \in ToCome(v)' <=> id \in ToCome(v) /\ id # message.id
      BY <1>7, <2>1, <2>2, <2>3, <2>4, <2>5, <2>6
    <3> QED BY <2>6, <3>1, <3>2
  <2>7. CASE ~(message.version > v)
    <3>1. \A id : id \in ToCome(v)' <=> id \in ToCome(v)
      BY <1>7, <2>1, <2>2, <2>3, <2>7
    <3> QED BY <2>7, <3>1
  <2> QED BY <2>6, <2>7
<1>18. Blameless' => Blameless /\ message.version > old.version
  BY <1>6, <1>12 DEF Blameless, Crossing, Inserted
<1>19. ASSUME Blameless, inbView = "list", NEW v \in Nat, NEW id \in ToCome(v)
       PROVE  message.id <= id
  <2>1. CASE \E i \in DOMAIN inbChannel : id = inbChannel[i].id
    <3>1. PICK i \in DOMAIN inbChannel : id = inbChannel[i].id
      BY <2>1
    <3>2. OfARow(inbChannel[i])
      BY DEF InboxInv, MessagesOK
    <3>3. CASE i = 1
      BY <1>1, <1>7, <3>1, <3>2, <3>3 DEF OfARow
    <3>4. CASE i # 1
      <4>1. message.version < inbChannel[i].version /\ Apart(message, inbChannel[i])
        <5>1. 1 < i
          BY <1>7, <3>4
        <5>2. message.version < inbChannel[i].version
          BY <1>7, <1>19, <5>1 DEF InboxInv, PushesOrdered, Blameless
        <5>3. Apart(message, inbChannel[i])
          BY <1>7, <3>4 DEF InboxInv, MessagesOK
        <5> QED BY <5>2, <5>3
      <4> QED BY <1>1, <1>8, <3>1, <3>2, <4>1 DEF Apart, OfARow
    <3> QED BY <3>3, <3>4
  <2>2. CASE \E q \in Writers : Inserted(q) /\ id = inbWriter[q].id
    <3>1. PICK q \in Writers : Inserted(q) /\ id = inbWriter[q].id
      BY <2>2
    <3>2. OfARow(inbWriter[q]) /\ Apart(message, inbWriter[q]) /\ inbEmitted \in Nat
      BY <1>1, <1>7, <3>1 DEF InboxInv, MessagesOK, PageOK
    <3>3. ~(inbWriter[q].version < inbEmitted)
      BY <1>19, <3>1 DEF Blameless, Crossing
    <3>4. message.version <= inbEmitted
      BY <1>7, <1>19 DEF InboxInv, PushesOrdered
    <3> QED BY <1>1, <1>8, <3>1, <3>2, <3>3, <3>4 DEF Apart, OfARow
  <2> QED BY <1>19, <2>1, <2>2 DEF ToCome, PushesAfter, InsertsAfter
<1>20. ASSUME Blameless', inbCache.fetch = "none"
       PROVE  Fits(new)'
  <2>1. Blameless /\ message.version > old.version /\ old \in inbCache.data /\ Fits(old)
    BY <1>9, <1>18, <1>20 DEF InboxInv, PageFits, PageOK, InbCacheOK, Blameless
  <2>2. PICK v \in Nat : v = old.version
    BY <1>1, <1>9
  <2>3. PICK late : late = ToCome(v)
    OBVIOUS
  <2>4. message.id \in late /\ ToCome(v)' = late \ {message.id} /\ late \subseteq Unread
    BY <1>17, <2>1, <2>2, <2>3 DEF Fits
  <2>5. Unread' = Unread /\ new.version = v
    BY <1>4, <1>6, <2>2 DEF Unread
  <2>6. message.id \in 1 .. Len(inbRows) /\ inbRows[message.id].state = "unread"
    BY <1>1, <2>4 DEF Unread
  <2>7. CASE inbView = "list"
    <3>1. PICK n \in 0 .. Len(inbRows) : late = n + 1 .. Len(inbRows) /\ old.list = ListUpTo(inbRows)[n]
      BY <2>1, <2>2, <2>3, <2>7 DEF Fits
    <3>2. n + 1 \in late
      BY <1>1, <2>4, <3>1
    <3>3. message.id = n + 1
      <4>1. message.id <= n + 1
        BY <1>19, <2>1, <2>3, <2>7, <3>2
      <4> QED BY <1>1, <2>4, <3>1, <4>1
    <3>4. ListUpTo(inbRows)[n + 1] = Longer(inbRows, ListUpTo(inbRows), n + 1)
      BY <1>1, <2>6, <3>3, ListSays
    <3>5. new.list = ListUpTo(inbRows)[n + 1]
      <4>1. n + 1 # 0 /\ (n + 1) - 1 = n
        OBVIOUS
      <4>2. inbRows[n + 1].state # "deleted" /\ (inbRows[n + 1].state = "unread") = TRUE
        BY <2>6, <3>3
      <4>3. Longer(inbRows, ListUpTo(inbRows), n + 1) = <<[id |-> n + 1, unread |-> TRUE]>> \o ListUpTo(inbRows)[n]
        BY <4>1, <4>2 DEF Longer
      <4>4. new.list = <<[id |-> message.id, unread |-> TRUE]>> \o old.list
        BY <1>4, <2>7
      <4> QED BY <3>1, <3>3, <3>4, <4>3, <4>4
    <3>6. ToCome(v)' = (n + 1) + 1 .. Len(inbRows) /\ n + 1 \in 0 .. Len(inbRows)
      BY <1>1, <2>4, <2>6, <3>1, <3>3
    <3> QED BY <1>6, <2>4, <2>5, <2>7, <3>5, <3>6 DEF Fits
  <2>8. CASE inbView # "list"
    <3>1. inbView = "badge" /\ new.count = old.count + 1
      BY <1>4, <2>8 DEF InboxInv, PageOK
    <3>2. old.count = Cardinality(Unread \ late)
      BY <2>1, <2>2, <2>3, <2>8 DEF Fits
    <3>3. IsFiniteSet(Unread \ late)
      BY <1>1, FS_Subset
    <3>4. message.id \notin Unread \ late /\ Unread \ (late \ {message.id}) = (Unread \ late) \cup {message.id}
      BY <2>4
    <3>5. Cardinality((Unread \ late) \cup {message.id}) = Cardinality(Unread \ late) + 1
      BY <3>3, <3>4, FS_AddElement
    <3> QED BY <1>6, <2>4, <2>5, <2>8, <3>1, <3>2, <3>4, <3>5 DEF Fits
  <2> QED BY <2>7, <2>8
<1>21. ASSUME Blameless', inbCache.fetch = "answered", NEW m \in inbCache.result
       PROVE  m.version < inbHeard' \/ Fits(m)'
  <2>1. m.version < inbHeard \/ Fits(m)
    BY <1>18, <1>21 DEF InboxInv, PageFits
  <2>2. m.version \in 0 .. inbVersion
    BY DEF InboxInv, PageOK, InbCacheOK
  <2>3. CASE message.version > m.version \/ m.version < inbHeard
    BY <1>1, <1>8, <1>11, <2>2, <2>3
  <2>4. CASE ~(message.version > m.version) /\ Fits(m)
    <3>1. StatesAsBefore /\ InboxOK'
      BY <1>6 DEF StatesAsBefore, AlmostInv
    <3> QED BY <1>1, <1>6, <1>17, <2>4, <3>1, FitsAsBefore
  <2> QED BY <2>1, <2>3, <2>4
<1>22. PageFits'
  BY <1>10, <1>20, <1>21 DEF PageFits
<1> QED BY <1>13, <1>14, <1>15, <1>16, <1>22 DEF InboxInv

LEMMA InboxStays ==
    ASSUME InboxInv, [InboxNext]_inbVars
    PROVE  InboxInv'
<1>1. AlmostInv'
  BY AlmostStays DEF InboxInv
<1>2. ASSUME NEW r \in Writers,
             \/ CheckAlmostTurn(r) \/ WantNotification(r)
             \/ \E enabled \in BOOLEAN : ReadPreference(r, enabled)
             \/ InsertNotificationFails(r)
      PROVE  InboxInv'
  BY <1>1, <1>2, WishesKeepInbox
<1>3. ASSUME NEW r \in Writers, InsertNotification(r) PROVE InboxInv'
  BY <1>1, <1>3, InsertKeepsInbox
<1>4. ASSUME NEW r \in Writers, EmitNotification(r) PROVE InboxInv'
  BY <1>1, <1>4, EmitKeepsInbox
<1>5. CASE \/ \E own \in BOOLEAN : MarkAllAsRead(own) \/ \E id \in DOMAIN inbRows : MarkAsRead(id, own)
           \/ \E id \in DOMAIN inbRows : DeleteNotification(id)
  BY <1>1, <1>5, ChangesKeepInbox
<1>6. CASE QueueEntryRemoved
  BY <1>1, <1>6, EntryGoneKeepsInbox
<1>7. CASE AnswerInbox
  BY <1>1, <1>7, AnswerKeepsInbox
<1>8. CASE DeliverInbox
  BY <1>1, <1>8, DeliveryKeepsInbox
<1>9. CASE InboxFetchFails
  BY <1>1, <1>9, FetchFailureKeepsInbox
<1>10. CASE OnNotificationNew
  BY <1>1, <1>10, HearingKeepsInbox
<1>11. CASE AcknowledgeMark \/ InboxConnects
  BY <1>1, <1>11, RefetchKeepsInbox
<1>12. CASE InboxDisconnects
  BY <1>1, <1>12, DisconnectionKeepsInbox
<1>13. CASE UNCHANGED inbVars
  <2>1. UNCHANGED <<inbRows, inbWriter, inbVersion, inbChannel, inbPage, inbEmitted, inbCauses>>
    BY <1>13 DEF inbVars, inbPage
  <2>2. InsertsAsBefore /\ StatesAsBefore
    BY <2>1 DEF InsertsAsBefore, StatesAsBefore, Inserted
  <2> QED BY <1>1, <2>1, <2>2, QuietKeepsInbox
<1> QED BY <1>2, <1>3, <1>4, <1>5, <1>6, <1>7, <1>8, <1>9, <1>10, <1>11, <1>12, <1>13 DEF InboxNext

\* Once nothing is on its way, a connected page shows the user's notifications
\* or their number as they are (onNotificationNew in the web's SocketProvider,
\* the list and badge queries), unless one of the causes named has come about,
\* for every number of requests, notifications and changes.
THEOREM InboxesAreCurrent == InboxSpec => []InboxIsCurrent
<1>1. ASSUME InboxInv PROVE InboxIsCurrent
  <2> SUFFICES ASSUME InboxAtRest, inbOnline, ~Fetching(inbCache), inbCauses = {},
                      NEW data \in inbCache.data
               PROVE  data.list = Stored.list /\ data.count = Stored.count
    BY DEF InboxIsCurrent
  <2>1. /\ inbChannel = <<>> /\ DOMAIN inbChannel = {} /\ inbAcks = 0
        /\ \A r \in Writers : ~Inserted(r)
    BY NothingIsASequence DEF InboxAtRest, Inserted
  <2>2. Blameless /\ inbCache.fetch = "none"
    BY <2>1 DEF Blameless, Crossing, Fetching
  <2>3. Fits(data)
    BY <1>1, <2>2 DEF InboxInv, PageFits
  <2>4. ToCome(data.version) = {}
    BY <2>1 DEF ToCome, PushesAfter, InsertsAfter
  <2>5. inbView \in {"list", "badge"} /\ OfTheView(data)
    BY <1>1 DEF InboxInv, PageOK, InbCacheOK
  <2>6. Len(inbRows) \in Nat
    BY <1>1, RowsAre DEF InboxInv, AlmostInv
  <2>7. CASE inbView = "list"
    <3>1. PICK n \in 0 .. Len(inbRows) : {} = n + 1 .. Len(inbRows) /\ data.list = ListUpTo(inbRows)[n]
      BY <2>3, <2>4, <2>7 DEF Fits
    <3>2. n = Len(inbRows)
      <4>1. n + 1 \notin n + 1 .. Len(inbRows)
        BY <3>1
      <4> QED BY <2>6, <3>1, <4>1
    <3> QED BY <2>5, <2>7, <3>1, <3>2 DEF Stored, ListOf, OfTheView
  <2>8. CASE inbView = "badge"
    <3>1. data.count = Cardinality(Unread \ {})
      BY <2>3, <2>4, <2>8 DEF Fits
    <3>2. Unread \ {} = Unread
      OBVIOUS
    <3> QED BY <2>5, <2>8, <3>1, <3>2 DEF Stored, OfTheView
  <2> QED BY <2>5, <2>7, <2>8
<1>2. (\E view \in {"list", "badge"} : InboxStart(view)) => InboxInv
  BY InboxInitially
<1> QED BY <1>1, <1>2, InboxStays, PTL DEF InboxSpec


-----------------------------------------------------------------------------
(* The Queue screens.                                                      *)

\* What rows of a queue say of an entry: of one they do not name, that it is
\* gone.
Names(rows, e) == e \in DOMAIN rows
Said(rows, e)  == IF Names(rows, e) THEN rows[e] ELSE RemovedRow
Right(rows, e) == Said(rows, e) = Said(AllRows(scrQueue), e)

\* Right, and said.
Tells(rows, e) == Names(rows, e) /\ Right(rows, e)

\* What a request that has committed will push: what it has read, or what it
\* would read now.  To a customer it keeps the version it committed when it
\* pushes a row of theirs of its own.
Pending(h) == scrCall[h].phase # "idle"
Keeps(h)   == scrViewer = "CUSTOMER" /\ DOMAIN scrCall[h].direct \cap Mine # {}
SeenBy(h)  == IF scrCall[h].phase = "committed" THEN Snapshot(scrQueue) ELSE scrCall[h].seen

DueVersion(h) == IF scrCall[h].phase = "committed" /\ ~Keeps(h) THEN scrVersion
                                                                ELSE scrCall[h].version

DueRows(h) == IF scrViewer = "PROVIDER" THEN SeenBy(h)
              ELSE Over(Onto(scrCall[h].direct, Mine), Onto(SeenBy(h), Mine))

IsCall(c) == /\ c = [phase |-> c.phase, version |-> c.version, direct |-> c.direct, seen |-> c.seen]
             /\ c.phase \in {"idle", "committed", "listed"}
             /\ c.version \in Nat

IsQueue(q) == /\ q = [status |-> q.status, line |-> q.line]
              /\ q.status = [e \in Entries |-> q.status[e]]
              /\ \A e \in Entries : q.status[e] # "REMOVED"

IsMessage(m) == m = [version |-> m.version, rows |-> m.rows] /\ m.version \in Nat

ScrServer == <<scrViewer, scrQueue, scrVersion, scrCall, scrEmitted>>

ServerOK == /\ scrViewer \in {"PROVIDER", "CUSTOMER"}
            /\ IsQueue(scrQueue)
            /\ scrVersion \in Nat
            /\ scrCall = [h \in Handlers |-> scrCall[h]]
            /\ \A h \in Handlers : IsCall(scrCall[h]) /\ scrCall[h].version <= scrVersion
            /\ scrEmitted \in Nat /\ scrEmitted <= scrVersion

ChannelOK == /\ scrSocket \in {"off", "connected", "joined"}
             /\ scrViewer = "CUSTOMER" => scrSocket # "connected"
             /\ IsSequence(scrChannel)
             /\ \A i \in DOMAIN scrChannel : IsMessage(scrChannel[i]) /\ scrChannel[i].version <= scrVersion
             /\ scrSocket = "off" => scrChannel = <<>>
             /\ scrHeard \in Nat

IsCache(c) == /\ c = [data |-> c.data, fetch |-> c.fetch, result |-> c.result]
              /\ c.fetch \in {"none", "sent", "reading", "answered"}
              /\ c.fetch \in {"none", "sent"} => c.result = {}
              /\ \A m \in c.data \cup c.result : IsMessage(m)
              /\ \A m, n \in c.result : m = n

CacheOK == /\ IsCache(scrCache)
           /\ scrViewer = "PROVIDER" => scrCache.fetch # "reading"
           /\ \A m \in scrCache.data \cup scrCache.result : m.version <= scrVersion

ScrOK == ServerOK /\ ChannelOK /\ CacheOK

\* A provider: what is newest is the queue as it is ...
NewestIsTrue ==
    /\ \A h \in Handlers : Pending(h) /\ DueVersion(h) = scrVersion => DueRows(h) = Snapshot(scrQueue)
    /\ \A i \in DOMAIN scrChannel :
          scrChannel[i].version = scrVersion => scrChannel[i].rows = Snapshot(scrQueue)
    /\ \A m \in scrCache.data \cup scrCache.result :
          m.version = scrVersion => m.rows \in {Snapshot(scrQueue), AllRows(scrQueue)}

NewestDue == \E h \in Handlers : Pending(h) /\ DueVersion(h) = scrVersion

EndsWithNewest ==
    IF scrChannel # <<>> THEN scrChannel[Len(scrChannel)].version = scrVersion
    ELSE /\ scrCache.fetch = "none" => \A m \in scrCache.data : m.version = scrVersion
         /\ scrCache.fetch = "answered" =>
               \A m \in scrCache.result : m.version = scrVersion \/ m.version < scrHeard

\* ... and unless something is to blame, is still to be pushed or was the last
\* pushed; if the latter, to a screen that is connected, it is what that shows
\* in the end.
ProviderInv ==
    scrViewer = "PROVIDER" =>
      /\ NewestIsTrue
      /\ scrCauses = {} =>
           /\ NewestDue \/ scrEmitted = scrVersion \/ \A h \in Handlers : ~Pending(h)
           /\ scrSocket # "off" /\ ~NewestDue => EndsWithNewest

\* A customer: an entry of theirs is right in the newest answer ...
OwnRows(rows) == /\ rows = [e \in DOMAIN rows |-> rows[e]]
                 /\ DOMAIN rows \subseteq Mine
                 /\ \A e \in DOMAIN rows : rows[e] # RemovedRow

ReadRows(rows) == \A e \in DOMAIN rows : /\ rows[e] = [status |-> rows[e].status, ahead |-> rows[e].ahead]
                                         /\ rows[e].status # "REMOVED"

OwnRowsOK ==
    /\ \A i \in DOMAIN scrChannel : DOMAIN scrChannel[i].rows \subseteq Mine
    /\ \A m \in scrCache.data \cup scrCache.result : OwnRows(m.rows)
    /\ \A m \in scrCache.result : ReadRows(m.rows)
    /\ \A m \in scrCache.result : m.version = scrVersion => \A e \in Mine : Right(m.rows, e)

WillTell(e, v) == \E h \in Handlers : Pending(h) /\ Tells(DueRows(h), e) /\ DueVersion(h) > v

\* ... and unless something is to blame, whoever will push it wrong is out of
\* turn or not the last ...
PushesMended(e) ==
    \A h \in Handlers : Pending(h) /\ Names(DueRows(h), e) /\ ~Right(DueRows(h), e) =>
       DueVersion(h) < scrEmitted \/ WillTell(e, DueVersion(h))

\* ... a wrong answer is out of turn or followed by what is right ...
AnswerMended(e) ==
    \A m \in scrCache.result : ~Right(m.rows, e) =>
       \/ m.version < scrHeard
       \/ \E i \in DOMAIN scrChannel : Tells(scrChannel[i].rows, e) /\ scrChannel[i].version > m.version
       \/ WillTell(e, m.version)

\* ... and what is right is still to be pushed, or the last that was pushed, or
\* on show if it does not change.
LastWordIsRight(e) ==
    \/ \E h \in Handlers : Pending(h) /\ Tells(DueRows(h), e)
    \/ \E i \in DOMAIN scrChannel : /\ Tells(scrChannel[i].rows, e)
                                    /\ \A j \in DOMAIN scrChannel : j > i => ~Names(scrChannel[j].rows, e)
    \/ /\ \A i \in DOMAIN scrChannel : ~Names(scrChannel[i].rows, e)
       /\ scrCache.fetch = "none" => \A m \in scrCache.data : Right(m.rows, e)

CustomerInv ==
    scrViewer = "CUSTOMER" =>
      /\ OwnRowsOK
      /\ scrCauses = {} =>
           \A e \in Mine : /\ PushesMended(e)
                           /\ scrSocket = "joined" => AnswerMended(e) /\ LastWordIsRight(e)

ScrInv == ScrOK /\ ProviderInv /\ CustomerInv

\* The rows that are pushed on top of others.
LEMMA OverSays ==
    ASSUME NEW new, NEW old, NEW e
    PROVE  /\ Names(Over(new, old), e) <=> Names(new, e) \/ Names(old, e)
           /\ Said(Over(new, old), e) = IF Names(new, e) THEN new[e] ELSE Said(old, e)
BY DEF Over, Names, Said

LEMMA OntoSays ==
    ASSUME NEW rows, NEW entries, NEW e
    PROVE  /\ Names(Onto(rows, entries), e) <=> Names(rows, e) /\ e \in entries
           /\ Said(Onto(rows, entries), e) = IF e \in entries THEN Said(rows, e) ELSE RemovedRow
           /\ Names(rows, e) /\ e \in entries => Onto(rows, entries)[e] = rows[e]
BY DEF Onto, Names, Said

\* What there is to say of an entry.
LEMMA TrueRows ==
    ASSUME NEW q, IsQueue(q), NEW e \in Entries
    PROVE  /\ Names(AllRows(q), e) <=> q.status[e] # "ABSENT"
           /\ Said(AllRows(q), e) = IF q.status[e] = "ABSENT" THEN RemovedRow ELSE RowOf(q, e)
           /\ Names(Snapshot(q), e) <=> q.status[e] \in LiveStatuses
           /\ Names(Snapshot(q), e) => Snapshot(q)[e] = Said(AllRows(q), e)
           /\ Names(Snapshot(q), e) <=> Said(AllRows(q), e).status \in LiveStatuses
<1>1. /\ Names(AllRows(q), e) <=> q.status[e] # "ABSENT"
      /\ Names(AllRows(q), e) => AllRows(q)[e] = RowOf(q, e)
  BY DEF AllRows, RowsOf, IdsWith, Names
<1>2. /\ Names(Snapshot(q), e) <=> q.status[e] \in LiveStatuses
      /\ Names(Snapshot(q), e) => Snapshot(q)[e] = RowOf(q, e)
  BY DEF Snapshot, RowsOf, IdsWith, Names
<1>3. RowOf(q, e).status = q.status[e] /\ RemovedRow.status = "REMOVED"
  BY DEF RowOf, RemovedRow
<1> QED BY <1>1, <1>2, <1>3 DEF Said, LiveStatuses

\* Steps of the screen change nothing in what is still to be pushed.
LEMMA ScrServerAsBefore ==
    ASSUME UNCHANGED ScrServer
    PROVE  /\ ServerOK => ServerOK'
           /\ \A h : /\ Pending(h)' <=> Pending(h)
                     /\ DueVersion(h)' = DueVersion(h)
                     /\ DueRows(h)' = DueRows(h)
           /\ \A rows, e : Right(rows, e)' <=> Right(rows, e)
<1>1. /\ scrViewer' = scrViewer /\ scrQueue' = scrQueue /\ scrVersion' = scrVersion
      /\ scrCall' = scrCall /\ scrEmitted' = scrEmitted
  BY DEF ScrServer
<1>2. ServerOK => ServerOK'
  BY <1>1 DEF ServerOK
<1>3. \A h : Pending(h)' <=> Pending(h)
  BY <1>1 DEF Pending
<1>4. \A h : Keeps(h)' <=> Keeps(h)
  BY <1>1 DEF Keeps
<1>5. \A h : DueVersion(h)' = DueVersion(h)
  BY <1>1, <1>4 DEF DueVersion
<1>6. \A h : SeenBy(h)' = SeenBy(h)
  BY <1>1 DEF SeenBy
<1>7. \A h : DueRows(h)' = DueRows(h)
  BY <1>1, <1>6 DEF DueRows
<1>8. \A rows, e : Right(rows, e)' <=> Right(rows, e)
  BY <1>1 DEF Right
<1> QED BY <1>2, <1>3, <1>5, <1>7, <1>8

LEMMA PushesAsBefore ==
    ASSUME UNCHANGED ScrServer
    PROVE  /\ NewestDue' <=> NewestDue
           /\ \A e, v : WillTell(e, v)' <=> WillTell(e, v)
           /\ \A e : PushesMended(e) => PushesMended(e)'
           /\ \A rows, e : Tells(rows, e)' <=> Tells(rows, e)
<1>1. /\ \A h : /\ Pending(h)' <=> Pending(h)
                /\ DueVersion(h)' = DueVersion(h)
                /\ DueRows(h)' = DueRows(h)
      /\ \A rows, e : Right(rows, e)' <=> Right(rows, e)
      /\ scrVersion' = scrVersion /\ scrEmitted' = scrEmitted
  BY ScrServerAsBefore DEF ScrServer
<1>2. NewestDue' <=> NewestDue
  BY <1>1 DEF NewestDue
<1>3. \A rows, e : Tells(rows, e)' <=> Tells(rows, e)
  BY <1>1 DEF Tells
<1>4. \A e, v : WillTell(e, v)' <=> WillTell(e, v)
  BY <1>1, <1>3 DEF WillTell
<1>5. \A e : PushesMended(e) => PushesMended(e)'
  BY <1>1, <1>4 DEF PushesMended
<1> QED BY <1>2, <1>3, <1>4, <1>5

LEMMA ScrInitially ==
    ASSUME NEW viewer \in {"PROVIDER", "CUSTOMER"}, ScreenStart(viewer)
    PROVE  ScrInv
<1>1. /\ scrViewer \in {"PROVIDER", "CUSTOMER"} /\ scrVersion = 0
      /\ scrCall = [h \in Handlers |-> NoCall] /\ scrSocket = "off" /\ scrChannel = <<>>
      /\ scrCache = Mounted /\ scrEmitted = 0 /\ scrHeard = 0
  BY DEF ScreenStart
<1>2. IsQueue(scrQueue)
  <2>1. PICK line \in FirstLines :
           scrQueue = [status |-> [e \in Entries |-> IF e \in ToSet(line) THEN "WAITING" ELSE "ABSENT"],
                       line |-> line]
    BY DEF ScreenStart
  <2> QED BY <2>1 DEF IsQueue
<1>3. IsCall(NoCall) /\ NoCall.phase = "idle" /\ NoCall.version = 0
  BY DEF IsCall, NoCall
<1>4. ServerOK /\ \A h \in Handlers : ~Pending(h)
  BY <1>1, <1>2, <1>3 DEF ServerOK, Pending
<1>5. IsCache(scrCache) /\ scrCache.fetch = "sent" /\ scrCache.data = {} /\ scrCache.result = {}
  BY <1>1 DEF IsCache, Mounted
<1>6. ScrOK
  BY <1>1, <1>4, <1>5, NothingIsASequence DEF ScrOK, ChannelOK, CacheOK
<1>7. ProviderInv
  BY <1>1, <1>4, <1>5, NothingIsASequence DEF ProviderInv, NewestIsTrue
<1>8. \A e \in Mine : PushesMended(e)
  BY <1>4 DEF PushesMended
<1>9. OwnRowsOK
  BY <1>1, <1>5, NothingIsASequence DEF OwnRowsOK
<1>10. CustomerInv
  BY <1>1, <1>8, <1>9 DEF CustomerInv
<1> QED BY <1>6, <1>7, <1>10 DEF ScrInv

\* A step of the screen, as far as what is still to be pushed goes.
LEMMA ScreenSteps ==
    ASSUME ScrInv, UNCHANGED ScrServer
    PROVE  /\ ServerOK'
           /\ scrViewer' = scrViewer /\ scrQueue' = scrQueue /\ scrVersion' = scrVersion
           /\ scrViewer = "PROVIDER" => CustomerInv'
           /\ scrViewer = "CUSTOMER" => ProviderInv'
           /\ scrViewer = "PROVIDER" /\ scrCauses = {} =>
                 (NewestDue \/ scrEmitted = scrVersion \/ \A h \in Handlers : ~Pending(h))'
           /\ scrViewer = "CUSTOMER" /\ scrCauses = {} => \A e \in Mine : PushesMended(e)'
<1>1. ServerOK /\ ServerOK' /\ scrViewer' = scrViewer /\ scrQueue' = scrQueue /\ scrVersion' = scrVersion
  BY ScrServerAsBefore DEF ScrInv, ScrOK, ScrServer
<1>2. scrViewer = "PROVIDER" => CustomerInv'
  BY <1>1 DEF CustomerInv
<1>3. scrViewer = "CUSTOMER" => ProviderInv'
  BY <1>1 DEF ProviderInv
<1>4. scrViewer = "PROVIDER" /\ scrCauses = {} =>
         (NewestDue \/ scrEmitted = scrVersion \/ \A h \in Handlers : ~Pending(h))'
  BY ScrServerAsBefore, PushesAsBefore DEF ScrInv, ProviderInv, ScrServer
<1>5. scrViewer = "CUSTOMER" /\ scrCauses = {} => \A e \in Mine : PushesMended(e)'
  BY PushesAsBefore DEF ScrInv, CustomerInv
<1> QED BY <1>1, <1>2, <1>3, <1>4, <1>5

LEMMA AnswerKeepsProvider ==
    ASSUME ScrInv, AnswerQueue
    PROVE  ScrInv'
<1> DEFINE answer == [version |-> scrVersion, rows |-> AllRows(scrQueue)]
<1>1. /\ UNCHANGED ScrServer /\ UNCHANGED <<scrSocket, scrChannel, scrHeard, scrCauses>>
      /\ scrViewer = "PROVIDER" /\ scrCache' = Answered(scrCache, answer)
      /\ ScrOK /\ IsCache(scrCache) /\ scrVersion \in Nat
  BY DEF AnswerQueue, ScrServer, ScrInv, ScrOK, CacheOK, ServerOK
<1>2. IsMessage(answer) /\ answer.version = scrVersion /\ answer.rows = AllRows(scrQueue)
  BY <1>1 DEF IsMessage
<1>3. scrCache' = [data |-> scrCache.data, fetch |-> "answered", result |-> {answer}]
  BY <1>1 DEF Answered, IsCache
<1> HIDE DEF answer
<1>4. ChannelOK'
  BY <1>1 DEF ScrOK, ChannelOK, ScrServer
<1>5. CacheOK'
  BY <1>1, <1>2, <1>3 DEF ScrOK, CacheOK, IsCache, ScrServer
<1>6. NewestIsTrue'
  BY <1>1, <1>2, <1>3, ScrServerAsBefore DEF ScrInv, ProviderInv, NewestIsTrue, ScrServer
<1>7. scrCauses' = {} /\ scrSocket' # "off" /\ ~NewestDue' => EndsWithNewest'
  BY <1>1, <1>2, <1>3, PushesAsBefore DEF ScrInv, ProviderInv, EndsWithNewest, ScrServer
<1>8. ProviderInv'
  BY <1>1, <1>6, <1>7, ScreenSteps DEF ProviderInv
<1> QED BY <1>1, <1>4, <1>5, <1>8, ScreenSteps DEF ScrInv, ScrOK

LEMMA AnswerKeepsCustomer ==
    ASSUME ScrInv, scrViewer = "CUSTOMER", UNCHANGED ScrServer,
           UNCHANGED <<scrSocket, scrChannel, scrHeard, scrCauses>>,
           NEW fetch \in {"reading", "answered"}, NEW answer,
           IsMessage(answer), answer.version <= scrVersion, OwnRows(answer.rows), ReadRows(answer.rows),
           answer.version = scrVersion => \A e \in Mine : Right(answer.rows, e),
           \A e \in Mine : ~Right(answer.rows, e) =>
              \E m \in scrCache.result : m.version = answer.version /\ ~Right(m.rows, e),
           scrCache' = [data |-> scrCache.data, fetch |-> fetch, result |-> {answer}]
    PROVE  ScrInv'
<1>1. ScrOK /\ ServerOK'
  BY ScreenSteps DEF ScrInv
<1>2. ChannelOK'
  BY <1>1 DEF ScrOK, ChannelOK, ScrServer
<1>3. CacheOK'
  BY <1>1 DEF ScrOK, CacheOK, IsCache, ScrServer
<1>4. OwnRowsOK'
  BY ScrServerAsBefore DEF ScrInv, CustomerInv, OwnRowsOK, ScrServer
<1>5. ASSUME scrCauses = {}, NEW e \in Mine, scrSocket = "joined"
      PROVE  AnswerMended(e)' /\ LastWordIsRight(e)'
  <2>1. AnswerMended(e) /\ LastWordIsRight(e)
    BY <1>5 DEF ScrInv, CustomerInv
  <2>2. AnswerMended(e)'
    BY <2>1, ScrServerAsBefore, PushesAsBefore DEF AnswerMended
  <2>3. LastWordIsRight(e)'
    BY <2>1, ScrServerAsBefore, PushesAsBefore DEF LastWordIsRight
  <2> QED BY <2>2, <2>3
<1>6. CustomerInv'
  BY <1>4, <1>5, ScreenSteps DEF CustomerInv
<1> QED BY <1>1, <1>2, <1>3, <1>6, ScreenSteps DEF ScrInv, ScrOK

\* A customer is answered in two readings; the second renumbers what the first
\* has found.
LEMMA OwnAnswersKeepScreen ==
    ASSUME ScrInv, ReadOwnEntries \/ AnswerOwnEntries
    PROVE  ScrInv'
<1>1. /\ ScrOK /\ ServerOK /\ IsCache(scrCache) /\ IsQueue(scrQueue) /\ scrVersion \in Nat
      /\ UNCHANGED ScrServer /\ UNCHANGED <<scrSocket, scrChannel, scrHeard, scrCauses>>
  BY DEF ReadOwnEntries, AnswerOwnEntries, ScrServer, ScrInv, ScrOK, CacheOK, ServerOK
<1>2. \A e \in Mine : e \in Entries
  BY MineAssumption
<1>3. \A e \in Mine : Names(AllRows(scrQueue), e) =>
         /\ AllRows(scrQueue)[e] = [status |-> AllRows(scrQueue)[e].status, ahead |-> AllRows(scrQueue)[e].ahead]
         /\ AllRows(scrQueue)[e].status # "REMOVED"
  BY <1>1, <1>2 DEF IsQueue, AllRows, RowsOf, RowOf, IdsWith, Names
<1>4. RemovedRow.status = "REMOVED"
  BY DEF RemovedRow
<1>5. CASE ReadOwnEntries
  <2> DEFINE rows == Onto(AllRows(scrQueue), Mine)
             answer == [version |-> scrVersion, rows |-> rows]
  <2>1. scrViewer = "CUSTOMER" /\ scrCache' = Answering(scrCache, answer)
    BY <1>5 DEF ReadOwnEntries
  <2>2. scrCache' = [data |-> scrCache.data, fetch |-> "reading", result |-> {answer}]
    BY <1>1, <2>1 DEF Answering, IsCache
  <2>3. rows = [e \in DOMAIN rows |-> rows[e]] /\ DOMAIN rows \subseteq Mine
    BY DEF Onto
  <2>4. \A e \in DOMAIN rows : Names(AllRows(scrQueue), e) /\ rows[e] = AllRows(scrQueue)[e]
    BY DEF Onto, Names
  <2>5. \A e \in Mine : Right(rows, e)
    BY OntoSays DEF Right
  <2>6. OwnRows(rows) /\ ReadRows(rows)
    BY <1>3, <1>4, <2>3, <2>4 DEF OwnRows, ReadRows
  <2>7. IsMessage(answer) /\ answer.version = scrVersion /\ answer.rows = rows
    BY <1>1 DEF IsMessage
  <2> HIDE DEF rows, answer
  <2> QED BY <1>1, <2>1, <2>2, <2>5, <2>6, <2>7, AnswerKeepsCustomer
<1>6. CASE AnswerOwnEntries
  <2>1. PICK own \in scrCache.result :
           scrCache' = Answered(scrCache,
              [own EXCEPT !.rows = Over(Onto(AllRows(scrQueue), DOMAIN own.rows),
                                        [e \in DOMAIN own.rows |-> [own.rows[e] EXCEPT !.ahead = 0]])])
    BY <1>6 DEF AnswerOwnEntries
  <2>2. /\ scrViewer = "CUSTOMER" /\ scrCache.fetch = "reading"
        /\ own = [version |-> own.version, rows |-> own.rows] /\ own.version \in Nat /\ own.version <= scrVersion
    BY <1>1, <1>6 DEF AnswerOwnEntries, ScrOK, CacheOK, IsCache, IsMessage, ServerOK
  <2>3. OwnRows(own.rows) /\ ReadRows(own.rows)
        /\ (own.version = scrVersion => \A e \in Mine : Right(own.rows, e))
    BY <2>2 DEF ScrInv, CustomerInv, OwnRowsOK
  <2> DEFINE gone   == [e \in DOMAIN own.rows |-> [own.rows[e] EXCEPT !.ahead = 0]]
             rows   == Over(Onto(AllRows(scrQueue), DOMAIN own.rows), gone)
             answer == [version |-> own.version, rows |-> rows]
  <2>4. scrCache' = [data |-> scrCache.data, fetch |-> "answered", result |-> {answer}]
    <3>1. \A own2 : own2 = [version |-> own.version, rows |-> own.rows] =>
             [own2 EXCEPT !.rows = rows] = answer
      OBVIOUS
    <3>2. [own EXCEPT !.rows = rows] = answer
      BY <2>2, <3>1
    <3>3. scrCache' = Answered(scrCache, answer)
      BY <2>1, <3>2
    <3> HIDE DEF answer
    <3> QED BY <1>1, <3>3 DEF Answered, IsCache
  <2>5. rows = [e \in DOMAIN rows |-> rows[e]] /\ DOMAIN rows = DOMAIN own.rows
    BY DEF Over, Onto
  <2>6. \A e \in DOMAIN own.rows :
           rows[e] = IF Names(AllRows(scrQueue), e) THEN AllRows(scrQueue)[e] ELSE [own.rows[e] EXCEPT !.ahead = 0]
    BY DEF Over, Onto, Names
  <2>7. \A e \in DOMAIN own.rows :
           [own.rows[e] EXCEPT !.ahead = 0] = [status |-> own.rows[e].status, ahead |-> 0]
    <3>1. ASSUME NEW row, row = [status |-> row.status, ahead |-> row.ahead]
          PROVE  [row EXCEPT !.ahead = 0] = [status |-> row.status, ahead |-> 0]
      BY <3>1
    <3> QED BY <2>3, <3>1 DEF ReadRows
  <2>8. OwnRows(rows) /\ ReadRows(rows)
    <3>1. \A e \in DOMAIN rows : e \in Mine /\ e \in DOMAIN own.rows
      BY <2>3, <2>5 DEF OwnRows
    <3>2. ASSUME NEW e \in DOMAIN rows
          PROVE  rows[e] = [status |-> rows[e].status, ahead |-> rows[e].ahead] /\ rows[e].status # "REMOVED"
      <4>1. CASE Names(AllRows(scrQueue), e)
        BY <1>3, <2>6, <3>1, <4>1
      <4>2. CASE ~Names(AllRows(scrQueue), e)
        <5>1. rows[e] = [status |-> own.rows[e].status, ahead |-> 0]
          BY <2>6, <2>7, <3>1, <4>2
        <5>2. own.rows[e].status # "REMOVED"
          BY <2>3, <3>1 DEF ReadRows
        <5> QED BY <5>1, <5>2
      <4> QED BY <4>1, <4>2
    <3> QED BY <1>4, <2>5, <3>1, <3>2 DEF OwnRows, ReadRows
  <2>9. ASSUME NEW e \in Mine, Right(own.rows, e)
        PROVE  Right(rows, e)
    <3>1. CASE e \notin DOMAIN own.rows
      BY <2>5, <2>9, <3>1 DEF Right, Said, Names
    <3>2. CASE e \in DOMAIN own.rows /\ Names(AllRows(scrQueue), e)
      BY <2>5, <2>6, <3>2 DEF Right, Said, Names
    <3>3. CASE e \in DOMAIN own.rows /\ ~Names(AllRows(scrQueue), e)
      BY <2>3, <2>9, <3>3 DEF Right, Said, Names, OwnRows
    <3> QED BY <3>1, <3>2, <3>3
  <2>10. IsMessage(answer) /\ answer.version = own.version /\ answer.rows = rows
    BY <2>2 DEF IsMessage
  <2> HIDE DEF gone, rows, answer
  <2>11. \A e \in Mine : ~Right(answer.rows, e) =>
            \E m \in scrCache.result : m.version = answer.version /\ ~Right(m.rows, e)
    BY <2>9, <2>10
  <2>12. answer.version = scrVersion => \A e \in Mine : Right(answer.rows, e)
    BY <2>3, <2>9, <2>10
  <2> QED BY <1>1, <2>2, <2>4, <2>8, <2>10, <2>11, <2>12, AnswerKeepsCustomer
<1> QED BY <1>5, <1>6

LEMMA DeliveryKeepsScreen ==
    ASSUME ScrInv, Deliver
    PROVE  ScrInv'
<1>1. /\ ScrOK /\ IsCache(scrCache) /\ scrVersion \in Nat
      /\ UNCHANGED ScrServer /\ UNCHANGED <<scrSocket, scrChannel, scrHeard>>
      /\ scrCache.fetch = "answered"
      /\ scrCache' = [data |-> scrCache.result, fetch |-> "none", result |-> {}]
  BY DEF Deliver, Delivered, ScrServer, ScrInv, ScrOK, CacheOK, ServerOK
<1>2. PICK answer \in scrCache.result :
         scrCauses' = IF AtRest /\ answer.version = scrVersion THEN {}
                      ELSE IF answer.version < scrHeard THEN Blamed(scrCauses, "overtaken")
                      ELSE scrCauses
  BY DEF Deliver
<1>3. scrCache.result = {answer} /\ answer.version \in Nat /\ scrHeard \in Nat
  BY <1>1 DEF IsCache, IsMessage, ScrOK, ChannelOK
<1>4. ChannelOK'
  BY <1>1 DEF ScrOK, ChannelOK, ScrServer
<1>5. CacheOK'
  BY <1>1 DEF ScrOK, CacheOK, IsCache, ScrServer
<1>6. CASE scrViewer = "PROVIDER"
  <2>1. NewestIsTrue'
    BY <1>1, <1>6, ScrServerAsBefore DEF ScrInv, ProviderInv, NewestIsTrue, ScrServer
  <2>2. CASE AtRest /\ answer.version = scrVersion
    <3>1. (\A h \in Handlers : ~Pending(h)) /\ scrChannel = <<>>
      BY <2>2 DEF AtRest, Pending
    <3>2. \A h \in Handlers : ~Pending(h)'
      BY <1>1, <3>1, ScrServerAsBefore
    <3>3. EndsWithNewest'
      BY <1>1, <1>3, <2>2, <3>1 DEF EndsWithNewest, ScrServer
    <3>4. ProviderInv'
      BY <2>1, <3>2, <3>3 DEF ProviderInv
    <3> QED BY <1>1, <1>4, <1>5, <1>6, <3>4, ScreenSteps DEF ScrInv, ScrOK
  <2>3. CASE ~(AtRest /\ answer.version = scrVersion)
    <3>1. scrCauses' = {} => scrCauses = {} /\ ~(answer.version < scrHeard)
      BY <1>2, <2>3, BlameStays
    <3>2. scrCauses' = {} /\ scrSocket' # "off" /\ ~NewestDue' => EndsWithNewest'
      BY <1>1, <1>3, <1>6, <3>1, PushesAsBefore DEF ScrInv, ProviderInv, EndsWithNewest, ScrServer
    <3>3. ProviderInv'
      BY <1>1, <1>6, <2>1, <3>1, <3>2, ScreenSteps DEF ProviderInv
    <3> QED BY <1>1, <1>4, <1>5, <1>6, <3>3, ScreenSteps DEF ScrInv, ScrOK
  <2> QED BY <2>2, <2>3
<1>7. CASE scrViewer = "CUSTOMER"
  <2>1. OwnRowsOK'
    BY <1>1, <1>7, ScrServerAsBefore DEF ScrInv, CustomerInv, OwnRowsOK, ScrServer
  <2>2. \A e \in Mine : AnswerMended(e)'
    BY <1>1 DEF AnswerMended
  <2>3. CASE AtRest /\ answer.version = scrVersion
    <3>1. (\A h \in Handlers : ~Pending(h)) /\ scrChannel = <<>>
      BY <2>3 DEF AtRest, Pending
    <3>2. \A h \in Handlers : ~Pending(h)'
      BY <1>1, <3>1, ScrServerAsBefore
    <3>3. \A e \in Mine : PushesMended(e)'
      BY <3>2 DEF PushesMended
    <3>4. \A e \in Mine : Right(answer.rows, e)
      BY <1>7, <2>3 DEF ScrInv, CustomerInv, OwnRowsOK
    <3>5. \A e \in Mine : LastWordIsRight(e)'
      BY <1>1, <1>3, <3>1, <3>4, ScrServerAsBefore, NothingIsASequence DEF LastWordIsRight
    <3>6. CustomerInv'
      BY <2>1, <2>2, <3>3, <3>5 DEF CustomerInv
    <3> QED BY <1>1, <1>4, <1>5, <1>7, <3>6, ScreenSteps DEF ScrInv, ScrOK
  <2>4. CASE ~(AtRest /\ answer.version = scrVersion)
    <3>1. scrCauses' = {} => scrCauses = {} /\ ~(answer.version < scrHeard)
      BY <1>2, <2>4, BlameStays
    <3>2. ASSUME scrCauses' = {}, scrSocket = "joined", NEW e \in Mine
          PROVE  LastWordIsRight(e)'
      <4>1. AnswerMended(e) /\ LastWordIsRight(e)
        BY <1>7, <3>1, <3>2 DEF ScrInv, CustomerInv
      <4>2. CASE Right(answer.rows, e)
        BY <1>1, <1>3, <4>1, <4>2, ScrServerAsBefore, PushesAsBefore DEF LastWordIsRight
      <4>3. CASE ~Right(answer.rows, e)
        <5>1. \/ \E i \in DOMAIN scrChannel : Names(scrChannel[i].rows, e)
              \/ \E h \in Handlers : Pending(h) /\ Tells(DueRows(h), e)
          BY <1>3, <3>1, <3>2, <4>1, <4>3 DEF AnswerMended, WillTell, Tells
        <5> QED BY <1>1, <4>1, <5>1, ScrServerAsBefore, PushesAsBefore DEF LastWordIsRight
      <4> QED BY <4>2, <4>3
    <3>3. CustomerInv'
      BY <1>1, <1>7, <2>1, <2>2, <3>1, <3>2, ScreenSteps DEF CustomerInv
    <3> QED BY <1>1, <1>4, <1>5, <1>7, <3>3, ScreenSteps DEF ScrInv, ScrOK
  <2> QED BY <2>3, <2>4
<1> QED BY <1>1, <1>6, <1>7 DEF ScrOK, ServerOK

\* A failed query is to blame, and leaves what is on show.
LEMMA QueryFailureKeepsScreen ==
    ASSUME ScrInv, FetchFails
    PROVE  ScrInv'
<1>1. /\ ScrOK /\ IsCache(scrCache)
      /\ UNCHANGED ScrServer /\ UNCHANGED <<scrSocket, scrChannel, scrHeard>>
      /\ scrCache' = [data |-> scrCache.data, fetch |-> "none", result |-> {}]
      /\ scrCauses' # {}
  BY BlameStays DEF FetchFails, GaveUp, ScrServer, ScrInv, ScrOK, CacheOK, IsCache
<1>2. ChannelOK'
  BY <1>1 DEF ScrOK, ChannelOK, ScrServer
<1>3. CacheOK'
  BY <1>1 DEF ScrOK, CacheOK, IsCache, ScrServer
<1>4. ProviderInv'
  BY <1>1, ScrServerAsBefore DEF ScrInv, ProviderInv, NewestIsTrue, ScrServer
<1>5. scrViewer = "CUSTOMER" => OwnRowsOK'
  BY <1>1, ScrServerAsBefore DEF ScrInv, CustomerInv, OwnRowsOK, ScrServer
<1>6. CustomerInv'
  BY <1>1, <1>5 DEF CustomerInv, ScrServer
<1> QED BY <1>1, <1>2, <1>3, <1>4, <1>6, ScreenSteps DEF ScrInv, ScrOK

LEMMA RefetchAsks ==
    ASSUME NEW c, IsCache(c)
    PROVE  /\ IsCache(Invalidated(c))
           /\ Invalidated(c).data = c.data /\ Invalidated(c).result \subseteq c.result
           /\ Invalidated(c).fetch \in {"sent", c.fetch}
           /\ ~JoinsOlder(c) => Invalidated(c).fetch = "sent" /\ Invalidated(c).result = {}
<1>1. Refetched(c) = [data |-> c.data, fetch |-> "sent", result |-> {}]
  <2>1. c = [data |-> c.data, fetch |-> c.fetch, result |-> c.result]
    BY DEF IsCache
  <2>2. ASSUME NEW x, x = Refetched(c)
        PROVE  x = [data |-> c.data, fetch |-> "sent", result |-> {}]
    BY <2>1, <2>2 DEF Refetched
  <2> QED BY <2>2
<1>2. CASE c.data = {} /\ Fetching(c)
  BY <1>2 DEF Invalidated, JoinsOlder, Fetching, IsCache
<1>3. CASE ~(c.data = {} /\ Fetching(c))
  BY <1>1, <1>3 DEF Invalidated, IsCache
<1> QED BY <1>2, <1>3

\* A screen that connects, or is told of its own success, asks for everything,
\* unless it joins a request that is to blame.
LEMMA RefetchKeepsScreen ==
    ASSUME ScrInv, Refetch, UNCHANGED ScrServer, UNCHANGED <<scrChannel, scrHeard>>,
           scrSocket' \in {"off", "connected", "joined"},
           scrViewer = "CUSTOMER" => scrSocket' # "connected",
           scrSocket' = scrSocket \/ (scrSocket = "off" /\ scrSocket' # "off")
    PROVE  ScrInv'
<1>1. /\ ScrOK /\ IsCache(scrCache) /\ scrCache' = Invalidated(scrCache)
      /\ scrCauses' = {} => scrCauses = {} /\ ~JoinsOlder(scrCache)
  BY BlameStays DEF Refetch, ScrInv, ScrOK, CacheOK
<1>2. /\ IsCache(scrCache')
      /\ scrCache'.data = scrCache.data /\ scrCache'.result \subseteq scrCache.result
      /\ scrCache'.fetch \in {"sent", scrCache.fetch}
      /\ scrCauses' = {} => scrCauses = {} /\ scrCache'.fetch = "sent" /\ scrCache'.result = {}
  BY <1>1, RefetchAsks
<1>3. ChannelOK'
  BY <1>1 DEF ScrOK, ChannelOK, ScrServer
<1>4. CacheOK'
  BY <1>1, <1>2 DEF ScrOK, CacheOK, ScrServer
<1>5. CASE scrViewer = "PROVIDER"
  <2>1. NewestIsTrue'
    BY <1>2, <1>5, ScrServerAsBefore DEF ScrInv, ProviderInv, NewestIsTrue, ScrServer
  <2>2. scrCauses' = {} /\ scrSocket' # "off" /\ ~NewestDue' => EndsWithNewest'
    <3>1. CASE scrSocket = "off"
      BY <1>1, <1>2, <3>1 DEF EndsWithNewest, ScrOK, ChannelOK
    <3>2. CASE scrSocket # "off"
      BY <1>2, <1>5, <3>2, PushesAsBefore DEF ScrInv, ProviderInv, EndsWithNewest, ScrServer
    <3> QED BY <3>1, <3>2
  <2>3. ProviderInv'
    BY <1>2, <1>5, <2>1, <2>2, ScreenSteps DEF ProviderInv
  <2> QED BY <1>3, <1>4, <1>5, <2>3, ScreenSteps DEF ScrInv, ScrOK
<1>6. CASE scrViewer = "CUSTOMER"
  <2>1. OwnRowsOK'
    BY <1>2, <1>6, ScrServerAsBefore DEF ScrInv, CustomerInv, OwnRowsOK, ScrServer
  <2>2. ASSUME scrCauses' = {}, scrSocket' = "joined", NEW e \in Mine
        PROVE  AnswerMended(e)' /\ LastWordIsRight(e)'
    <3>1. AnswerMended(e)'
      BY <1>2, <2>2 DEF AnswerMended
    <3>2. CASE scrSocket = "off"
      BY <1>1, <1>2, <2>2, <3>1, <3>2, NothingIsASequence DEF LastWordIsRight, ScrOK, ChannelOK
    <3>3. CASE scrSocket = "joined"
      <4>1. LastWordIsRight(e)
        BY <1>2, <1>6, <2>2, <3>3 DEF ScrInv, CustomerInv
      <4> QED BY <1>2, <2>2, <3>1, <4>1, ScrServerAsBefore, PushesAsBefore DEF LastWordIsRight
    <3> QED BY <2>2, <3>1, <3>2, <3>3
  <2>3. CustomerInv'
    BY <1>2, <1>6, <2>1, <2>2, ScreenSteps DEF CustomerInv
  <2> QED BY <1>3, <1>4, <1>6, <2>3, ScreenSteps DEF ScrInv, ScrOK
<1> QED BY <1>1, <1>5, <1>6 DEF ScrOK, ServerOK

\* A provider's socket joins its room; a socket closes and loses what was on
\* its way.
LEMMA SocketKeepsScreen ==
    ASSUME ScrInv, JoinRoom \/ Disconnect
    PROVE  ScrInv'
<1>1. /\ ScrOK /\ UNCHANGED ScrServer /\ UNCHANGED <<scrCache, scrHeard, scrCauses>>
  BY DEF JoinRoom, Disconnect, ScrServer, ScrInv
<1>2. \/ scrSocket = "connected" /\ scrSocket' = "joined" /\ scrChannel' = scrChannel
      \/ scrSocket' = "off" /\ scrChannel' = <<>>
  BY DEF JoinRoom, Disconnect
<1>3. ChannelOK'
  BY <1>1, <1>2, NothingIsASequence DEF ScrOK, ChannelOK, ScrServer
<1>4. CacheOK'
  BY <1>1 DEF ScrOK, CacheOK, ScrServer
<1>5. CASE scrViewer = "PROVIDER"
  <2>1. NewestIsTrue'
    BY <1>1, <1>2, <1>5, ScrServerAsBefore, NothingIsASequence
       DEF ScrInv, ProviderInv, NewestIsTrue, ScrServer
  <2>2. scrCauses' = {} /\ scrSocket' # "off" /\ ~NewestDue' => EndsWithNewest'
    BY <1>1, <1>2, <1>5, PushesAsBefore DEF ScrInv, ProviderInv, EndsWithNewest, ScrServer
  <2>3. ProviderInv'
    BY <1>1, <1>5, <2>1, <2>2, ScreenSteps DEF ProviderInv
  <2> QED BY <1>1, <1>3, <1>4, <1>5, <2>3, ScreenSteps DEF ScrInv, ScrOK
<1>6. CASE scrViewer = "CUSTOMER"
  <2>1. OwnRowsOK'
    BY <1>1, <1>2, <1>6, ScrServerAsBefore, NothingIsASequence
       DEF ScrInv, CustomerInv, OwnRowsOK, ScrServer
  <2>2. scrSocket' = "off"
    BY <1>1, <1>2, <1>6 DEF ScrOK, ChannelOK
  <2>3. CustomerInv'
    BY <1>1, <1>6, <2>1, <2>2, ScreenSteps DEF CustomerInv
  <2> QED BY <1>1, <1>3, <1>4, <1>6, <2>3, ScreenSteps DEF ScrInv, ScrOK
<1> QED BY <1>1, <1>5, <1>6 DEF ScrOK, ServerOK

LEMMA MergedSays ==
    ASSUME NEW rows, NEW pushed
    PROVE  /\ \A e : Said(Merged(rows, pushed), e) = IF Names(pushed, e) THEN pushed[e] ELSE Said(rows, e)
           /\ DOMAIN rows \subseteq Mine /\ DOMAIN pushed \subseteq Mine => OwnRows(Merged(rows, pushed))
<1> DEFINE all == Over(pushed, rows)
           left == {x \in DOMAIN all : all[x] # RemovedRow}
<1>1. Merged(rows, pushed) = [e \in left |-> all[e]]
  BY DEF Merged
<1>2. DOMAIN all = DOMAIN pushed \cup DOMAIN rows
  BY DEF Over
<1>3. \A e : Said(all, e) = IF Names(pushed, e) THEN pushed[e] ELSE Said(rows, e)
  BY OverSays
<1> HIDE DEF all
<1>4. \A e : Said(Merged(rows, pushed), e) = Said(all, e)
  BY <1>1 DEF Said, Names
<1>5. DOMAIN rows \subseteq Mine /\ DOMAIN pushed \subseteq Mine => OwnRows(Merged(rows, pushed))
  BY <1>1, <1>2 DEF OwnRows
<1> QED BY <1>3, <1>4, <1>5

\* A screen shows what it hears: a provider's nothing else, a customer's as
\* far as there is something to change.
LEMMA HearingKeepsScreen ==
    ASSUME ScrInv, Receive
    PROVE  ScrInv'
<1> DEFINE message == Head(scrChannel)
           last    == Len(scrChannel)
<1>1. /\ ScrOK /\ IsCache(scrCache) /\ scrVersion \in Nat /\ scrHeard \in Nat
      /\ UNCHANGED ScrServer /\ UNCHANGED <<scrSocket, scrCauses>>
      /\ scrChannel # <<>> /\ IsSequence(scrChannel) /\ scrChannel' = Tail(scrChannel)
      /\ scrHeard' = Max({scrHeard, message.version})
  BY DEF Receive, ScrServer, ScrInv, ScrOK, CacheOK, ChannelOK, ServerOK
<1>2. /\ IsSequence(scrChannel') /\ last \in Nat \ {0} /\ DOMAIN scrChannel = 1 .. last
      /\ message = scrChannel[1] /\ DOMAIN scrChannel' = 1 .. last - 1 /\ Len(scrChannel') = last - 1
      /\ \A i \in 1 .. last - 1 : scrChannel'[i] = scrChannel[i + 1]
  BY <1>1, TailFacts
<1>3. IsMessage(message) /\ message.version \in Nat /\ message.version <= scrVersion
  BY <1>1, <1>2 DEF ScrOK, ChannelOK, IsMessage
<1>4. scrHeard' \in Nat /\ scrHeard' >= scrHeard /\ scrHeard' >= message.version
  BY <1>1, <1>3, MaxOfTwo
<1>5. \A i \in DOMAIN scrChannel' : i + 1 \in DOMAIN scrChannel /\ scrChannel'[i] = scrChannel[i + 1]
  BY <1>2
<1>6. scrChannel' = <<>> <=> last = 1
  BY <1>2, EmptySeq DEF IsSequence
<1>7. ChannelOK'
  BY <1>1, <1>2, <1>4, <1>5 DEF ScrOK, ChannelOK, ScrServer
<1> HIDE DEF message
<1>8. CASE scrViewer = "PROVIDER"
  <2>1. scrCache' = [data |-> {message}, fetch |-> scrCache.fetch, result |-> scrCache.result]
    BY <1>1, <1>8 DEF Receive, WithData, IsCache, message
  <2>2. CacheOK'
    BY <1>1, <1>3, <2>1 DEF ScrOK, CacheOK, IsCache, ScrServer
  <2>3. NewestIsTrue
    BY <1>8 DEF ScrInv, ProviderInv
  <2>4. NewestIsTrue'
    <3>1. message.version = scrVersion => message.rows = Snapshot(scrQueue)
      BY <1>2, <2>3 DEF NewestIsTrue
    <3> QED BY <1>1, <1>5, <2>1, <2>3, <3>1, ScrServerAsBefore DEF NewestIsTrue, ScrServer
  <2>5. ASSUME scrCauses' = {}, scrSocket' # "off", ~NewestDue'
        PROVE  EndsWithNewest'
    <3>1. EndsWithNewest
      BY <1>1, <1>8, <2>5, PushesAsBefore DEF ScrInv, ProviderInv
    <3>2. scrChannel[last].version = scrVersion
      BY <1>1, <3>1 DEF EndsWithNewest
    <3>3. CASE last = 1
      <4>1. message.version = scrVersion
        BY <1>2, <3>2, <3>3
      <4>2. \A m \in scrCache.result : m.version \in Nat /\ m.version <= scrVersion
        BY <1>1 DEF ScrOK, CacheOK, IsCache, IsMessage
      <4> QED BY <1>1, <1>4, <1>6, <2>1, <3>3, <4>1, <4>2 DEF EndsWithNewest, ScrServer
    <3>4. CASE last # 1
      <4>1. last - 1 \in 1 .. last - 1
        BY <1>2, <3>4
      <4>2. scrChannel'[Len(scrChannel')] = scrChannel[last]
        BY <1>2, <4>1
      <4> QED BY <1>1, <1>6, <3>2, <3>4, <4>2 DEF EndsWithNewest, ScrServer
    <3> QED BY <3>3, <3>4
  <2>6. ProviderInv'
    BY <1>1, <1>8, <2>4, <2>5, ScreenSteps DEF ProviderInv
  <2> QED BY <1>1, <1>7, <1>8, <2>2, <2>6, ScreenSteps DEF ScrInv, ScrOK
<1>9. CASE scrViewer = "CUSTOMER"
  <2> DEFINE Shown(old) == [version |-> message.version, rows |-> Merged(old.rows, message.rows)]
  <2>1. message = [version |-> message.version, rows |-> message.rows]
    BY <1>3 DEF IsMessage
  <2>2. \A old : [message EXCEPT !.rows = Merged(old.rows, @)] = Shown(old)
    BY <2>1
  <2>3. scrCache' = [scrCache EXCEPT !.data = {[message EXCEPT !.rows = Merged(old.rows, @)] : old \in scrCache.data}]
    BY <1>9 DEF Receive, message
  <2>4. {[message EXCEPT !.rows = Merged(old.rows, @)] : old \in scrCache.data}
          = {Shown(old) : old \in scrCache.data}
    BY <2>2
  <2>5. scrCache' = [data |-> {Shown(old) : old \in scrCache.data}, fetch |-> scrCache.fetch,
                     result |-> scrCache.result]
    BY <1>1, <2>3, <2>4 DEF IsCache
  <2>6. \A old : /\ IsMessage(Shown(old)) /\ Shown(old).version = message.version
                 /\ Shown(old).rows = Merged(old.rows, message.rows)
    BY <1>3 DEF IsMessage
  <2> HIDE DEF Shown
  <2>7. CacheOK'
    BY <1>1, <1>3, <2>5, <2>6 DEF ScrOK, CacheOK, IsCache, ScrServer
  <2>8. OwnRowsOK /\ DOMAIN message.rows \subseteq Mine
    BY <1>2, <1>9 DEF ScrInv, CustomerInv, OwnRowsOK
  <2>9. \A old \in scrCache.data : OwnRows(Shown(old).rows)
    <3>1. \A old \in scrCache.data : DOMAIN old.rows \subseteq Mine
      BY <2>8 DEF OwnRowsOK, OwnRows
    <3> QED BY <2>6, <2>8, <3>1, MergedSays
  <2>10. OwnRowsOK'
    BY <1>1, <1>5, <2>5, <2>8, <2>9, ScrServerAsBefore DEF OwnRowsOK, ScrServer
  <2>11. ASSUME scrCauses' = {}, scrSocket' = "joined", NEW e \in Mine
         PROVE  AnswerMended(e)' /\ LastWordIsRight(e)'
    <3>1. AnswerMended(e) /\ LastWordIsRight(e)
      BY <1>1, <1>9, <2>11 DEF ScrInv, CustomerInv
    <3>2. AnswerMended(e)'
      <4> SUFFICES ASSUME NEW m \in scrCache.result, ~Right(m.rows, e)
                   PROVE  \/ m.version < scrHeard'
                          \/ \E i \in DOMAIN scrChannel' :
                                Tells(scrChannel'[i].rows, e) /\ scrChannel'[i].version > m.version
                          \/ WillTell(e, m.version)
        BY <1>1, <2>5, ScrServerAsBefore, PushesAsBefore DEF AnswerMended
      <4>1. m.version \in Nat
        BY <1>1 DEF IsCache, IsMessage
      <4>2. CASE m.version < scrHeard
        BY <1>1, <1>4, <4>1, <4>2
      <4>3. ASSUME NEW i \in DOMAIN scrChannel, Tells(scrChannel[i].rows, e), scrChannel[i].version > m.version
            PROVE  \/ m.version < scrHeard'
                   \/ \E j \in DOMAIN scrChannel' :
                         Tells(scrChannel'[j].rows, e) /\ scrChannel'[j].version > m.version
        <5>1. CASE i = 1
          BY <1>2, <1>3, <1>4, <4>1, <4>3, <5>1
        <5>2. CASE i # 1
          <6>1. i - 1 \in 1 .. last - 1 /\ i - 1 + 1 = i
            BY <1>2, <5>2
          <6> QED BY <1>2, <4>3, <6>1
        <5> QED BY <5>1, <5>2
      <4> QED BY <3>1, <4>2, <4>3 DEF AnswerMended
    <3>3. LastWordIsRight(e)'
      <4>1. CASE \E h \in Handlers : Pending(h) /\ Tells(DueRows(h), e)
        BY <1>1, <4>1, ScrServerAsBefore, PushesAsBefore DEF LastWordIsRight
      <4>2. ASSUME NEW i \in DOMAIN scrChannel, Tells(scrChannel[i].rows, e),
                   \A j \in DOMAIN scrChannel : j > i => ~Names(scrChannel[j].rows, e)
            PROVE  LastWordIsRight(e)'
        <5>1. CASE i = 1
          <6>1. \A j \in DOMAIN scrChannel' : ~Names(scrChannel'[j].rows, e)
            BY <1>2, <1>5, <4>2, <5>1
          <6>2. \A old \in scrCache.data : Right(Shown(old).rows, e)
            BY <1>2, <2>6, <4>2, <5>1, MergedSays DEF Right, Tells, Said
          <6> QED BY <1>1, <2>5, <6>1, <6>2, ScrServerAsBefore DEF LastWordIsRight
        <5>2. CASE i # 1
          <6>1. i - 1 \in DOMAIN scrChannel' /\ scrChannel'[i - 1] = scrChannel[i]
            BY <1>2, <5>2
          <6>2. \A j \in DOMAIN scrChannel' : j > i - 1 => ~Names(scrChannel'[j].rows, e)
            BY <1>2, <1>5, <4>2, <5>2
          <6> QED BY <1>1, <4>2, <6>1, <6>2, PushesAsBefore DEF LastWordIsRight
        <5> QED BY <5>1, <5>2
      <4>3. CASE /\ \A i \in DOMAIN scrChannel : ~Names(scrChannel[i].rows, e)
                 /\ scrCache.fetch = "none" => \A m \in scrCache.data : Right(m.rows, e)
        <5>1. ~Names(message.rows, e)
          BY <1>2, <4>3
        <5>2. \A old : Right(old.rows, e) => Right(Shown(old).rows, e)
          BY <2>6, <5>1, MergedSays DEF Right
        <5> QED BY <1>1, <1>5, <2>5, <4>3, <5>2, ScrServerAsBefore DEF LastWordIsRight
      <4> QED BY <3>1, <4>1, <4>2, <4>3 DEF LastWordIsRight
    <3> QED BY <3>2, <3>3
  <2>12. CustomerInv'
    BY <1>1, <1>9, <2>10, <2>11, ScreenSteps DEF CustomerInv
  <2> QED BY <1>1, <1>7, <1>9, <2>7, <2>12, ScreenSteps DEF ScrInv, ScrOK
<1> QED BY <1>1, <1>8, <1>9 DEF ScrOK, ServerOK

\* What the other requests will push is as before.
LEMMA OtherCallsAsBefore ==
    ASSUME UNCHANGED <<scrViewer, scrQueue, scrVersion>>, NEW k, scrCall'[k] = scrCall[k]
    PROVE  (Pending(k)' <=> Pending(k)) /\ DueVersion(k)' = DueVersion(k) /\ DueRows(k)' = DueRows(k)
<1>1. Pending(k)' <=> Pending(k)
  BY DEF Pending
<1>2. Keeps(k)' <=> Keeps(k)
  BY DEF Keeps
<1>3. SeenBy(k)' = SeenBy(k)
  BY DEF SeenBy
<1>4. DueVersion(k)' = DueVersion(k)
  BY <1>2 DEF DueVersion
<1>5. DueRows(k)' = DueRows(k)
  BY <1>3 DEF DueRows
<1> QED BY <1>1, <1>4, <1>5

LEMMA RightAsBefore ==
    ASSUME scrQueue' = scrQueue
    PROVE  \A rows, e : (Right(rows, e)' <=> Right(rows, e)) /\ (Tells(rows, e)' <=> Tells(rows, e))
<1>1. \A rows, e : Right(rows, e)' <=> Right(rows, e)
  BY DEF Right
<1> QED BY <1>1 DEF Tells

\* A request reads what it would have read.
LEMMA ReadingKeepsScreen ==
    ASSUME ScrInv, NEW h \in Handlers, ReadSnapshot(h)
    PROVE  ScrInv'
<1> DEFINE c == scrCall[h]
           d == [phase |-> "listed", direct |-> c.direct, seen |-> Snapshot(scrQueue),
                 version |-> IF Keeps(h) THEN c.version ELSE scrVersion]
<1>1. /\ ScrOK /\ ServerOK /\ IsCall(c) /\ c.version <= scrVersion /\ scrVersion \in Nat /\ c.phase = "committed"
      /\ scrCall = [k \in Handlers |-> scrCall[k]]
      /\ UNCHANGED <<scrViewer, scrQueue, scrVersion, scrEmitted, scrSocket, scrChannel, scrCache,
                     scrHeard, scrCauses>>
  BY DEF ReadSnapshot, ScrInv, ScrOK, ServerOK
<1>2. scrCall' = [scrCall EXCEPT ![h] = d]
  BY DEF ReadSnapshot, Keeps
<1>3. /\ d.phase = "listed" /\ d.direct = c.direct /\ d.seen = Snapshot(scrQueue)
      /\ d.version = IF Keeps(h) THEN c.version ELSE scrVersion
      /\ IsCall(d) /\ d.version <= scrVersion
  BY <1>1 DEF IsCall
<1> HIDE DEF d
<1>4. scrCall'[h] = d /\ \A k \in Handlers \ {h} : scrCall'[k] = scrCall[k]
  BY <1>1, <1>2
<1>5. ServerOK'
  BY <1>1, <1>2, <1>3, <1>4 DEF ServerOK
<1>6. \A k \in Handlers : (Pending(k)' <=> Pending(k)) /\ DueVersion(k)' = DueVersion(k) /\ DueRows(k)' = DueRows(k)
  <2>1. Pending(h)' /\ Pending(h)
    BY <1>1, <1>3, <1>4 DEF Pending
  <2>2. DueVersion(h)' = DueVersion(h)
    BY <1>1, <1>3, <1>4 DEF DueVersion
  <2>3. SeenBy(h)' = SeenBy(h)
    BY <1>1, <1>3, <1>4 DEF SeenBy
  <2>4. DueRows(h)' = DueRows(h)
    BY <1>1, <1>3, <1>4, <2>3 DEF DueRows
  <2> QED BY <1>1, <1>4, <2>1, <2>2, <2>4, OtherCallsAsBefore
<1>7. (NewestDue' <=> NewestDue) /\ (NewestIsTrue => NewestIsTrue') /\ (EndsWithNewest => EndsWithNewest')
  BY <1>1, <1>6 DEF NewestDue, NewestIsTrue, EndsWithNewest
<1>8. ProviderInv'
  BY <1>1, <1>6, <1>7 DEF ScrInv, ProviderInv
<1>9. \A e, v : WillTell(e, v)' <=> WillTell(e, v)
  BY <1>1, <1>6, RightAsBefore DEF WillTell
<1>10. \A e : /\ PushesMended(e) => PushesMended(e)'
              /\ AnswerMended(e) => AnswerMended(e)'
              /\ LastWordIsRight(e) => LastWordIsRight(e)'
  BY <1>1, <1>6, <1>9, RightAsBefore DEF PushesMended, AnswerMended, LastWordIsRight
<1>11. OwnRowsOK => OwnRowsOK'
  BY <1>1, RightAsBefore DEF OwnRowsOK
<1>12. CustomerInv'
  BY <1>1, <1>10, <1>11 DEF ScrInv, CustomerInv
<1> QED BY <1>1, <1>5, <1>8, <1>12 DEF ScrInv, ScrOK, ChannelOK, CacheOK

LEMMA NoCallIsACall == IsCall(NoCall) /\ NoCall.phase = "idle" /\ NoCall.version = 0
BY DEF IsCall, NoCall

\* A push that fails is to blame.
LEMMA PushFailureKeepsScreen ==
    ASSUME ScrInv, NEW h \in Handlers, PushFails(h)
    PROVE  ScrInv'
<1>1. /\ ScrOK /\ ServerOK /\ scrCall = [k \in Handlers |-> scrCall[k]]
      /\ UNCHANGED <<scrViewer, scrQueue, scrVersion, scrEmitted, scrSocket, scrChannel, scrCache, scrHeard>>
      /\ scrCall' = [scrCall EXCEPT ![h] = NoCall] /\ scrCauses' # {} /\ scrVersion \in Nat
  BY BlameStays DEF PushFails, ScrInv, ScrOK, ServerOK
<1>2. scrCall'[h] = NoCall /\ \A k \in Handlers \ {h} : scrCall'[k] = scrCall[k]
  BY <1>1
<1>3. ServerOK'
  BY <1>1, <1>2, NoCallIsACall DEF ServerOK
<1>4. ~Pending(h)'
  BY <1>2, NoCallIsACall DEF Pending
<1>5. NewestIsTrue => NewestIsTrue'
  BY <1>1, <1>2, <1>4, OtherCallsAsBefore DEF NewestIsTrue
<1>6. ProviderInv'
  BY <1>1, <1>5 DEF ScrInv, ProviderInv
<1>7. OwnRowsOK => OwnRowsOK'
  BY <1>1, RightAsBefore DEF OwnRowsOK
<1>8. CustomerInv'
  BY <1>1, <1>7 DEF ScrInv, CustomerInv
<1> QED BY <1>1, <1>3, <1>6, <1>8 DEF ScrInv, ScrOK, ChannelOK, CacheOK

LEMMA RestartKeepsScreen ==
    ASSUME ScrInv, PushesLost
    PROVE  ScrInv'
<1>1. /\ ScrOK /\ ServerOK /\ scrVersion \in Nat
      /\ UNCHANGED <<scrViewer, scrQueue, scrVersion, scrEmitted, scrCache, scrHeard, scrCauses>>
      /\ scrCall' = [k \in Handlers |-> NoCall] /\ scrSocket' = "off" /\ scrChannel' = <<>>
  BY DEF PushesLost, ScrInv, ScrOK, ServerOK
<1>2. ServerOK' /\ \A k \in Handlers : ~Pending(k)'
  BY <1>1, NoCallIsACall DEF ServerOK, Pending
<1>3. ChannelOK' /\ CacheOK'
  BY <1>1, NothingIsASequence DEF ScrOK, ChannelOK, CacheOK
<1>4. NewestIsTrue => NewestIsTrue'
  BY <1>1, <1>2, NothingIsASequence DEF NewestIsTrue
<1>5. ProviderInv'
  BY <1>1, <1>2, <1>4 DEF ScrInv, ProviderInv
<1>6. OwnRowsOK => OwnRowsOK'
  BY <1>1, RightAsBefore, NothingIsASequence DEF OwnRowsOK
<1>7. \A e : PushesMended(e)'
  BY <1>2 DEF PushesMended
<1>8. CustomerInv'
  BY <1>1, <1>6, <1>7 DEF ScrInv, CustomerInv
<1> QED BY <1>2, <1>3, <1>5, <1>8 DEF ScrInv, ScrOK

\* What is pushed reaches a screen in its room, and is to blame when it comes
\* after what is newer or before the screen is in its room.
LEMMA PushKeepsScreen ==
    ASSUME ScrInv, NEW h \in Handlers, Push(h)
    PROVE  ScrInv'
<1> DEFINE message == [version |-> scrCall[h].version, rows |-> PushedRows(h)]
           silent  == scrViewer = "CUSTOMER" /\ DOMAIN PushedRows(h) = {}
           version == scrCall[h].version
           rows    == DueRows(h)
           last    == Len(scrChannel)
<1>1. /\ ScrOK /\ ServerOK /\ scrVersion \in Nat /\ scrEmitted \in Nat /\ scrEmitted <= scrVersion
      /\ scrCall = [k \in Handlers |-> scrCall[k]]
      /\ version \in Nat /\ version <= scrVersion /\ scrCall[h].phase = "listed"
      /\ UNCHANGED <<scrViewer, scrQueue, scrVersion, scrSocket, scrCache, scrHeard>>
      /\ IsSequence(scrChannel)
  BY DEF Push, ScrInv, ScrOK, ServerOK, IsCall, ChannelOK
<1>2. PushedRows(h) = rows /\ DueVersion(h) = version /\ Pending(h)
  BY <1>1 DEF PushedRows, DueRows, SeenBy, DueVersion, Pending, ScrInv, ScrOK, ServerOK
<1>3. /\ message = [version |-> version, rows |-> rows] /\ IsMessage(message)
      /\ message.version = version /\ message.rows = rows
      /\ silent <=> scrViewer = "CUSTOMER" /\ DOMAIN rows = {}
  BY <1>1, <1>2 DEF IsMessage
<1>4. /\ scrCall' = [scrCall EXCEPT ![h] = NoCall]
      /\ scrChannel' = IF scrSocket = "joined" /\ ~silent THEN Append(scrChannel, message) ELSE scrChannel
      /\ scrEmitted' = IF silent THEN scrEmitted ELSE Max({scrEmitted, message.version})
      /\ scrCauses' = IF scrSocket = "connected" THEN Blamed(scrCauses, "unjoined")
                      ELSE IF ~silent /\ message.version < scrEmitted THEN Blamed(scrCauses, "crossed")
                      ELSE scrCauses
  BY DEF Push
<1> HIDE DEF message, silent, rows
<1>5. /\ scrCauses' = {} => scrCauses = {} /\ scrSocket # "connected" /\ (~silent => version >= scrEmitted)
      /\ scrEmitted' \in Nat /\ scrEmitted' <= scrVersion /\ scrEmitted' >= scrEmitted
      /\ ~silent => scrEmitted' >= version
      /\ ~silent /\ version >= scrEmitted => scrEmitted' = version
  <2>1. Max({scrEmitted, message.version}) = IF scrEmitted >= version THEN scrEmitted ELSE version
    BY <1>1, <1>3, MaxOfTwo
  <2>2. scrCauses' = {} => scrCauses = {} /\ scrSocket # "connected" /\ ~(~silent /\ version < scrEmitted)
    BY <1>3, <1>4, BlameStays
  <2> QED BY <1>1, <1>4, <2>1, <2>2
<1>6. scrCall'[h] = NoCall /\ \A k \in Handlers \ {h} : scrCall'[k] = scrCall[k]
  BY <1>1, <1>4
<1>7. ServerOK'
  BY <1>1, <1>4, <1>5, <1>6, NoCallIsACall DEF ServerOK
<1>8. /\ ~Pending(h)'
      /\ \A k \in Handlers \ {h} : /\ Pending(k)' <=> Pending(k)
                                   /\ DueVersion(k)' = DueVersion(k) /\ DueRows(k)' = DueRows(k)
  BY <1>1, <1>6, NoCallIsACall, OtherCallsAsBefore DEF Pending
<1>9. /\ last \in Nat /\ DOMAIN scrChannel = 1 .. last
      /\ LET longer == Append(scrChannel, message)
         IN  /\ IsSequence(longer) /\ longer # <<>> /\ Len(longer) = last + 1
             /\ DOMAIN longer = 1 .. last + 1 /\ longer[last + 1] = message
             /\ \A i \in 1 .. last : longer[i] = scrChannel[i]
  BY <1>1, AppendFacts
<1>10. ChannelOK'
  <2>1. CASE scrSocket = "joined" /\ ~silent
    <3>1. \A i \in DOMAIN scrChannel' :
             scrChannel'[i] = message \/ (i \in DOMAIN scrChannel /\ scrChannel'[i] = scrChannel[i])
      BY <1>4, <1>9, <2>1
    <3>2. IsSequence(scrChannel')
      BY <1>4, <1>9, <2>1
    <3> QED BY <1>1, <1>3, <2>1, <3>1, <3>2 DEF ScrOK, ChannelOK
  <2>2. CASE ~(scrSocket = "joined" /\ ~silent)
    BY <1>1, <1>4, <2>2 DEF ScrOK, ChannelOK
  <2> QED BY <2>1, <2>2
<1>11. CacheOK'
  BY <1>1 DEF ScrOK, CacheOK
<1>12. \A i \in DOMAIN scrChannel' :
          scrChannel'[i] = message \/ (i \in DOMAIN scrChannel /\ scrChannel'[i] = scrChannel[i])
  BY <1>4, <1>9
<1>13. CASE scrViewer = "PROVIDER"
  <2>1. NewestIsTrue /\ ~silent
    BY <1>3, <1>13 DEF ScrInv, ProviderInv
  <2>2. version = scrVersion => rows = Snapshot(scrQueue)
    BY <1>2, <2>1 DEF NewestIsTrue, rows
  <2>3. NewestIsTrue'
    BY <1>1, <1>3, <1>8, <1>12, <2>1, <2>2 DEF NewestIsTrue
  <2>4. ASSUME scrCauses' = {}
        PROVE  /\ (NewestDue \/ scrEmitted = scrVersion \/ \A k \in Handlers : ~Pending(k))'
               /\ scrSocket' # "off" /\ ~NewestDue' => EndsWithNewest'
    <3>1. /\ scrCauses = {} /\ version >= scrEmitted /\ scrSocket # "connected" /\ scrEmitted' = version
          /\ NewestDue \/ scrEmitted = scrVersion
          /\ scrSocket # "off" /\ ~NewestDue => EndsWithNewest
      BY <1>2, <1>5, <1>13, <2>1, <2>4 DEF ScrInv, ProviderInv
    <3>2. NewestDue => version = scrVersion \/ NewestDue'
      BY <1>1, <1>2, <1>8 DEF NewestDue
    <3>3. NewestDue' \/ version = scrVersion
      BY <1>1, <3>1, <3>2
    <3>4. ASSUME scrSocket' # "off", ~NewestDue'
          PROVE  EndsWithNewest'
      <4>1. scrSocket = "joined" /\ version = scrVersion
        BY <1>1, <3>1, <3>3, <3>4 DEF ScrOK, ChannelOK
      <4> QED BY <1>1, <1>3, <1>4, <1>9, <2>1, <4>1 DEF EndsWithNewest
    <3> QED BY <1>1, <3>1, <3>3, <3>4
  <2>5. ProviderInv' /\ CustomerInv'
    BY <1>1, <1>13, <2>3, <2>4 DEF ProviderInv, CustomerInv
  <2> QED BY <1>7, <1>10, <1>11, <2>5 DEF ScrInv, ScrOK
<1>14. CASE scrViewer = "CUSTOMER"
  <2>1. DOMAIN rows \subseteq Mine
    BY <1>14 DEF rows, DueRows, Over, Onto
  <2>2. OwnRowsOK'
    BY <1>1, <1>3, <1>12, <1>14, <2>1, RightAsBefore DEF ScrInv, CustomerInv, OwnRowsOK
  <2>3. ASSUME scrCauses' = {}, NEW e \in Mine
        PROVE  PushesMended(e)' /\ (scrSocket' = "joined" => AnswerMended(e)' /\ LastWordIsRight(e)')
    <3>1. /\ scrCauses = {} /\ PushesMended(e)
          /\ scrSocket = "joined" => AnswerMended(e) /\ LastWordIsRight(e)
          /\ ~silent => version >= scrEmitted
      BY <1>5, <1>14, <2>3 DEF ScrInv, CustomerInv
    <3>2. Names(rows, e) => ~silent
      BY <1>3 DEF Names
    <3>3. \A k \in Handlers : DueVersion(k) \in Nat
      BY <1>1 DEF DueVersion, ServerOK, IsCall
    \* Who is yet to tell what is right still is, or has just been.
    <3>4. \A v \in Nat : WillTell(e, v) => WillTell(e, v)' \/ (Tells(rows, e) /\ version > v)
      BY <1>1, <1>2, <1>8, RightAsBefore DEF WillTell, rows
    <3>5. PushesMended(e)'
      <4> SUFFICES ASSUME NEW k \in Handlers, Pending(k)', Names(DueRows(k), e)', ~Right(DueRows(k), e)'
                   PROVE  DueVersion(k)' < scrEmitted' \/ WillTell(e, DueVersion(k))'
        BY DEF PushesMended
      <4>1. /\ Pending(k) /\ k # h /\ DueVersion(k)' = DueVersion(k) /\ DueRows(k)' = DueRows(k)
        BY <1>8
      <4>2. PICK r : r = DueRows(k)
        OBVIOUS
      <4>3. Names(r, e) /\ ~Right(r, e)
        BY <1>1, <4>1, <4>2, RightAsBefore DEF Names
      <4>4. PICK v \in Nat : v = DueVersion(k)
        BY <3>3
      <4>5. v < scrEmitted \/ WillTell(e, v)
        BY <3>1, <4>1, <4>2, <4>3, <4>4 DEF PushesMended
      <4>6. v < scrEmitted' \/ WillTell(e, v)'
        BY <1>1, <1>5, <3>2, <3>4, <4>5 DEF Tells
      <4> QED BY <4>1, <4>4, <4>6
    <3>6. ASSUME scrSocket' = "joined"
          PROVE  AnswerMended(e)' /\ LastWordIsRight(e)'
      <4>1. AnswerMended(e) /\ LastWordIsRight(e) /\ scrSocket = "joined"
        BY <1>1, <3>1, <3>6
      <4>2. Names(rows, e) => /\ last + 1 \in DOMAIN scrChannel' /\ scrChannel'[last + 1] = message
                              /\ \A j \in DOMAIN scrChannel' : ~(j > last + 1)
        BY <1>4, <1>9, <3>2, <4>1
      <4>3. \A i \in DOMAIN scrChannel : i \in DOMAIN scrChannel' /\ scrChannel'[i] = scrChannel[i]
        BY <1>4, <1>9
      <4>4. AnswerMended(e)'
        <5> SUFFICES ASSUME NEW m \in scrCache.result, ~Right(m.rows, e)
                     PROVE  \/ m.version < scrHeard
                            \/ \E i \in DOMAIN scrChannel' :
                                  Tells(scrChannel'[i].rows, e) /\ scrChannel'[i].version > m.version
                            \/ WillTell(e, m.version)'
          BY <1>1, RightAsBefore DEF AnswerMended
        <5>1. m.version \in Nat
          BY <1>1 DEF ScrOK, CacheOK, IsCache, IsMessage
        <5>2. PICK v \in Nat : v = m.version
          BY <5>1
        <5>3. \/ v < scrHeard
              \/ \E i \in DOMAIN scrChannel : Tells(scrChannel[i].rows, e) /\ scrChannel[i].version > v
              \/ WillTell(e, v)
          BY <4>1, <5>2 DEF AnswerMended
        <5>4. WillTell(e, v) => \/ WillTell(e, v)'
                                \/ \E i \in DOMAIN scrChannel' :
                                      Tells(scrChannel'[i].rows, e) /\ scrChannel'[i].version > v
          BY <1>3, <3>4, <4>2 DEF Tells
        <5>5. v < scrHeard \/ WillTell(e, v)' \/ \E i \in DOMAIN scrChannel' :
                                      Tells(scrChannel'[i].rows, e) /\ scrChannel'[i].version > v
          BY <4>3, <5>3, <5>4
        <5> QED BY <1>1, <5>2, <5>5
      <4>5. LastWordIsRight(e)'
        <5>1. CASE Tells(rows, e)
          BY <1>1, <1>3, <4>2, <5>1, RightAsBefore DEF LastWordIsRight, Tells
        <5>2. CASE Names(rows, e) /\ ~Right(rows, e)
          <6>1. PICK v \in Nat : v = version
            BY <1>1
          <6>2. WillTell(e, v)
            BY <1>1, <1>2, <3>1, <3>2, <5>2, <6>1 DEF PushesMended, rows
          <6>3. WillTell(e, v)'
            BY <3>4, <5>2, <6>1, <6>2 DEF Tells
          <6> QED BY <6>3 DEF LastWordIsRight, WillTell
        <5>3. CASE ~Names(rows, e)
          <6>1. \A i \in DOMAIN scrChannel' : Names(scrChannel'[i].rows, e) =>
                   i \in DOMAIN scrChannel /\ scrChannel'[i] = scrChannel[i]
            BY <1>3, <1>12, <5>3
          <6>2. CASE \E k \in Handlers : Pending(k) /\ Tells(DueRows(k), e)
            <7>1. PICK k \in Handlers \ {h} : Pending(k) /\ Tells(DueRows(k), e)
              BY <5>3, <6>2 DEF rows, Tells
            <7> QED BY <1>1, <1>8, <7>1, RightAsBefore DEF LastWordIsRight
          <6>3. ASSUME NEW i \in DOMAIN scrChannel, Tells(scrChannel[i].rows, e),
                       \A j \in DOMAIN scrChannel : j > i => ~Names(scrChannel[j].rows, e)
                PROVE  LastWordIsRight(e)'
            <7>1. i \in DOMAIN scrChannel' /\ scrChannel'[i] = scrChannel[i]
              BY <4>3
            <7>2. \A j \in DOMAIN scrChannel' : j > i => ~Names(scrChannel'[j].rows, e)
              BY <6>1, <6>3
            <7> QED BY <1>1, <6>3, <7>1, <7>2, RightAsBefore DEF LastWordIsRight
          <6>4. CASE /\ \A i \in DOMAIN scrChannel : ~Names(scrChannel[i].rows, e)
                     /\ scrCache.fetch = "none" => \A m \in scrCache.data : Right(m.rows, e)
            <7>1. \A i \in DOMAIN scrChannel' : ~Names(scrChannel'[i].rows, e)
              BY <6>1, <6>4
            <7> QED BY <1>1, <6>4, <7>1, RightAsBefore DEF LastWordIsRight
          <6> QED BY <4>1, <6>2, <6>3, <6>4 DEF LastWordIsRight
        <5> QED BY <5>1, <5>2, <5>3 DEF Tells
      <4> QED BY <4>4, <4>5
    <3> QED BY <3>5, <3>6
  <2>4. ProviderInv' /\ CustomerInv'
    BY <1>1, <1>14, <2>2, <2>3 DEF ProviderInv, CustomerInv
  <2> QED BY <1>7, <1>10, <1>11, <2>4 DEF ScrInv, ScrOK
<1> QED BY <1>1, <1>13, <1>14 DEF ServerOK

\* A customer is pushed what was read, and what the request changed itself.
LEMMA PushSays ==
    ASSUME NEW direct, NEW seen, NEW e \in Mine
    PROVE  LET rows == Over(Onto(direct, Mine), Onto(seen, Mine))
           IN  /\ Names(rows, e) <=> Names(direct, e) \/ Names(seen, e)
               /\ Said(rows, e) = IF Names(direct, e) THEN direct[e] ELSE Said(seen, e)
<1> DEFINE new  == Onto(direct, Mine)
           old  == Onto(seen, Mine)
           rows == Over(new, old)
<1>1. /\ Names(new, e) <=> Names(direct, e)
      /\ Names(old, e) <=> Names(seen, e)
      /\ Names(direct, e) => new[e] = direct[e]
      /\ Said(old, e) = Said(seen, e)
  BY OntoSays
<1> HIDE DEF new, old
<1>2. /\ Names(rows, e) <=> Names(new, e) \/ Names(old, e)
      /\ Said(rows, e) = IF Names(new, e) THEN new[e] ELSE Said(old, e)
  BY OverSays
<1>3. /\ Names(rows, e) <=> Names(direct, e) \/ Names(seen, e)
      /\ Said(rows, e) = IF Names(direct, e) THEN direct[e] ELSE Said(seen, e)
  BY <1>1, <1>2
<1> QED BY <1>3 DEF new, old

\* What a commit must be: where the request itself has nothing to say of an
\* entry, that is as before, or the entry is live and the snapshot has it.
Speaks(q, direct) ==
    /\ IsQueue(q)
    /\ \A e \in Entries :
          IF Names(direct, e) THEN direct[e] = Said(AllRows(q), e)
          ELSE Said(AllRows(q), e) = Said(AllRows(scrQueue), e) \/ q.status[e] \in LiveStatuses

LEMMA CommitKeepsScreen ==
    ASSUME ScrInv, NEW h \in Handlers, NEW q, NEW direct, NEW own, Commits(h, q, direct, own), Speaks(q, direct)
    PROVE  ScrInv'
<1> DEFINE d == [NoCall EXCEPT !.phase = "committed", !.direct = direct, !.version = scrVersion + 1]
<1>1. /\ ScrOK /\ ServerOK /\ IsQueue(scrQueue) /\ IsQueue(q)
      /\ scrVersion \in Nat /\ scrVersion' = scrVersion + 1 /\ scrQueue' = q
      /\ scrCall[h].phase = "idle"
      /\ scrCall = [k \in Handlers |-> scrCall[k]] /\ scrCall' = [scrCall EXCEPT ![h] = d]
      /\ UNCHANGED <<scrViewer, scrSocket, scrChannel, scrCache, scrEmitted, scrHeard, scrCauses>>
  BY DEF Commits, Speaks, ScrInv, ScrOK, ServerOK
<1>2. d.phase = "committed" /\ d.direct = direct /\ d.version = scrVersion + 1 /\ IsCall(d)
  <2>1. d = [phase |-> "committed", version |-> scrVersion + 1, direct |-> direct, seen |-> <<>>]
    <3>1. ASSUME NEW x, x = d
          PROVE  x = [phase |-> "committed", version |-> scrVersion + 1, direct |-> direct, seen |-> <<>>]
      BY <3>1 DEF NoCall
    <3> QED BY <3>1
  <2> HIDE DEF d
  <2> QED BY <1>1, <2>1 DEF IsCall
<1> HIDE DEF d
<1>3. scrCall'[h] = d /\ \A k \in Handlers \ {h} : scrCall'[k] = scrCall[k]
  BY <1>1
<1>4. \A k \in Handlers : IsCall(scrCall[k]) /\ scrCall[k].version \in Nat /\ scrCall[k].version <= scrVersion
  BY <1>1 DEF ServerOK, IsCall
<1>5. ServerOK'
  BY <1>1, <1>2, <1>3, <1>4 DEF ServerOK
<1>6. /\ \A i \in DOMAIN scrChannel : scrChannel[i].version \in Nat /\ scrChannel[i].version <= scrVersion
      /\ \A m \in scrCache.data \cup scrCache.result : m.version \in Nat /\ m.version <= scrVersion
  BY <1>1 DEF ScrOK, ChannelOK, CacheOK, IsCache, IsMessage
<1>7. ChannelOK' /\ CacheOK'
  BY <1>1, <1>6 DEF ScrOK, ChannelOK, CacheOK
<1>8. ~Pending(h) /\ Pending(h)' /\ DueVersion(h)' = scrVersion + 1
  BY <1>1, <1>2, <1>3 DEF Pending, DueVersion
<1>9. CASE scrViewer = "PROVIDER"
  <2>1. \A k \in Handlers : DueVersion(k)' = scrVersion + 1 => scrCall'[k].phase = "committed"
    BY <1>1, <1>2, <1>3, <1>4 DEF DueVersion
  <2>2. \A k \in Handlers : DueVersion(k)' = scrVersion' => DueRows(k)' = Snapshot(scrQueue)'
    BY <1>1, <1>9, <2>1 DEF DueRows, SeenBy
  <2>3. NewestIsTrue'
    BY <1>1, <1>6, <2>2 DEF NewestIsTrue
  <2>4. NewestDue'
    BY <1>1, <1>8 DEF NewestDue
  <2>5. ProviderInv' /\ CustomerInv'
    BY <1>1, <1>9, <2>3, <2>4 DEF ProviderInv, CustomerInv
  <2> QED BY <1>5, <1>7, <2>5 DEF ScrInv, ScrOK
<1>10. CASE scrViewer = "CUSTOMER"
  <2>1. OwnRowsOK'
    BY <1>1, <1>6, <1>10 DEF ScrInv, CustomerInv, OwnRowsOK
  <2>2. ASSUME scrCauses = {}, NEW e \in Mine
        PROVE  PushesMended(e)' /\ (scrSocket = "joined" => AnswerMended(e)' /\ LastWordIsRight(e)')
    <3> DEFINE true == Said(AllRows(scrQueue), e)
               next == Said(AllRows(q), e)
    <3>1. e \in Entries
      BY MineAssumption
    <3>2. /\ PushesMended(e)
          /\ scrSocket = "joined" => AnswerMended(e) /\ LastWordIsRight(e)
      BY <1>10, <2>2 DEF ScrInv, CustomerInv
    <3>3. /\ \A rows : Right(rows, e) <=> Said(rows, e) = true
          /\ \A rows : Right(rows, e)' <=> Said(rows, e) = next
      BY <1>1 DEF Right
    <3>4. /\ Names(Snapshot(scrQueue), e) <=> true.status \in LiveStatuses
          /\ Names(Snapshot(scrQueue), e) => Said(Snapshot(scrQueue), e) = true
          /\ Names(Snapshot(q), e) <=> next.status \in LiveStatuses
          /\ Names(Snapshot(q), e) => Said(Snapshot(q), e) = next
          /\ Names(Snapshot(q), e) <=> q.status[e] \in LiveStatuses
      BY <1>1, <3>1, TrueRows DEF Said
    <3>5. IF Names(direct, e) THEN direct[e] = next ELSE next = true \/ Names(Snapshot(q), e)
      BY <3>1, <3>4 DEF Speaks
    <3> HIDE DEF true, next
    <3>6. PICK given : given = DueRows(h)'
      OBVIOUS
    <3>7. /\ Names(given, e) <=> Names(direct, e) \/ Names(Snapshot(q), e)
          /\ Said(given, e) = IF Names(direct, e) THEN direct[e] ELSE Said(Snapshot(q), e)
      <4>1. given = Over(Onto(direct, Mine), Onto(Snapshot(q), Mine))
        BY <1>1, <1>2, <1>3, <1>10, <3>6 DEF DueRows, SeenBy
      <4> QED BY <4>1, PushSays
    <3>8. /\ Names(given, e) => Right(given, e)'
          /\ next # true => Names(given, e)
      BY <3>3, <3>4, <3>5, <3>7
    <3>9. Right(given, e)' <=> Right(DueRows(h), e)'
      BY <3>6 DEF Right
    <3>10. \A v \in Nat : v <= scrVersion /\ next # true => WillTell(e, v)'
      BY <1>1, <1>8, <3>6, <3>8, <3>9 DEF WillTell, Tells, Names
    \* Of the others, one that would read now reads what is right.
    <3>11. ASSUME NEW k \in Handlers \ {h}, NEW old, old = DueRows(k), NEW new, new = DueRows(k)'
           PROVE  /\ Pending(k)' <=> Pending(k)
                  /\ DueVersion(k) \in Nat /\ DueVersion(k)' \in Nat /\ DueVersion(k)' >= DueVersion(k)
                  /\ Names(new, e) /\ ~Right(new, e)' => DueVersion(k)' = DueVersion(k) /\ DueVersion(k) <= scrVersion
                  /\ next = true => /\ Names(new, e) <=> Names(old, e)
                                    /\ Names(old, e) => Said(new, e) = Said(old, e)
      <4>1. /\ scrCall'[k] = scrCall[k] /\ scrCall[k].version \in Nat /\ scrCall[k].version <= scrVersion
            /\ scrViewer' = scrViewer
        BY <1>1, <1>3, <1>4
      <4>2. (Pending(k)' <=> Pending(k)) /\ (Keeps(k)' <=> Keeps(k))
        BY <4>1 DEF Pending, Keeps
      <4>3. CASE scrCall[k].phase # "committed"
        <5>1. DueVersion(k)' = DueVersion(k) /\ DueVersion(k) = scrCall[k].version /\ new = old
          BY <1>10, <3>11, <4>1, <4>3 DEF DueVersion, DueRows, SeenBy
        <5> QED BY <4>1, <4>2, <5>1
      <4>4. CASE scrCall[k].phase = "committed"
        <5>1. /\ old = Over(Onto(scrCall[k].direct, Mine), Onto(Snapshot(scrQueue), Mine))
              /\ new = Over(Onto(scrCall[k].direct, Mine), Onto(Snapshot(q), Mine))
          BY <1>1, <1>10, <3>11, <4>1, <4>4 DEF DueRows, SeenBy
        <5>2. /\ Names(old, e) <=> Names(scrCall[k].direct, e) \/ Names(Snapshot(scrQueue), e)
              /\ Said(old, e) = IF Names(scrCall[k].direct, e) THEN scrCall[k].direct[e]
                                ELSE Said(Snapshot(scrQueue), e)
          BY <5>1, PushSays
        <5>3. /\ Names(new, e) <=> Names(scrCall[k].direct, e) \/ Names(Snapshot(q), e)
              /\ Said(new, e) = IF Names(scrCall[k].direct, e) THEN scrCall[k].direct[e]
                                ELSE Said(Snapshot(q), e)
          BY <5>1, PushSays
        <5>4. /\ DueVersion(k) = IF Keeps(k) THEN scrCall[k].version ELSE scrVersion
              /\ DueVersion(k)' = IF Keeps(k) THEN scrCall[k].version ELSE scrVersion + 1
          BY <1>1, <4>1, <4>2, <4>4 DEF DueVersion
        <5>5. ~Keeps(k) => ~Names(scrCall[k].direct, e)
          BY <1>10 DEF Keeps, Names
        <5>6. Names(new, e) /\ ~Right(new, e)' => Keeps(k)
          BY <3>3, <3>4, <5>3, <5>5
        <5>7. next = true => (Names(new, e) <=> Names(old, e)) /\ (Names(old, e) => Said(new, e) = Said(old, e))
          BY <3>4, <5>2, <5>3
        <5> QED BY <1>1, <4>1, <4>2, <5>4, <5>6, <5>7
      <4> QED BY <4>3, <4>4
    <3>12. next = true => \A v \in Nat : WillTell(e, v) => WillTell(e, v)'
      <4> SUFFICES ASSUME next = true, NEW v \in Nat, NEW k \in Handlers, Pending(k),
                          Tells(DueRows(k), e), DueVersion(k) > v
                   PROVE  WillTell(e, v)'
        BY DEF WillTell
      <4>1. k # h
        BY <1>8
      <4>2. PICK old, new : old = DueRows(k) /\ new = DueRows(k)'
        OBVIOUS
      <4>3. /\ Pending(k)' /\ DueVersion(k)' \in Nat /\ DueVersion(k)' > v
            /\ Names(new, e) /\ Said(new, e) = next
        BY <3>3, <3>11, <4>1, <4>2 DEF Tells
      <4>4. Tells(DueRows(k), e)'
        BY <3>3, <4>2, <4>3 DEF Tells, Names, Right
      <4> QED BY <4>3, <4>4 DEF WillTell
    <3>13. PushesMended(e)'
      <4> SUFFICES ASSUME NEW k \in Handlers, Pending(k)', Names(DueRows(k), e)', ~Right(DueRows(k), e)'
                   PROVE  DueVersion(k)' < scrEmitted' \/ WillTell(e, DueVersion(k))'
        BY DEF PushesMended
      <4>1. PICK old, new : old = DueRows(k) /\ new = DueRows(k)'
        OBVIOUS
      <4>2. Names(new, e) /\ ~Right(new, e)'
        BY <4>1 DEF Names, Right
      <4>3. k # h
        BY <3>6, <3>8, <4>1, <4>2
      <4>4. PICK v : v = DueVersion(k)
        OBVIOUS
      <4>5. Pending(k) /\ DueVersion(k)' = v /\ v \in Nat /\ v <= scrVersion
        BY <3>11, <4>1, <4>2, <4>3, <4>4
      <4>6. v < scrEmitted \/ WillTell(e, v)'
        <5>1. CASE next # true
          BY <3>10, <4>5, <5>1
        <5>2. CASE next = true
          <6>1. Names(old, e) /\ ~Right(old, e)
            BY <3>3, <3>11, <4>1, <4>2, <4>3, <5>2
          <6>2. v < scrEmitted \/ WillTell(e, v)
            BY <3>2, <4>1, <4>4, <4>5, <6>1 DEF PushesMended
          <6> QED BY <3>12, <4>5, <5>2, <6>2
        <5> QED BY <5>1, <5>2
      <4> QED BY <1>1, <4>5, <4>6
    <3>14. ASSUME scrSocket = "joined"
           PROVE  AnswerMended(e)' /\ LastWordIsRight(e)'
      <4>1. AnswerMended(e) /\ LastWordIsRight(e)
        BY <3>2, <3>14
      <4>2. CASE next # true
        <5>1. \A m \in scrCache.result : WillTell(e, m.version)'
          <6> SUFFICES ASSUME NEW m \in scrCache.result PROVE WillTell(e, m.version)'
            OBVIOUS
          <6>1. PICK v \in Nat : v = m.version /\ v <= scrVersion
            BY <1>6
          <6>2. WillTell(e, v)'
            BY <3>10, <4>2, <6>1
          <6> QED BY <6>1, <6>2
        <5>2. AnswerMended(e)'
          BY <1>1, <5>1 DEF AnswerMended
        <5>3. Tells(DueRows(h), e)'
          BY <3>6, <3>8, <3>9, <4>2 DEF Tells, Names
        <5>4. LastWordIsRight(e)'
          BY <1>8, <5>3 DEF LastWordIsRight
        <5> QED BY <5>2, <5>4
      <4>3. CASE next = true
        <5>1. \A rows : (Right(rows, e)' <=> Right(rows, e)) /\ (Tells(rows, e)' <=> Tells(rows, e))
          BY <3>3, <4>3 DEF Tells
        <5>2. \A m \in scrCache.result : WillTell(e, m.version) => WillTell(e, m.version)'
          <6> SUFFICES ASSUME NEW m \in scrCache.result, WillTell(e, m.version) PROVE WillTell(e, m.version)'
            OBVIOUS
          <6>1. PICK v \in Nat : v = m.version
            BY <1>6
          <6> QED BY <3>12, <4>3, <6>1
        <5>3. AnswerMended(e)'
          BY <1>1, <4>1, <5>1, <5>2 DEF AnswerMended
        <5>4. ASSUME NEW k \in Handlers, Pending(k), Tells(DueRows(k), e)
              PROVE  LastWordIsRight(e)'
          <6>1. k # h
            BY <1>8, <5>4
          <6>2. PICK old, new : old = DueRows(k) /\ new = DueRows(k)'
            OBVIOUS
          <6>3. Pending(k)' /\ Names(new, e) /\ Said(new, e) = next
            BY <3>3, <3>11, <4>3, <5>4, <6>1, <6>2 DEF Tells
          <6>4. Tells(DueRows(k), e)'
            BY <3>3, <6>2, <6>3 DEF Tells, Names, Right
          <6> QED BY <6>3, <6>4 DEF LastWordIsRight
        <5>5. LastWordIsRight(e)'
          BY <1>1, <4>1, <5>1, <5>4 DEF LastWordIsRight
        <5> QED BY <5>3, <5>5
      <4> QED BY <4>2, <4>3
    <3> QED BY <3>13, <3>14
  <2>3. ProviderInv' /\ CustomerInv'
    BY <1>1, <1>10, <2>1, <2>2 DEF ProviderInv, CustomerInv
  <2> QED BY <1>5, <1>7, <2>3 DEF ScrInv, ScrOK
<1> QED BY <1>1, <1>9, <1>10 DEF ServerOK

\* The queue's operations are such commits.
LEMMA StatusMoves ==
    ASSUME ServerOK, NEW e \in Entries, NEW to, to # "REMOVED", NEW line, NEW q, NEW direct,
           q = [status |-> [scrQueue.status EXCEPT ![e] = to], line |-> line],
           to \in LiveStatuses \/ Names(direct, e),
           \A x \in Entries : Names(direct, x) => x = e /\ direct[x] = Said(AllRows(q), e)
    PROVE  Speaks(q, direct)
<1>1. /\ q.status = [scrQueue.status EXCEPT ![e] = to] /\ q.line = line /\ IsQueue(scrQueue)
      /\ scrQueue.status = [x \in Entries |-> scrQueue.status[x]]
  BY DEF ServerOK, IsQueue
<1>2. q.status[e] = to /\ \A x \in Entries \ {e} : q.status[x] = scrQueue.status[x]
  BY <1>1
<1>3. IsQueue(q)
  BY <1>1, <1>2 DEF IsQueue
<1>4. ASSUME NEW x \in Entries \ {e}, q.status[x] \notin LiveStatuses
      PROVE  Said(AllRows(q), x) = Said(AllRows(scrQueue), x)
  <2>1. /\ Said(AllRows(q), x) = IF q.status[x] = "ABSENT" THEN RemovedRow ELSE RowOf(q, x)
        /\ Said(AllRows(scrQueue), x) = IF scrQueue.status[x] = "ABSENT" THEN RemovedRow ELSE RowOf(scrQueue, x)
    BY <1>1, <1>3, TrueRows
  <2>2. RowOf(q, x) = RowOf(scrQueue, x)
    BY <1>2, <1>4 DEF RowOf, CustomersAhead, LiveStatuses
  <2> QED BY <1>2, <2>1, <2>2
<1> QED BY <1>2, <1>3, <1>4 DEF Speaks

LEMMA RequestsKeepScreen ==
    ASSUME ScrInv, NEW h \in Handlers, NEW own, QueueRequest(h, own)
    PROVE  ScrInv'
<1>1. ServerOK /\ IsQueue(scrQueue)
  BY DEF ScrInv, ScrOK, ServerOK
<1>2. ASSUME NEW e \in Entries, CreateEntry(h, e, own) PROVE ScrInv'
  <2> DEFINE q == [status |-> [scrQueue.status EXCEPT ![e] = "WAITING"], line |-> Append(scrQueue.line, e)]
  <2>1. Commits(h, q, <<>>, own)
    BY <1>2 DEF CreateEntry
  <2>2. \A x \in Entries : ~Names(<<>>, x)
    BY NothingIsASequence DEF Names
  <2>3. "WAITING" \in LiveStatuses
    BY DEF LiveStatuses
  <2>4. Speaks(q, <<>>)
    BY <1>1, <2>2, <2>3, StatusMoves
  <2> HIDE DEF q
  <2> QED BY <2>1, <2>4, CommitKeepsScreen
<1>3. ASSUME NEW e \in Entries, NEW to \in {"IN_SERVICE", "COMPLETED", "CANCELLED"}, UpdateEntry(h, e, to, own)
      PROVE  ScrInv'
  <2> DEFINE q   == Moved(e, to)
             row == [status |-> to, ahead |-> 0]
  <2>1. Commits(h, q, OneRow(e, row), own)
    BY <1>3 DEF UpdateEntry
  <2>2. q.status = [scrQueue.status EXCEPT ![e] = to]
    BY DEF Moved
  <2>3. q.status[e] = to
    BY <1>1, <2>2 DEF IsQueue
  <2>4. IsQueue(q)
    BY <1>1, <2>2 DEF IsQueue, Moved
  <2>5. Said(AllRows(q), e) = row
    <3>1. Said(AllRows(q), e) = RowOf(q, e)
      BY <2>3, <2>4, TrueRows
    <3> QED BY <2>3, <3>1 DEF RowOf, CustomersAhead
  <2>6. Names(OneRow(e, row), e) /\ \A x \in Entries : Names(OneRow(e, row), x) => x = e /\ OneRow(e, row)[x] = row
    BY DEF Names, OneRow
  <2>7. q = [status |-> [scrQueue.status EXCEPT ![e] = to], line |-> SelectSeq(scrQueue.line, LAMBDA x : x # e)]
    BY DEF Moved
  <2> HIDE DEF q, row
  <2>8. Speaks(q, OneRow(e, row))
    BY <1>1, <2>5, <2>6, <2>7, StatusMoves
  <2> QED BY <2>1, <2>8, CommitKeepsScreen
<1>4. ASSUME NEW e \in Entries, RemoveEntry(h, e, own) PROVE ScrInv'
  <2> DEFINE q == Moved(e, "ABSENT")
  <2>1. Commits(h, q, OneRow(e, RemovedRow), own)
    BY <1>4 DEF RemoveEntry
  <2>2. q.status = [scrQueue.status EXCEPT ![e] = "ABSENT"]
    BY DEF Moved
  <2>3. q.status[e] = "ABSENT"
    BY <1>1, <2>2 DEF IsQueue
  <2>4. IsQueue(q)
    BY <1>1, <2>2 DEF IsQueue, Moved
  <2>5. Said(AllRows(q), e) = RemovedRow
    BY <2>3, <2>4, TrueRows
  <2>6. /\ Names(OneRow(e, RemovedRow), e)
        /\ \A x \in Entries : Names(OneRow(e, RemovedRow), x) => x = e /\ OneRow(e, RemovedRow)[x] = RemovedRow
    BY DEF Names, OneRow
  <2>7. q = [status |-> [scrQueue.status EXCEPT ![e] = "ABSENT"],
             line |-> SelectSeq(scrQueue.line, LAMBDA x : x # e)]
    BY DEF Moved
  <2> HIDE DEF q
  <2>8. Speaks(q, OneRow(e, RemovedRow))
    BY <1>1, <2>5, <2>6, <2>7, StatusMoves
  <2> QED BY <2>1, <2>8, CommitKeepsScreen
<1>5. ASSUME NEW line \in Lines, ReorderEntries(h, line, own) PROVE ScrInv'
  <2> DEFINE q == [scrQueue EXCEPT !.line = line]
  <2>1. Commits(h, q, <<>>, own)
    BY <1>5 DEF ReorderEntries
  <2>2. q = [status |-> scrQueue.status, line |-> line]
    BY <1>1 DEF IsQueue
  <2> HIDE DEF q
  <2>3. IsQueue(q) /\ q.status = scrQueue.status
    BY <1>1, <2>2 DEF IsQueue
  <2>4. ASSUME NEW x \in Entries, q.status[x] \notin LiveStatuses
        PROVE  Said(AllRows(q), x) = Said(AllRows(scrQueue), x)
    <3>1. RowOf(q, x) = RowOf(scrQueue, x)
      BY <2>3, <2>4 DEF RowOf, CustomersAhead, LiveStatuses
    <3> QED BY <1>1, <2>3, <3>1, TrueRows
  <2>5. \A x \in Entries : ~Names(<<>>, x)
    BY NothingIsASequence DEF Names
  <2>6. Speaks(q, <<>>)
    BY <2>3, <2>4, <2>5 DEF Speaks
  <2> QED BY <2>1, <2>6, CommitKeepsScreen
<1> QED BY <1>2, <1>3, <1>4, <1>5 DEF QueueRequest

LEMMA ScrStays ==
    ASSUME ScrInv, [ScreenNext]_scrVars
    PROVE  ScrInv'
<1>1. ASSUME NEW h \in Handlers, NEW own \in BOOLEAN, QueueRequest(h, own) PROVE ScrInv'
  BY <1>1, RequestsKeepScreen
<1>2. ASSUME NEW h \in Handlers, ReadSnapshot(h) PROVE ScrInv'
  BY <1>2, ReadingKeepsScreen
<1>3. ASSUME NEW h \in Handlers, Push(h) PROVE ScrInv'
  BY <1>3, PushKeepsScreen
<1>4. ASSUME NEW h \in Handlers, PushFails(h) PROVE ScrInv'
  BY <1>4, PushFailureKeepsScreen
<1>5. CASE ReadOwnEntries \/ AnswerOwnEntries
  BY <1>5, OwnAnswersKeepScreen
<1>6. CASE AnswerQueue
  BY <1>6, AnswerKeepsProvider
<1>7. CASE Deliver
  BY <1>7, DeliveryKeepsScreen
<1>8. CASE FetchFails
  BY <1>8, QueryFailureKeepsScreen
<1>9. CASE Receive
  BY <1>9, HearingKeepsScreen
<1>10. CASE Acknowledge \/ Connect
  <2>1. scrSocket \in {"off", "connected", "joined"} /\ (scrViewer = "CUSTOMER" => scrSocket # "connected")
    BY DEF ScrInv, ScrOK, ChannelOK
  <2>2. /\ Refetch /\ UNCHANGED ScrServer /\ UNCHANGED <<scrChannel, scrHeard>>
        /\ \/ scrSocket' = scrSocket
           \/ scrSocket = "off" /\ scrSocket' = IF scrViewer = "PROVIDER" THEN "connected" ELSE "joined"
    BY <1>10 DEF Acknowledge, Connect, ScrServer
  <2>3. /\ scrSocket' \in {"off", "connected", "joined"}
        /\ scrViewer = "CUSTOMER" => scrSocket' # "connected"
        /\ scrSocket' = scrSocket \/ (scrSocket = "off" /\ scrSocket' # "off")
    BY <2>1, <2>2
  <2> QED BY <2>2, <2>3, RefetchKeepsScreen
<1>11. CASE JoinRoom \/ Disconnect
  BY <1>11, SocketKeepsScreen
<1>12. CASE PushesLost
  BY <1>12, RestartKeepsScreen
<1>13. CASE UNCHANGED scrVars
  <2>1. UNCHANGED ScrServer /\ UNCHANGED <<scrSocket, scrChannel, scrCache, scrHeard, scrCauses>>
    BY <1>13 DEF scrVars, ScrServer
  <2>2. ScrOK'
    BY <2>1, ScreenSteps DEF ScrInv, ScrOK, ChannelOK, CacheOK, ScrServer
  <2>3. /\ NewestIsTrue => NewestIsTrue'
        /\ EndsWithNewest => EndsWithNewest'
        /\ NewestDue' <=> NewestDue
    BY <2>1, ScrServerAsBefore DEF NewestIsTrue, EndsWithNewest, NewestDue, ScrServer
  <2>4. ProviderInv'
    BY <2>1, <2>3, ScreenSteps DEF ScrInv, ProviderInv, ScrServer
  <2>5. OwnRowsOK => OwnRowsOK'
    BY <2>1, ScrServerAsBefore DEF OwnRowsOK, ScrServer
  <2>6. \A e : (AnswerMended(e) => AnswerMended(e)') /\ (LastWordIsRight(e) => LastWordIsRight(e)')
    BY <2>1, ScrServerAsBefore, PushesAsBefore DEF AnswerMended, LastWordIsRight
  <2>7. CustomerInv'
    BY <2>1, <2>5, <2>6, ScreenSteps DEF ScrInv, CustomerInv, ScrServer
  <2> QED BY <2>2, <2>4, <2>7 DEF ScrInv
<1> QED BY <1>1, <1>2, <1>3, <1>4, <1>5, <1>6, <1>7, <1>8, <1>9, <1>10, <1>11, <1>12, <1>13
        DEF ScreenNext

\* Once nothing is on its way, a connected Queue screen, the provider's or a
\* customer's, shows the queue as it is and everyone's place in line, unless
\* one of the listed races or failures is to blame (the queue's controllers,
\* broadcastProviderQueueUpdate and SocketProvider's handlers), for every
\* number of entries and requests.
THEOREM QueueScreensAreCurrent == ScreenSpec => []ScreenIsCurrent
<1>1. ASSUME ScrInv PROVE ScreenIsCurrent
  <2> SUFFICES ASSUME Settled, scrCauses = {}, NEW data \in scrCache.data
               PROVE  OnShow(data) = Truth
    BY DEF ScreenIsCurrent
  <2>1. /\ \A h \in Handlers : ~Pending(h)
        /\ scrChannel = <<>> /\ scrSocket = "joined" /\ scrCache.fetch = "none"
    BY DEF Settled, AtRest, Pending, Fetching
  <2>2. IsQueue(scrQueue) /\ scrViewer \in {"PROVIDER", "CUSTOMER"}
    BY <1>1 DEF ScrInv, ScrOK, ServerOK
  <2>3. CASE scrViewer = "PROVIDER"
    <3>1. data.version = scrVersion
      BY <1>1, <2>1, <2>3 DEF ScrInv, ProviderInv, NewestDue, EndsWithNewest
    <3>2. data.rows \in {Snapshot(scrQueue), AllRows(scrQueue)}
      BY <1>1, <2>3, <3>1 DEF ScrInv, ProviderInv, NewestIsTrue
    <3> DEFINE Shown(rows) == [e \in {x \in DOMAIN rows : rows[x].status \in LiveStatuses} |-> rows[e]]
    <3>3. ASSUME NEW rows, rows \in {Snapshot(scrQueue), AllRows(scrQueue)}
          PROVE  Shown(rows) = Snapshot(scrQueue)
      <4>1. /\ DOMAIN rows \subseteq Entries /\ IdsWith(scrQueue, LiveStatuses) \subseteq DOMAIN rows
            /\ \A e \in DOMAIN rows : rows[e] = RowOf(scrQueue, e)
        BY <3>3 DEF Snapshot, AllRows, RowsOf, IdsWith, LiveStatuses
      <4>2. \A e : RowOf(scrQueue, e).status = scrQueue.status[e]
        BY DEF RowOf
      <4>3. {x \in DOMAIN rows : rows[x].status \in LiveStatuses} = IdsWith(scrQueue, LiveStatuses)
        BY <4>1, <4>2 DEF IdsWith
      <4> QED BY <4>1, <4>3 DEF Snapshot, RowsOf
    <3>4. OnShow(data) = Shown(data.rows) /\ Truth = Snapshot(scrQueue)
      BY <2>3 DEF OnShow, Truth
    <3> HIDE DEF Shown
    <3> QED BY <3>2, <3>3, <3>4
  <2>4. CASE scrViewer = "CUSTOMER"
    <3>1. \A e \in Mine : LastWordIsRight(e)
      BY <1>1, <2>1, <2>4 DEF ScrInv, CustomerInv
    <3>2. \A e \in Mine : Right(data.rows, e)
      BY <2>1, <3>1, NothingIsASequence DEF LastWordIsRight
    <3> DEFINE rows == data.rows
               true == Onto(AllRows(scrQueue), Mine)
    <3>3. OwnRows(rows)
      BY <1>1, <2>4 DEF ScrInv, CustomerInv, OwnRowsOK
    <3>4. \A e \in Mine : Said(rows, e) = Said(AllRows(scrQueue), e)
      BY <3>2 DEF Right
    <3>5. \A e \in Mine : Names(AllRows(scrQueue), e) => AllRows(scrQueue)[e] # RemovedRow
      BY <2>2, MineAssumption DEF IsQueue, AllRows, RowsOf, RowOf, RemovedRow, Names, IdsWith
    <3>6. /\ DOMAIN true = {e \in Mine : Names(AllRows(scrQueue), e)}
          /\ \A e \in DOMAIN true : true[e] = AllRows(scrQueue)[e]
      BY DEF Onto, Names
    <3>7. true = [e \in DOMAIN true |-> true[e]]
      BY DEF Onto
    <3> HIDE DEF rows, true
    <3>8. DOMAIN rows = DOMAIN true
      BY <3>3, <3>4, <3>5, <3>6 DEF OwnRows, Said, Names
    <3>9. \A e \in DOMAIN rows : rows[e] = true[e]
      BY <3>3, <3>4, <3>6, <3>8 DEF OwnRows, Said, Names
    <3>10. rows = true
      BY <3>3, <3>7, <3>8, <3>9 DEF OwnRows
    <3>11. OnShow(data) = rows /\ Truth = true
      BY <2>4 DEF OnShow, Truth, rows, true
    <3> QED BY <3>10, <3>11
  <2> QED BY <2>2, <2>3, <2>4
<1>2. (\E viewer \in {"PROVIDER", "CUSTOMER"} : ScreenStart(viewer)) => ScrInv
  BY ScrInitially
<1> QED BY <1>1, <1>2, ScrStays, PTL DEF ScreenSpec

=============================================================================
