------------------------- MODULE SlotBookingProofs --------------------------
(***************************************************************************)
(* The properties of SlotBooking, for every policy, week, service, booking *)
(* and number of requests.  The invariant says what a request knows at     *)
(* each of its phases and how much of that a concurrent step can undo.     *)
(***************************************************************************)
EXTENDS SlotBooking, TLAPS

-----------------------------------------------------------------------------
(* The inductive invariant.                                                *)

\* A request that has read its service: the service was there, and has the
\* duration the request goes by unless it was edited.
ServiceRead(r) ==
    /\ service[call[r].service].state # "none"
    /\ \/ call[r].length = service[call[r].service].length
       \/ call[r].service \in resized

\* What a request holds at its phase.
CallsHoldTheirRows ==
    \A r \in Calls :
        /\ call[r].phase \in {"allowed", "priced", "open", "clear", "counted"}
           => call[r].service \in Services
        /\ call[r].phase \in {"priced", "open", "clear"} => ServiceRead(r)
        /\ call[r].phase = "found"
           => /\ call[r].booking \in Bookings /\ booking[call[r].booking] # NoBooking
              /\ call[r].to \in AllStatuses

\* No booking is without a service that exists.
ServicesAreKept ==
    \A b \in Bookings :
        \/ booking[b] = NoBooking
        \/ /\ booking[b].service \in Services /\ Exists(booking[b].service)
           /\ booking[b].status \in AllStatuses

\* The interval a transaction found free is free until a serializable one
\* commits beside it, but for what stale writes and edits put there.
ClearIsFree ==
    \A r \in Calls, b \in Bookings :
        /\ call[r].phase = "clear" /\ ~call[r].raced
        /\ Active(b)
        /\ Overlaps(call[r].at, call[r].at + Minutes(call[r].length), booking[b].at, End(b))
        => Excused(b) \/ call[r].service \in resized

\* What a request has verified, each part of it for settings of its time.
Verified(c, seen) ==
    /\ \E old \in seen : PolicyAllows(old.policy, c.asked, c.at)
    /\ c.phase \in {"priced", "open", "clear"}
       => \E old \in seen :
            /\ old.approved /\ old.service[c.service].state = "offered"
            /\ old.service[c.service].price = c.price
            /\ old.service[c.service].length = c.length
    /\ c.phase \in {"open", "clear"}
       => \E later \in seen : FitsHours(later.hours[Weekday(DayOf(c.at))], c.at, c.length)

HistoryIsCurrent == Len(history) > 0 /\ history[Len(history)] = InForce

ChecksStand ==
    \A r \in Calls :
        call[r].phase \in {"allowed", "priced", "open", "clear"}
        => call[r].begun \in 1 .. Len(history) /\ Verified(call[r], SeenBy(r))

SlotInv == TypeOK /\ CallsHoldTheirRows /\ ServicesAreKept /\ ClearIsFree /\ NoDoubleBooking
           /\ HistoryIsCurrent /\ ChecksStand

-----------------------------------------------------------------------------
(* Types.                                                                  *)

LEMMA NothingIsNoRow == \A b \in Bookings, s \in Services : b # Nothing /\ s # Nothing
BY SettingsAssumption

LEMMA IdleIsCall == Idle \in Call
BY DEF Idle, Call, Phases

LEMMA SettingTypes ==
    /\ PolicyChoices \subseteq Policies /\ HoursChoices \subseteq HoursRows
    /\ Lengths \subseteq Nat \ {0} /\ Prices \subseteq Nat /\ Instants \subseteq Nat
BY SettingsAssumption DEF HoursRows

LEMMA MovesAreBetweenStatuses == \A move \in Moves : move[1] \in ActiveStatuses /\ move[2] \in AllStatuses
<1>1. \A move \in Edges : move[1] \in ActiveStatuses /\ move[2] \in AllStatuses
  BY DEF Edges, AllStatuses, ActiveStatuses, TerminalStatuses
<1> QED  BY <1>1, SettingsAssumption

LEMMA SlotInitInv == Init => SlotInv
<1> SUFFICES ASSUME Init PROVE SlotInv
  OBVIOUS
<1>1. TypeOK
  <2>1. \A b \in Beginnings : /\ b.policy \in Policies
                              /\ b.hours \in [0 .. WeekLength - 1 -> HoursRows]
                              /\ b.service \in [Services -> ServiceRow]
    BY SettingsAssumption
  <2>2. NoBooking \in BookingRow  BY DEF NoBooking, BookingRow
  <2>3. policy \in Policies /\ hours \in [0 .. WeekLength - 1 -> HoursRows] /\ service \in [Services -> ServiceRow]
    BY <2>1 DEF Init
  <2>4. InForce \in Settings
    <3>1. approved \in BOOLEAN  BY DEF Init
    <3> QED  BY <2>3, <3>1 DEF InForce, Settings
  <2>5. history \in Seq(Settings)
    <3> DEFINE now0 == InForce
    <3>1. history = <<now0>> /\ now0 \in Settings  BY <2>4 DEF Init
    <3> HIDE DEF now0
    <3> QED  BY <3>1
  <2> QED  BY <2>2, <2>3, <2>5, IdleIsCall DEF Init, TypeOK
<1>2. CallsHoldTheirRows /\ ServicesAreKept /\ ClearIsFree
  BY DEF Init, CallsHoldTheirRows, ServicesAreKept, ClearIsFree, Idle
<1>3. NoDoubleBooking
  BY DEF Init, NoDoubleBooking, Active, NoBooking, ActiveStatuses
<1>4. HistoryIsCurrent /\ ChecksStand
  <2> DEFINE now0 == InForce
  <2>1. history = <<now0>> /\ now0 = InForce  BY DEF Init
  <2> HIDE DEF now0
  <2>2. HistoryIsCurrent  BY <2>1 DEF HistoryIsCurrent
  <2> QED  BY <2>2 DEF Init, ChecksStand, Idle
<1> QED  BY <1>1, <1>2, <1>3, <1>4 DEF SlotInv

\* The steps of a request that only move the request on.
ReadStep(r) ==
    \/ \E s \in Services, at \in Instants : CheckPolicy(r, s, at)
    \/ CheckService(r) \/ CheckHours(r) \/ CheckOverlap(r) \/ TransactionFails(r)
    \/ \E b \in Bookings, move \in Moves : FindBooking(r, b, move)
    \/ \E s \in Services : CountUses(r, s)

\* The edits that leave the services alone.
EditRules ==
    \/ \E p \in PolicyChoices : UpdatePolicy(p)
    \/ \E isApproved \in BOOLEAN : SetApproval(isApproved)
    \/ \E days \in (SUBSET DOMAIN hours) \ {{}} :
         \E entries \in [days -> HoursChoices] : UpdateOwnHours(entries)

EditServices ==
    \/ \E s \in Services, length \in Lengths, price \in Prices : CreateService(s, length, price)
    \/ \E s \in Services : \E row \in Updates(service[s]) : UpdateService(s, row)

LEMMA StepsByWhatTheyWrite ==
    ASSUME [Next]_vars
    PROVE  \/ \E r \in Calls : ReadStep(r)
           \/ \E r \in Calls, b \in Bookings : InsertBooking(r, b)
           \/ \E r \in Calls : WriteStatus(r)
           \/ \E r \in Calls : DeleteService(r)
           \/ EditRules \/ EditServices \/ Tick \/ UNCHANGED vars
BY DEF Next, CreateBooking, UpdateBookingStatus, EditSettings, ReadStep, EditRules, EditServices

\* A read step moves its own request on and writes nothing.
LEMMA ReadingWritesNothing ==
    ASSUME TypeOK, CallsHoldTheirRows, NEW r \in Calls, ReadStep(r)
    PROVE  /\ UNCHANGED <<now, settings, booking, revived>>
           /\ call'[r] \in Call
           /\ call' = [call EXCEPT ![r] = call'[r]]
<1>0. UNCHANGED <<now, settings, booking, revived>>
  BY DEF ReadStep, CheckPolicy, CheckService, CheckHours, CheckOverlap, TransactionFails,
         FindBooking, CountUses
<1>1. call \in [Calls -> Call] /\ service \in [Services -> ServiceRow] /\ Len(history) \in Nat /\ now \in Nat
  <2>1. history \in Seq(Settings)  BY DEF TypeOK
  <2>2. Len(history) \in Nat  BY <2>1
  <2> QED  BY <2>2 DEF TypeOK
<1>2. ASSUME NEW s \in Services, NEW at \in Instants, CheckPolicy(r, s, at)
      PROVE  call'[r] \in Call /\ call' = [call EXCEPT ![r] = call'[r]]
  BY <1>1, <1>2, SettingTypes DEF CheckPolicy, Call, Phases, Idle
<1>3. ASSUME CheckService(r)
      PROVE  call'[r] \in Call /\ call' = [call EXCEPT ![r] = call'[r]]
  <2>1. CASE service[call[r].service].state = "offered" /\ approved
    <3>1. call[r].service \in Services  BY <1>3 DEF CheckService, CallsHoldTheirRows
    <3>2. service[call[r].service].length \in Nat /\ service[call[r].service].price \in Nat
      BY <1>1, <3>1, SettingTypes DEF ServiceRow
    <3>3. PICK length \in Nat, price \in Nat :
            call' = [call EXCEPT ![r].phase = "priced", ![r].length = length, ![r].price = price]
      BY <1>3, <2>1, <3>2 DEF CheckService
    <3> QED  BY <1>1, <3>3 DEF Call, Phases
  <2>2. CASE ~(service[call[r].service].state = "offered" /\ approved)
    BY <1>1, <1>3, <2>2, IdleIsCall DEF CheckService, Return
  <2> QED  BY <2>1, <2>2
<1>4. ASSUME CheckHours(r) \/ CheckOverlap(r) \/ TransactionFails(r)
      PROVE  call'[r] \in Call /\ call' = [call EXCEPT ![r] = call'[r]]
  <2>1. CASE Return(r)
    BY <1>1, <2>1, IdleIsCall DEF Return
  <2>2. ASSUME NEW phase \in Phases, Advance(r, phase)
        PROVE  call'[r] \in Call /\ call' = [call EXCEPT ![r] = call'[r]]
    BY <1>1, <2>2 DEF Advance, Call
  <2>3. "open" \in Phases /\ "clear" \in Phases
    BY DEF Phases
  <2> QED  BY <1>4, <2>1, <2>2, <2>3 DEF CheckHours, CheckOverlap, TransactionFails
<1>5. ASSUME NEW b \in Bookings, NEW move \in Moves, FindBooking(r, b, move)
      PROVE  call'[r] \in Call /\ call' = [call EXCEPT ![r] = call'[r]]
  BY <1>1, <1>5, MovesAreBetweenStatuses DEF FindBooking, Call, Phases, Idle
<1>6. ASSUME NEW s \in Services, CountUses(r, s)
      PROVE  call'[r] \in Call /\ call' = [call EXCEPT ![r] = call'[r]]
  BY <1>1, <1>6 DEF CountUses, Call, Phases, Idle
<1> QED  BY <1>0, <1>2, <1>3, <1>4, <1>5, <1>6 DEF ReadStep

\* A partial update is a row of an existing service.
LEMMA UpdatedIsRow ==
    ASSUME NEW old \in ServiceRow, old.state \in {"offered", "hidden"}, NEW row \in Updates(old)
    PROVE  row \in ServiceRow /\ row.state \in {"offered", "hidden"}
<1>1. CASE \E state \in {"offered", "hidden"} : row = [old EXCEPT !.state = state]
  BY <1>1 DEF ServiceRow
<1>2. CASE \E length \in Lengths : row = [old EXCEPT !.length = length]
  BY <1>2 DEF ServiceRow
<1>3. CASE \E price \in Prices : row = [old EXCEPT !.price = price]
  BY <1>3 DEF ServiceRow
<1> QED  BY <1>1, <1>2, <1>3 DEF Updates

LEMMA SettingsAreTyped == TypeOK => InForce \in Settings
BY DEF TypeOK, InForce, Settings

\* An edit adds to the history what is then in force.
LEMMA EditedHistory ==
    ASSUME history \in Seq(Settings), Edit, policy' \in Policies, approved' \in BOOLEAN,
           hours' \in [0 .. WeekLength - 1 -> HoursRows], service' \in [Services -> ServiceRow]
    PROVE  history' \in Seq(Settings)
<1>1. InForce' \in Settings  BY DEF InForce, Settings
<1> QED  BY <1>1 DEF Edit

LEMMA SlotTypeStep == TypeOK /\ CallsHoldTheirRows /\ ServicesAreKept /\ [Next]_vars => TypeOK'
<1> SUFFICES ASSUME TypeOK, CallsHoldTheirRows, ServicesAreKept, [Next]_vars
             PROVE  TypeOK'
  OBVIOUS
<1>t. /\ now \in Nat /\ policy \in Policies /\ approved \in BOOLEAN
      /\ hours \in [0 .. WeekLength - 1 -> HoursRows]
      /\ service \in [Services -> ServiceRow]
      /\ booking \in [Bookings -> BookingRow]
      /\ call \in [Calls -> Call]
      /\ history \in Seq(Settings) /\ revived \subseteq Bookings /\ resized \subseteq Services
  BY DEF TypeOK
<1>1. ASSUME NEW r \in Calls, ReadStep(r)  PROVE TypeOK'
  BY <1>1, <1>t, ReadingWritesNothing DEF TypeOK, settings
<1>2. ASSUME NEW r \in Calls, NEW b \in Bookings, InsertBooking(r, b)  PROVE TypeOK'
  <2>1. call' \in [Calls -> Call]
    <3>1. \A q \in Calls : [call[q] EXCEPT !.raced = TRUE] \in Call
      BY <1>t DEF Call
    <3> QED  BY <1>2, <1>t, <3>1, IdleIsCall DEF InsertBooking, CommittedBeside
  <2>2. booking' \in [Bookings -> BookingRow]
    <3>1. call[r] \in Call /\ call[r].phase = "clear"  BY <1>2, <1>t DEF InsertBooking
    <3>2. call[r].service \in Services  BY <3>1 DEF CallsHoldTheirRows
    <3>3. [status |-> "PENDING", service |-> call[r].service,
           at |-> call[r].at, price |-> call[r].price] \in BookingRow
      BY <3>1, <3>2 DEF Call, BookingRow, AllStatuses, ActiveStatuses
    <3> QED  BY <1>2, <1>t, <3>3 DEF InsertBooking
  <2> QED  BY <1>2, <1>t, <2>1, <2>2 DEF TypeOK, InsertBooking, settings
<1>3. ASSUME NEW r \in Calls, WriteStatus(r)  PROVE TypeOK'
  <2>1. call[r].booking \in Bookings /\ call[r].to \in AllStatuses
    BY <1>3 DEF WriteStatus, CallsHoldTheirRows
  <2>2. booking' \in [Bookings -> BookingRow]
    BY <1>3, <1>t, <2>1 DEF WriteStatus, BookingRow
  <2>3. revived' \subseteq Bookings
    BY <1>3, <1>t, <2>1 DEF WriteStatus
  <2>4. call' \in [Calls -> Call]
    BY <1>3, <1>t, IdleIsCall DEF WriteStatus, Return
  <2> QED  BY <1>3, <1>t, <2>2, <2>3, <2>4 DEF TypeOK, WriteStatus, settings
<1>4. ASSUME NEW r \in Calls, DeleteService(r)  PROVE TypeOK'
  <2>1. call[r].service \in Services
    BY <1>4 DEF DeleteService, CallsHoldTheirRows
  <2>2. service' \in [Services -> ServiceRow]
    BY <1>4, <1>t, <2>1 DEF DeleteService, ServiceRow
  <2>4. history' \in Seq(Settings)
    <3>1. history' = history \/ history' = Append(history, [InForce EXCEPT !.service = service'])
      BY <1>4 DEF DeleteService
    <3>2. [InForce EXCEPT !.service = service'] \in Settings
      BY <2>2, SettingsAreTyped DEF Settings
    <3>3. PICK row \in Settings : history' = history \/ history' = Append(history, row)
      BY <3>1, <3>2
    <3>4. history \in Seq(Settings)  BY <1>t
    <3> QED  BY <3>3, <3>4
  <2>3. call' \in [Calls -> Call]
    BY <1>4, <1>t, IdleIsCall DEF DeleteService, Return
  <2> QED  BY <1>4, <1>t, <2>2, <2>3, <2>4 DEF TypeOK, DeleteService
<1>5. ASSUME EditRules  PROVE TypeOK'
  <2>1. ASSUME NEW p \in PolicyChoices, UpdatePolicy(p)  PROVE TypeOK'
    <3>1. policy' \in Policies  BY <2>1, SettingTypes DEF UpdatePolicy
    <3> QED  BY <1>t, <2>1, <3>1, EditedHistory DEF TypeOK, UpdatePolicy
  <2>2. ASSUME NEW isApproved \in BOOLEAN, SetApproval(isApproved)  PROVE TypeOK'
    <3>1. approved' \in BOOLEAN  BY <2>2 DEF SetApproval
    <3> QED  BY <1>t, <2>2, <3>1, EditedHistory DEF TypeOK, SetApproval
  <2>3. ASSUME NEW days \in (SUBSET DOMAIN hours) \ {{}}, NEW entries \in [days -> HoursChoices],
               UpdateOwnHours(entries)
        PROVE  TypeOK'
    <3>1. hours' \in [0 .. WeekLength - 1 -> HoursRows]
      BY <1>t, <2>3, SettingTypes DEF UpdateOwnHours
    <3> QED  BY <1>t, <2>3, <3>1, EditedHistory DEF TypeOK, UpdateOwnHours
  <2> QED  BY <1>5, <2>1, <2>2, <2>3 DEF EditRules
<1>6. ASSUME EditServices  PROVE TypeOK'
  <2>1. ASSUME NEW s \in Services, NEW length \in Lengths, NEW price \in Prices,
               CreateService(s, length, price)
        PROVE  TypeOK'
    <3>1. [state |-> "offered", length |-> length, price |-> price] \in ServiceRow
      BY DEF ServiceRow
    <3>2. service' \in [Services -> ServiceRow]  BY <1>t, <2>1, <3>1 DEF CreateService
    <3> QED  BY <1>t, <2>1, <3>2, EditedHistory DEF TypeOK, CreateService
  <2>2. ASSUME NEW s \in Services, NEW row \in Updates(service[s]), UpdateService(s, row)  PROVE TypeOK'
    <3>1. row \in ServiceRow
      BY <1>t, <2>2, UpdatedIsRow DEF UpdateService, Exists
    <3>2. service' \in [Services -> ServiceRow]  BY <1>t, <2>2, <3>1 DEF UpdateService
    <3>3. resized' \subseteq Services  BY <1>t, <2>2 DEF UpdateService
    <3> QED  BY <1>t, <2>2, <3>2, <3>3, EditedHistory DEF TypeOK, UpdateService
  <2> QED  BY <1>6, <2>1, <2>2 DEF EditServices
<1>7. CASE Tick
  BY <1>t, <1>7 DEF TypeOK, Tick, settings
<1>8. CASE UNCHANGED vars
  BY <1>t, <1>8 DEF TypeOK, vars
<1> QED  BY <1>1, <1>2, <1>3, <1>4, <1>5, <1>6, <1>7, <1>8, StepsByWhatTheyWrite

-----------------------------------------------------------------------------
(* What a request holds, and the services bookings refer to.               *)

\* A service never returns to being absent, and resized only grows.
ServicesStay ==
    /\ \A s \in Services : /\ service[s].state # "none" => service'[s].state # "none"
                           /\ \/ service'[s].length = service[s].length
                              \/ service[s].state = "none"
                              \/ s \in resized'
    /\ resized \subseteq resized' /\ revived \subseteq revived'

LEMMA ServicesDoStay == TypeOK /\ CallsHoldTheirRows /\ [Next]_vars => ServicesStay
<1> SUFFICES ASSUME TypeOK, CallsHoldTheirRows, [Next]_vars PROVE ServicesStay
  OBVIOUS
<1>t. service \in [Services -> ServiceRow]
  BY DEF TypeOK
<1>0. ASSUME service' = service, resized' = resized, revived \subseteq revived'  PROVE ServicesStay
  BY <1>0 DEF ServicesStay
<1>1. ASSUME NEW r \in Calls, ReadStep(r)  PROVE ServicesStay
  BY <1>0, <1>1, ReadingWritesNothing DEF settings
<1>2. ASSUME NEW r \in Calls, NEW b \in Bookings, InsertBooking(r, b)  PROVE ServicesStay
  BY <1>0, <1>2 DEF InsertBooking, settings
<1>3. ASSUME NEW r \in Calls, WriteStatus(r)  PROVE ServicesStay
  BY <1>0, <1>3 DEF WriteStatus, settings
<1>4. ASSUME NEW r \in Calls, DeleteService(r)  PROVE ServicesStay
  <2>1. resized' = resized /\ revived' = revived  BY <1>4 DEF DeleteService
  <2>2. SUFFICES ASSUME NEW s \in Services
                 PROVE  /\ service[s].state # "none" => service'[s].state # "none"
                        /\ service'[s].length = service[s].length
    BY <2>1 DEF ServicesStay
  <2>3. CASE service' = service
    BY <2>3
  <2>4. CASE service' = [service EXCEPT ![call[r].service].state = "deleted"]
    BY <1>t, <2>4 DEF ServiceRow
  <2> QED  BY <1>4, <2>3, <2>4 DEF DeleteService
<1>5. ASSUME NEW s \in Services, NEW length \in Lengths, NEW price \in Prices,
             CreateService(s, length, price)
      PROVE  ServicesStay
  BY <1>t, <1>5 DEF CreateService, ServicesStay
<1>6. ASSUME NEW s \in Services, NEW row \in Updates(service[s]), UpdateService(s, row)
      PROVE  ServicesStay
  <2>1. row \in ServiceRow /\ row.state \in {"offered", "hidden"}
    BY <1>t, <1>6, UpdatedIsRow DEF UpdateService, Exists
  <2> QED  BY <1>t, <1>6, <2>1 DEF UpdateService, ServicesStay
<1>7. CASE EditRules
  BY <1>0, <1>7 DEF EditRules, UpdatePolicy, SetApproval, UpdateOwnHours
<1>8. CASE Tick \/ UNCHANGED vars
  BY <1>0, <1>8 DEF Tick, settings, vars
<1> QED  BY <1>1, <1>2, <1>3, <1>4, <1>5, <1>6, <1>7, <1>8, StepsByWhatTheyWrite DEF EditServices

\* A row of the Booking table stays, with its service and its start.
LEMMA BookingsStay ==
    ASSUME TypeOK, CallsHoldTheirRows, ServicesAreKept, [Next]_vars, NEW b \in Bookings, booking[b] # NoBooking
    PROVE  /\ booking'[b].service = booking[b].service /\ booking'[b].at = booking[b].at
           /\ booking'[b] # NoBooking /\ booking'[b].status \in AllStatuses
<1>t. booking \in [Bookings -> BookingRow] /\ booking[b].service \in Services /\ booking[b].status \in AllStatuses
  BY DEF TypeOK, ServicesAreKept
<1>1. CASE booking' = booking
  BY <1>1, <1>t
<1>2. ASSUME NEW r \in Calls, NEW c \in Bookings, InsertBooking(r, c)
      PROVE  booking'[b] = booking[b]
  BY <1>2, <1>t DEF InsertBooking
<1>3. ASSUME NEW r \in Calls, WriteStatus(r)
      PROVE  /\ booking'[b].service = booking[b].service /\ booking'[b].at = booking[b].at
             /\ booking'[b] # NoBooking /\ booking'[b].status \in AllStatuses
  <2>1. call[r].booking \in Bookings /\ call[r].to \in AllStatuses
    BY <1>3 DEF WriteStatus, CallsHoldTheirRows
  <2>2. /\ booking'[b].service = booking[b].service /\ booking'[b].at = booking[b].at
        /\ booking'[b].status \in AllStatuses
    BY <1>3, <1>t, <2>1 DEF WriteStatus, BookingRow
  <2>3. booking'[b] # NoBooking
    BY <1>t, <2>2, NothingIsNoRow DEF NoBooking
  <2> QED  BY <2>2, <2>3
<1>4. \/ booking' = booking
      \/ \E r \in Calls, c \in Bookings : InsertBooking(r, c)
      \/ \E r \in Calls : WriteStatus(r)
  BY StepsByWhatTheyWrite, ReadingWritesNothing
     DEF DeleteService, EditRules, UpdatePolicy, SetApproval, UpdateOwnHours,
         EditServices, CreateService, UpdateService, Tick, vars
<1> QED  BY <1>t, <1>1, <1>2, <1>3, <1>4

LEMMA HoldStep == TypeOK /\ CallsHoldTheirRows /\ ServicesAreKept /\ [Next]_vars => CallsHoldTheirRows'
<1> SUFFICES ASSUME TypeOK, CallsHoldTheirRows, ServicesAreKept, [Next]_vars, NEW q \in Calls
             PROVE  /\ call'[q].phase \in {"allowed", "priced", "open", "clear", "counted"}
                       => call'[q].service \in Services
                    /\ call'[q].phase \in {"priced", "open", "clear"} => ServiceRead(q)'
                    /\ call'[q].phase = "found"
                       => /\ call'[q].booking \in Bookings /\ booking'[call'[q].booking] # NoBooking
                          /\ call'[q].to \in AllStatuses
  BY DEF CallsHoldTheirRows
<1> DEFINE Holds(c) == /\ c.phase \in {"allowed", "priced", "open", "clear", "counted"}
                          => c.service \in Services
                       /\ c.phase \in {"priced", "open", "clear"}
                          => /\ service[c.service].state # "none"
                             /\ c.length = service[c.service].length \/ c.service \in resized
                       /\ c.phase = "found"
                          => /\ c.booking \in Bookings /\ booking[c.booking] # NoBooking
                             /\ c.to \in AllStatuses
<1>t. call \in [Calls -> Call] /\ service \in [Services -> ServiceRow]
  BY DEF TypeOK
<1>h. \A r \in Calls : Holds(call[r])
  BY DEF CallsHoldTheirRows, ServiceRead
<1>i. Holds(Idle)
  BY DEF Idle
<1>1. Holds(call'[q])
  <2>1. ASSUME NEW r \in Calls, ReadStep(r)  PROVE Holds(call'[q])
    <3>1. CASE q # r
      BY <1>t, <1>h, <2>1, <3>1, ReadingWritesNothing
    <3>2. CASE q = r
      <4>1. ASSUME NEW s \in Services, NEW at \in Instants, CheckPolicy(r, s, at)  PROVE Holds(call'[r])
        BY <1>t, <4>1 DEF CheckPolicy, Idle
      <4>2. ASSUME CheckService(r)  PROVE Holds(call'[r])
        <5>1. call[r].service \in Services  BY <4>2 DEF CheckService, CallsHoldTheirRows
        <5>2. CASE service[call[r].service].state = "offered" /\ approved
          BY <1>t, <4>2, <5>1, <5>2 DEF CheckService, Call
        <5>3. CASE ~(service[call[r].service].state = "offered" /\ approved)
          BY <1>t, <1>i, <4>2, <5>3 DEF CheckService, Return
        <5> QED  BY <5>2, <5>3
      <4>3. ASSUME CheckHours(r) \/ CheckOverlap(r) \/ TransactionFails(r)  PROVE Holds(call'[r])
        <5>1. CASE Return(r)
          BY <1>t, <1>i, <5>1 DEF Return
        <5>2. ASSUME NEW phase \in {"open", "clear"}, call[r].phase \in {"priced", "open"}, Advance(r, phase)
              PROVE  Holds(call'[r])
          <6>1. /\ call'[r].phase = phase /\ call'[r].service = call[r].service
                /\ call'[r].length = call[r].length
            BY <1>t, <5>2 DEF Advance, Call
          <6> QED  BY <1>h, <5>2, <6>1
        <5> QED  BY <4>3, <5>1, <5>2 DEF CheckHours, CheckOverlap, TransactionFails
      <4>4. ASSUME NEW b \in Bookings, NEW move \in Moves, FindBooking(r, b, move)  PROVE Holds(call'[r])
        <5>1. booking[b] # NoBooking
          BY <4>4, MovesAreBetweenStatuses DEF FindBooking, NoBooking, ActiveStatuses
        <5> QED  BY <1>t, <4>4, <5>1, MovesAreBetweenStatuses DEF FindBooking, Idle
      <4>5. ASSUME NEW s \in Services, CountUses(r, s)  PROVE Holds(call'[r])
        BY <1>t, <4>5 DEF CountUses, Idle
      <4> QED  BY <2>1, <3>2, <4>1, <4>2, <4>3, <4>4, <4>5 DEF ReadStep
    <3> QED  BY <3>1, <3>2
  <2>2. ASSUME NEW r \in Calls, NEW b \in Bookings, InsertBooking(r, b)  PROVE Holds(call'[q])
    <3>1. call'[q] \in {Idle, call[q], [call[q] EXCEPT !.raced = TRUE]}
      BY <2>2, <1>t DEF InsertBooking, CommittedBeside
    <3>2. Holds([call[q] EXCEPT !.raced = TRUE])
      <4> DEFINE c == [call[q] EXCEPT !.raced = TRUE]
      <4>1. /\ c.phase = call[q].phase /\ c.service = call[q].service /\ c.length = call[q].length
            /\ c.booking = call[q].booking /\ c.to = call[q].to
        BY <1>t DEF Call
      <4> HIDE DEF c
      <4>2. Holds(c)  BY <1>h, <4>1
      <4> QED  BY <4>2 DEF c
    <3> QED  BY <1>h, <1>i, <3>1, <3>2
  <2>3. ASSUME NEW r \in Calls, WriteStatus(r) \/ DeleteService(r)  PROVE Holds(call'[q])
    <3>1. call'[q] \in {Idle, call[q]}
      BY <1>t, <2>3 DEF WriteStatus, DeleteService, Return
    <3> QED  BY <1>h, <1>i, <3>1
  <2>4. CASE call' = call
    BY <1>h, <2>4
  <2> QED
    BY <2>1, <2>2, <2>3, <2>4, StepsByWhatTheyWrite
       DEF EditRules, UpdatePolicy, SetApproval, UpdateOwnHours, EditServices, CreateService,
           UpdateService, Tick, vars
<1>2. ASSUME call'[q].phase \in {"priced", "open", "clear"}  PROVE ServiceRead(q)'
  BY <1>1, <1>2, ServicesDoStay DEF ServicesStay, ServiceRead
<1>3. ASSUME call'[q].phase = "found"  PROVE booking'[call'[q].booking] # NoBooking
  BY <1>1, <1>3, BookingsStay
<1> QED  BY <1>1, <1>2, <1>3

LEMMA KeptStep == TypeOK /\ CallsHoldTheirRows /\ ServicesAreKept /\ [Next]_vars => ServicesAreKept'
<1> SUFFICES ASSUME TypeOK, CallsHoldTheirRows, ServicesAreKept, [Next]_vars,
                    NEW b \in Bookings, booking'[b] # NoBooking
             PROVE  /\ booking'[b].service \in Services /\ service'[booking'[b].service].state \in {"offered", "hidden"}
                    /\ booking'[b].status \in AllStatuses
  BY DEF ServicesAreKept, Exists
<1>t. booking \in [Bookings -> BookingRow] /\ service \in [Services -> ServiceRow] /\ call \in [Calls -> Call]
  BY DEF TypeOK
<1>1. CASE booking[b] # NoBooking
  <2> DEFINE s == booking[b].service
  <2>1. s \in Services /\ Exists(s) /\ booking'[b].service = s /\ booking'[b].status \in AllStatuses
    BY <1>1, BookingsStay DEF ServicesAreKept
  <2> HIDE DEF s
  <2>2. service'[s].state \in {"offered", "hidden"}
    <3>1. CASE service' = service
      BY <2>1, <3>1 DEF Exists
    <3>2. ASSUME NEW r \in Calls, DeleteService(r)  PROVE service'[s] = service[s]
      <4>1. Referenced(s)  BY DEF Referenced, s
      <4>2. call[r].service \in Services  BY <3>2 DEF DeleteService, CallsHoldTheirRows
      <4> QED  BY <1>t, <2>1, <3>2, <4>1, <4>2 DEF DeleteService
    <3>3. ASSUME NEW c \in Services, NEW length \in Lengths, NEW price \in Prices, CreateService(c, length, price)
          PROVE  service'[s] = service[s]
      BY <1>t, <2>1, <3>3 DEF CreateService, Exists
    <3>4. ASSUME NEW c \in Services, NEW row \in Updates(service[c]), UpdateService(c, row)
          PROVE  service'[s].state \in {"offered", "hidden"}
      <4>1. row.state \in {"offered", "hidden"}
        BY <1>t, <3>4, UpdatedIsRow DEF UpdateService, Exists
      <4> QED  BY <1>t, <2>1, <3>4, <4>1 DEF UpdateService, Exists
    <3>5. \/ service' = service
          \/ \E r \in Calls : DeleteService(r)
          \/ EditServices
      BY StepsByWhatTheyWrite, ReadingWritesNothing
         DEF InsertBooking, WriteStatus, EditRules, UpdatePolicy, SetApproval, UpdateOwnHours,
             Tick, vars, settings
    <3> QED  BY <2>1, <3>1, <3>2, <3>3, <3>4, <3>5 DEF EditServices, Exists
  <2> QED  BY <2>1, <2>2 DEF Exists
<1>2. ASSUME booking[b] = NoBooking, NEW r \in Calls, NEW c \in Bookings, InsertBooking(r, c)
      PROVE  /\ booking'[b].service \in Services /\ service'[booking'[b].service].state \in {"offered", "hidden"}
             /\ booking'[b].status \in AllStatuses
  <2>1. call[r].service \in Services  BY <1>2 DEF InsertBooking, CallsHoldTheirRows
  <2>2. c = b  BY <1>2, <1>t DEF InsertBooking
  <2>3. booking'[b].service = call[r].service /\ booking'[b].status = "PENDING" /\ service' = service
    BY <1>2, <1>t, <2>2 DEF InsertBooking, settings
  <2> QED  BY <1>2, <2>1, <2>3 DEF InsertBooking, Exists, AllStatuses, ActiveStatuses
<1>3. ASSUME booking[b] = NoBooking, NEW r \in Calls, WriteStatus(r)  PROVE FALSE
  <2>1. call[r].booking # b  BY <1>3 DEF WriteStatus, CallsHoldTheirRows
  <2> QED  BY <1>3, <1>t, <2>1 DEF WriteStatus
<1>4. \/ booking' = booking
      \/ \E r \in Calls, c \in Bookings : InsertBooking(r, c)
      \/ \E r \in Calls : WriteStatus(r)
  BY StepsByWhatTheyWrite, ReadingWritesNothing
     DEF DeleteService, EditRules, UpdatePolicy, SetApproval, UpdateOwnHours,
         EditServices, CreateService, UpdateService, Tick, vars
<1> QED  BY <1>1, <1>2, <1>3, <1>4

-----------------------------------------------------------------------------
(* Overlaps.                                                               *)

LEMMA TerminalOrActive == \A status \in AllStatuses : status \in ActiveStatuses \/ status \in TerminalStatuses
BY DEF AllStatuses

\* A booking ends where it did before the step, or its service was edited; and
\* one that the step makes active was taken out of a terminal status.
LEMMA BookingsKeepTheirPlace ==
    ASSUME TypeOK, CallsHoldTheirRows, ServicesAreKept, [Next]_vars, NEW b \in Bookings, booking[b] # NoBooking
    PROVE  /\ booking'[b].at = booking[b].at
           /\ Excused(b) => Excused(b)'
           /\ End(b)' = End(b) \/ Excused(b)'
           /\ Active(b)' => Active(b) \/ Excused(b)'
<1>t. booking \in [Bookings -> BookingRow]
  BY DEF TypeOK
<1>1. /\ booking[b].service \in Services /\ Exists(booking[b].service) /\ booking[b].status \in AllStatuses
      /\ booking'[b].service = booking[b].service /\ booking'[b].at = booking[b].at
  BY BookingsStay DEF ServicesAreKept
<1>2. ServicesStay
  BY ServicesDoStay
<1>3. Excused(b) => Excused(b)'
  BY <1>1, <1>2 DEF Excused, ServicesStay
<1>4. End(b)' = End(b) \/ Excused(b)'
  BY <1>1, <1>2 DEF Excused, ServicesStay, End, Exists
<1>5. ASSUME Active(b)', ~Active(b)  PROVE b \in revived'
  <2>1. booking[b].status \in TerminalStatuses
    BY <1>1, <1>5, TerminalOrActive DEF Active
  <2>2. booking'[b] # booking[b]
    BY <1>5 DEF Active
  <2>3. ASSUME NEW r \in Calls, NEW c \in Bookings, InsertBooking(r, c)  PROVE FALSE
    BY <1>t, <2>2, <2>3 DEF InsertBooking
  <2>4. PICK r \in Calls : WriteStatus(r)
    BY <2>2, <2>3, StepsByWhatTheyWrite, ReadingWritesNothing
       DEF DeleteService, EditRules, UpdatePolicy, SetApproval, UpdateOwnHours,
           EditServices, CreateService, UpdateService, Tick, vars
  <2>5. call[r].booking = b
    BY <1>t, <2>2, <2>4 DEF WriteStatus
  <2> QED  BY <2>1, <2>4, <2>5 DEF WriteStatus
<1> QED  BY <1>1, <1>3, <1>4, <1>5 DEF Excused

LEMMA ClearStep ==
    TypeOK /\ CallsHoldTheirRows /\ ServicesAreKept /\ ClearIsFree /\ [Next]_vars => ClearIsFree'
<1> SUFFICES ASSUME TypeOK, CallsHoldTheirRows, ServicesAreKept, ClearIsFree, [Next]_vars,
                    NEW q \in Calls, NEW b \in Bookings,
                    call'[q].phase = "clear", ~call'[q].raced, Active(b)',
                    Overlaps(call'[q].at, call'[q].at + Minutes(call'[q].length), booking'[b].at, End(b)')
             PROVE  Excused(b)' \/ call'[q].service \in resized'
  BY DEF ClearIsFree
<1>t. /\ call \in [Calls -> Call] /\ booking \in [Bookings -> BookingRow]
      /\ resized \subseteq resized'
  BY ServicesDoStay DEF ServicesStay, TypeOK
<1>1. ASSUME NEW r \in Calls, NEW c \in Bookings, InsertBooking(r, c)  PROVE FALSE
  BY <1>1, <1>t DEF InsertBooking, CommittedBeside, Idle, Call
<1>2. booking[b] # NoBooking
  <2>1. booking'[b] # NoBooking
    BY DEF Active, NoBooking, ActiveStatuses
  <2>2. ASSUME NEW r \in Calls, WriteStatus(r)  PROVE booking[b] # NoBooking
    BY <2>1, <2>2, <1>t DEF WriteStatus, CallsHoldTheirRows
  <2> QED
    BY <1>1, <2>1, <2>2, StepsByWhatTheyWrite, ReadingWritesNothing
       DEF DeleteService, EditRules, UpdatePolicy, SetApproval, UpdateOwnHours,
           EditServices, CreateService, UpdateService, Tick, vars
<1>3. CASE call'[q] = call[q]
  BY <1>2, <1>3, <1>t, BookingsKeepTheirPlace DEF ClearIsFree
<1>4. ASSUME call'[q] # call[q]  PROVE CheckOverlap(q)
  <2>1. ASSUME NEW r \in Calls, ReadStep(r)  PROVE CheckOverlap(q)
    <3>1. r = q
      BY <1>4, <1>t, <2>1, ReadingWritesNothing
    <3>2. CASE Return(q)
      BY <1>t, <3>2 DEF Return, Idle
    <3>3. ASSUME NEW s \in Services, NEW at \in Instants, CheckPolicy(q, s, at)  PROVE FALSE
      BY <1>t, <3>3 DEF CheckPolicy, Idle
    <3>4. ASSUME CheckService(q), ~Return(q)  PROVE FALSE
      BY <1>t, <3>4 DEF CheckService, Call
    <3>5. ASSUME CheckHours(q), ~Return(q)  PROVE FALSE
      BY <1>t, <3>5 DEF CheckHours, Advance, Call
    <3>6. ASSUME NEW c \in Bookings, NEW move \in Moves, FindBooking(q, c, move)  PROVE FALSE
      BY <1>t, <3>6 DEF FindBooking, Idle
    <3>7. ASSUME NEW s \in Services, CountUses(q, s)  PROVE FALSE
      BY <1>t, <3>7 DEF CountUses, Idle
    <3> QED  BY <2>1, <3>1, <3>2, <3>3, <3>4, <3>5, <3>6, <3>7 DEF ReadStep, TransactionFails
  <2>2. ASSUME NEW r \in Calls, WriteStatus(r) \/ DeleteService(r)  PROVE FALSE
    BY <1>4, <1>t, <2>2 DEF WriteStatus, DeleteService, Return, Idle
  <2> QED
    BY <1>1, <1>4, <2>1, <2>2, StepsByWhatTheyWrite
       DEF EditRules, UpdatePolicy, SetApproval, UpdateOwnHours, EditServices, CreateService,
           UpdateService, Tick, vars
<1>5. ASSUME CheckOverlap(q)  PROVE FALSE
  <2>1. /\ ~Taken(call[q].at, call[q].length) /\ UNCHANGED <<booking, service>>
        /\ call'[q].at = call[q].at /\ call'[q].length = call[q].length
    BY <1>5, <1>t DEF CheckOverlap, Return, Advance, Idle, settings, Call
  <2>2. Active(b) /\ End(b)' = End(b) /\ booking' = booking
    BY <2>1 DEF Active, End
  <2> QED  BY <2>1, <2>2 DEF Taken
<1> QED  BY <1>3, <1>4, <1>5

\* Overlapping is symmetric.
LEMMA OverlapsBothWays ==
    ASSUME NEW at, NEW end, NEW at2, NEW end2
    PROVE  Overlaps(at, end, at2, end2) <=> Overlaps(at2, end2, at, end)
BY DEF Overlaps

LEMMA DoubleStep ==
    TypeOK /\ CallsHoldTheirRows /\ ServicesAreKept /\ ClearIsFree /\ NoDoubleBooking /\ [Next]_vars
    => NoDoubleBooking'
<1> SUFFICES ASSUME TypeOK, CallsHoldTheirRows, ServicesAreKept, ClearIsFree, NoDoubleBooking, [Next]_vars,
                    NEW a \in Bookings, NEW b \in Bookings, a # b, Active(a)', Active(b)',
                    Overlaps(booking'[a].at, End(a)', booking'[b].at, End(b)')
             PROVE  Excused(a)' \/ Excused(b)'
  BY DEF NoDoubleBooking
<1>t. /\ call \in [Calls -> Call] /\ booking \in [Bookings -> BookingRow]
      /\ service \in [Services -> ServiceRow]
  BY DEF TypeOK
<1>1. CASE booking[a] # NoBooking /\ booking[b] # NoBooking
  BY <1>1, BookingsKeepTheirPlace DEF NoDoubleBooking
<1>2. ASSUME NEW x \in Bookings, NEW y \in Bookings, x # y, Active(x)', Active(y)', booking[y] = NoBooking,
             Overlaps(booking'[x].at, End(x)', booking'[y].at, End(y)')
      PROVE  Excused(x)' \/ Excused(y)'
  <2>1. booking'[y] # NoBooking
    BY <1>2 DEF Active, NoBooking, ActiveStatuses
  <2>2. ASSUME NEW r \in Calls, WriteStatus(r)  PROVE FALSE
    BY <1>2, <2>1, <2>2, <1>t DEF WriteStatus, CallsHoldTheirRows
  <2>3. PICK r \in Calls : \E c \in Bookings : InsertBooking(r, c)
    BY <1>2, <2>1, <2>2, StepsByWhatTheyWrite, ReadingWritesNothing
       DEF DeleteService, EditRules, UpdatePolicy, SetApproval, UpdateOwnHours,
           EditServices, CreateService, UpdateService, Tick, vars
  <2>4. InsertBooking(r, y)
    BY <1>2, <2>1, <2>3, <1>t DEF InsertBooking
  <2>5. /\ call[r].phase = "clear" /\ ~call[r].raced
        /\ booking'[y].service = call[r].service /\ booking'[y].at = call[r].at
        /\ booking'[x] = booking[x] /\ UNCHANGED <<service, resized, revived>>
    BY <1>2, <2>4, <1>t DEF InsertBooking, settings
  <2>6. call[r].length = service[call[r].service].length \/ call[r].service \in resized
    BY <2>5 DEF CallsHoldTheirRows, ServiceRead
  <2>7. CASE call[r].service \in resized
    BY <2>5, <2>7 DEF Excused
  <2>8. CASE call[r].length = service[call[r].service].length
    <3>1. End(y)' = call[r].at + Minutes(call[r].length) /\ End(x)' = End(x) /\ Active(x)
      BY <1>2, <2>5, <2>8 DEF End, Active
    <3>2. Overlaps(call[r].at, call[r].at + Minutes(call[r].length), booking[x].at, End(x))
      BY <1>2, <2>5, <3>1, OverlapsBothWays
    <3>3. Excused(x) \/ call[r].service \in resized
      BY <2>5, <3>1, <3>2 DEF ClearIsFree
    <3> QED  BY <2>5, <3>3 DEF Excused
  <2> QED  BY <2>6, <2>7, <2>8
<1>3. CASE booking[b] = NoBooking
  BY <1>2, <1>3
<1>4. CASE booking[a] = NoBooking
  BY <1>2, <1>4, OverlapsBothWays
<1> QED  BY <1>1, <1>3, <1>4

-----------------------------------------------------------------------------
(* What a request has verified.                                            *)

\* The history only grows, and ends with what is in force.
LEMMA HistoryStep ==
    TypeOK /\ CallsHoldTheirRows /\ HistoryIsCurrent /\ [Next]_vars
    => /\ HistoryIsCurrent'
       /\ Len(history) \in Nat /\ Len(history') \in Nat /\ Len(history) <= Len(history')
       /\ \A n \in 1 .. Len(history) : history'[n] = history[n]
<1> SUFFICES ASSUME TypeOK, CallsHoldTheirRows, HistoryIsCurrent, [Next]_vars
             PROVE  /\ HistoryIsCurrent'
                    /\ Len(history) \in Nat /\ Len(history') \in Nat /\ Len(history) <= Len(history')
                    /\ \A n \in 1 .. Len(history) : history'[n] = history[n]
  OBVIOUS
<1>t. history \in Seq(Settings) /\ Len(history) \in Nat
  BY DEF TypeOK
<1>1. CASE history' = history /\ InForce' = InForce
  BY <1>t, <1>1 DEF HistoryIsCurrent
<1>2. CASE history' = Append(history, InForce')
  <2>1. PICK latest : latest = InForce'  OBVIOUS
  <2>2. history' = Append(history, latest)  BY <1>2, <2>1
  <2>3. /\ Len(history') = Len(history) + 1 /\ history'[Len(history) + 1] = latest
        /\ \A n \in 1 .. Len(history) : history'[n] = history[n]
    BY <1>t, <2>2
  <2>4. HistoryIsCurrent'  BY <1>t, <2>1, <2>3 DEF HistoryIsCurrent
  <2> QED  BY <1>t, <2>3, <2>4
<1>3. UNCHANGED settings => history' = history /\ InForce' = InForce
  BY DEF settings, InForce
<1>4. ASSUME NEW r \in Calls, DeleteService(r)
      PROVE  (history' = history /\ InForce' = InForce) \/ history' = Append(history, InForce')
  <2>1. /\ UNCHANGED <<policy, approved, hours>>
        /\ \/ UNCHANGED <<service, history>>
           \/ history' = Append(history, [InForce EXCEPT !.service = service'])
    BY <1>4 DEF DeleteService
  <2>2. [InForce EXCEPT !.service = service'] = InForce'
    BY <2>1 DEF InForce
  <2> QED  BY <2>1, <2>2 DEF InForce
<1>5. EditRules \/ EditServices => history' = Append(history, InForce')
  BY DEF EditRules, UpdatePolicy, SetApproval, UpdateOwnHours, EditServices, CreateService,
         UpdateService, Edit
<1>6. CASE UNCHANGED settings
  BY <1>1, <1>3, <1>6
<1> QED
  BY <1>1, <1>2, <1>4, <1>5, <1>6, StepsByWhatTheyWrite, ReadingWritesNothing
     DEF InsertBooking, WriteStatus, Tick, vars, settings

\* What has been seen in part has been seen in whole.
LEMMA VerifiedGrows ==
    ASSUME NEW c, NEW seen, NEW more, seen \subseteq more, Verified(c, seen)
    PROVE  Verified(c, more)
BY DEF Verified

LEMMA SeenGrows ==
    ASSUME TypeOK, CallsHoldTheirRows, HistoryIsCurrent, [Next]_vars, NEW q \in Calls,
           call[q].begun \in 1 .. Len(history), call'[q].begun = call[q].begun
    PROVE  SeenBy(q) \subseteq SeenBy(q)' /\ InForce \in SeenBy(q) /\ call'[q].begun \in 1 .. Len(history')
<1>1. /\ Len(history) \in Nat /\ Len(history') \in Nat /\ Len(history) <= Len(history')
      /\ \A n \in 1 .. Len(history) : history'[n] = history[n]
  BY HistoryStep
<1>2. \A n \in call[q].begun .. Len(history) : n \in 1 .. Len(history) /\ n \in call'[q].begun .. Len(history')
  BY <1>1
<1>3. Len(history) \in call[q].begun .. Len(history) /\ history[Len(history)] = InForce
  BY <1>1 DEF HistoryIsCurrent
<1>4. InForce \in SeenBy(q)
  BY <1>3 DEF SeenBy
<1>5. SeenBy(q) \subseteq SeenBy(q)'
  BY <1>1, <1>2 DEF SeenBy
<1>6. call'[q].begun \in 1 .. Len(history')
  BY <1>1
<1> QED  BY <1>4, <1>5, <1>6

LEMMA ChecksStep ==
    TypeOK /\ CallsHoldTheirRows /\ HistoryIsCurrent /\ ChecksStand /\ [Next]_vars => ChecksStand'
<1> SUFFICES ASSUME TypeOK, CallsHoldTheirRows, HistoryIsCurrent, ChecksStand, [Next]_vars, NEW q \in Calls,
                    call'[q].phase \in {"allowed", "priced", "open", "clear"}
             PROVE  call'[q].begun \in 1 .. Len(history') /\ Verified(call'[q], SeenBy(q)')
  BY DEF ChecksStand
<1>t. /\ call \in [Calls -> Call] /\ history \in Seq(Settings) /\ now \in Nat
      /\ service \in [Services -> ServiceRow] /\ Len(history) \in Nat /\ Len(history) > 0
  BY DEF TypeOK, HistoryIsCurrent
<1> DEFINE c == call[q]
           d == call'[q]
           seen == SeenBy(q)
           more == SeenBy(q)'
           Stands == d.begun \in 1 .. Len(history') /\ Verified(d, more)
<1>a. ASSUME /\ d.begun = c.begun /\ d.at = c.at /\ d.asked = c.asked /\ d.service = c.service
             /\ c.phase \in {"allowed", "priced", "open", "clear"}
      PROVE  /\ c.begun \in 1 .. Len(history) /\ d.begun \in 1 .. Len(history')
             /\ seen \subseteq more /\ InForce \in seen /\ Verified(c, seen)
  BY <1>a, SeenGrows DEF ChecksStand
<1>b. ASSUME /\ d.begun = c.begun /\ d.at = c.at /\ d.asked = c.asked /\ d.service = c.service
             /\ d.length = c.length /\ d.price = c.price /\ d.phase = c.phase
      PROVE  Stands
  <2>1. Verified(c, seen) /\ seen \subseteq more /\ d.begun \in 1 .. Len(history')
    BY <1>a, <1>b
  <2>2. Verified(d, seen)
    <3> HIDE DEF seen
    <3> QED  BY <1>b, <2>1 DEF Verified
  <2> HIDE DEF c, d, seen, more
  <2> QED  BY <2>1, <2>2, VerifiedGrows DEF Stands
<1>1. ASSUME ReadStep(q)  PROVE Stands
  <2>1. UNCHANGED settings /\ InForce' = InForce
    BY <1>1, ReadingWritesNothing DEF settings, InForce
  <2>2. ASSUME NEW s \in Services, NEW at \in Instants, CheckPolicy(q, s, at)  PROVE Stands
    <3>1. /\ d.phase = "allowed" /\ d.at = at /\ d.asked = now
          /\ d.begun = Len(history) /\ PolicyAllows(policy, now, at)
      BY <1>t, <2>2 DEF CheckPolicy, Idle
    <3>2. Len(history) \in call'[q].begun .. Len(history') /\ history'[Len(history)] = InForce
      BY <1>t, <2>1, <3>1 DEF settings, HistoryIsCurrent
    <3>3. InForce \in more /\ InForce.policy = policy
      BY <3>2 DEF SeenBy, InForce
    <3>4. d.begun \in 1 .. Len(history')
      BY <1>t, <2>1, <3>1 DEF settings
    <3> HIDE DEF more, d
    <3>5. PICK old : old = InForce /\ old \in more /\ old.policy = policy  BY <3>3
    <3>6. Verified(d, more)
      BY <3>1, <3>5 DEF Verified
    <3> QED  BY <3>4, <3>6
  <2>3. ASSUME CheckService(q)  PROVE Stands
    <3>1. c.service \in Services /\ c.phase = "allowed" /\ ~Return(q)
      BY <1>t, <2>3 DEF CheckService, CallsHoldTheirRows, Return, Idle
    <3>2. /\ d.phase = "priced" /\ d.at = c.at /\ d.asked = c.asked
          /\ d.begun = c.begun /\ d.service = c.service
          /\ d.length = service[c.service].length
          /\ d.price = service[c.service].price
          /\ service[c.service].state = "offered" /\ approved
      BY <1>t, <2>3, <3>1 DEF CheckService, Call
    <3>3. /\ d.begun \in 1 .. Len(history') /\ seen \subseteq more /\ InForce \in seen /\ Verified(c, seen)
      BY <1>a, <3>1, <3>2
    <3>4. PICK old : old = InForce /\ old \in more /\ old.service = service /\ old.approved = approved
      BY <3>3 DEF InForce
    <3> HIDE DEF c, d, seen, more
    <3>5. Verified(c, more)  BY <3>3, VerifiedGrows
    <3>6. \E x \in more : PolicyAllows(x.policy, d.asked, d.at)
      BY <3>2, <3>5 DEF Verified
    <3>7. old.approved  BY <3>2, <3>4
    <3>8. Verified(d, more)
      BY <3>2, <3>4, <3>6, <3>7 DEF Verified
    <3> QED  BY <3>3, <3>8
  <2>4. ASSUME NEW phase \in {"open", "clear"}, Advance(q, phase),
               \/ /\ phase = "open" /\ call[q].phase = "priced"
                  /\ FitsHours(HoursOn(call[q].at), call[q].at, call[q].length)
               \/ phase = "clear" /\ call[q].phase = "open"
        PROVE  Stands
    <3>1. /\ d.phase = phase /\ d.at = c.at /\ d.asked = c.asked
          /\ d.begun = c.begun /\ d.service = c.service
          /\ d.length = c.length /\ d.price = c.price
      BY <1>t, <2>4 DEF Advance, Call
    <3>2. /\ d.begun \in 1 .. Len(history') /\ seen \subseteq more /\ InForce \in seen /\ Verified(c, seen)
      BY <1>a, <2>4, <3>1
    <3>3. \E x \in more : FitsHours(x.hours[Weekday(DayOf(c.at))], c.at, c.length)
      <4>1. CASE phase = "clear"
        BY <2>4, <3>2, <4>1 DEF Verified
      <4>2. CASE phase = "open"
        <5>1. PICK old : old = InForce /\ old \in more /\ old.hours = hours  BY <3>2 DEF InForce
        <5> QED  BY <2>4, <4>2, <5>1 DEF HoursOn
      <4> QED  BY <4>1, <4>2
    <3> HIDE DEF seen, more
    <3>4. Verified(c, more)  BY <3>2, VerifiedGrows
    <3>5. c.phase \in {"priced", "open", "clear"}  BY <2>4
    <3> HIDE DEF c, d
    <3>6. Verified(d, more)
      BY <3>1, <3>3, <3>4, <3>5 DEF Verified
    <3> QED  BY <3>2, <3>6
  <2>5. ~Return(q)
    BY <1>t DEF Return, Idle
  <2>6. ASSUME NEW x \in Bookings, NEW move \in Moves, FindBooking(q, x, move)  PROVE FALSE
    BY <1>t, <2>6 DEF FindBooking, Idle
  <2>7. ASSUME NEW s \in Services, CountUses(q, s)  PROVE FALSE
    BY <1>t, <2>7 DEF CountUses, Idle
  <2> HIDE DEF Stands
  <2>8. ASSUME CheckHours(q) \/ CheckOverlap(q)  PROVE Stands
    BY <2>4, <2>5, <2>8 DEF CheckHours, CheckOverlap
  <2> QED  BY <1>1, <2>2, <2>3, <2>5, <2>6, <2>7, <2>8 DEF ReadStep, TransactionFails
<1>2. ASSUME d = c  PROVE Stands
  BY <1>b, <1>2
<1>3. ASSUME d = [c EXCEPT !.raced = TRUE]  PROVE Stands
  BY <1>b, <1>3, <1>t DEF Call
<1>4. d # Idle
  BY DEF Idle
<1>5. ReadStep(q) \/ d = c \/ d = [c EXCEPT !.raced = TRUE] \/ d = Idle
  <2>1. ASSUME NEW r \in Calls, ReadStep(r)  PROVE ReadStep(q) \/ d = c
    BY <1>t, <2>1, ReadingWritesNothing
  <2>2. ASSUME NEW r \in Calls, NEW b \in Bookings, InsertBooking(r, b)
        PROVE  d = c \/ d = [c EXCEPT !.raced = TRUE] \/ d = Idle
    BY <1>t, <2>2 DEF InsertBooking, CommittedBeside
  <2>3. ASSUME NEW r \in Calls, WriteStatus(r) \/ DeleteService(r)  PROVE d = c \/ d = Idle
    BY <1>t, <2>3 DEF WriteStatus, DeleteService, Return
  <2>4. EditRules \/ EditServices \/ Tick \/ UNCHANGED vars => call' = call
    BY DEF EditRules, UpdatePolicy, SetApproval, UpdateOwnHours, EditServices, CreateService,
           UpdateService, Tick, vars
  <2> QED  BY <2>1, <2>2, <2>3, <2>4, StepsByWhatTheyWrite
<1> HIDE DEF Stands
<1>6. Stands  BY <1>1, <1>2, <1>3, <1>4, <1>5
<1> QED  BY <1>6 DEF Stands

-----------------------------------------------------------------------------
(* The theorems.                                                           *)

LEMMA SlotInvariant == Spec => []SlotInv
<1>1. SlotInv /\ [Next]_vars => SlotInv'
  BY SlotTypeStep, HoldStep, KeptStep, ClearStep, DoubleStep, HistoryStep, ChecksStep DEF SlotInv
<1> QED  BY SlotInitInv, <1>1, PTL DEF Spec

\* Every variable of the calendar keeps its type, for any number of requests,
\* services, bookings and edits.
THEOREM SlotTypeCorrect == Spec => []TypeOK
<1>1. SlotInv => TypeOK  BY DEF SlotInv
<1> QED  BY SlotInvariant, <1>1, PTL

\* createBooking's overlap check in a serializable transaction keeps two active
\* bookings apart however its calls, the status writes and the edits of
\* services interleave; the exceptions are a stale write that revives a
\* booking and an edited duration.
THEOREM NoDoubleBookings == Spec => []NoDoubleBooking
<1>1. SlotInv => NoDoubleBooking  BY DEF SlotInv
<1> QED  BY SlotInvariant, <1>1, PTL

\* deleteService never takes a service from under a booking: what its counts
\* missed, the foreign key refuses.
THEOREM ServicesOfBookingsStay == Spec => []BookingsKeepTheirService
<1>1. SlotInv => BookingsKeepTheirService
  BY DEF SlotInv, ServicesAreKept, BookingsKeepTheirService
<1> QED  BY SlotInvariant, <1>1, PTL

-----------------------------------------------------------------------------
(* The calendar's arithmetic.                                              *)

LEMMA DivMod ==
    ASSUME NEW t \in Nat, NEW d \in Nat \ {0}
    PROVE  t \div d \in Nat /\ t % d \in Nat /\ t % d < d /\ t = (d * (t \div d)) + (t % d)
OBVIOUS

LEMMA DivMonotone ==
    ASSUME NEW t \in Nat, NEW u \in Nat, NEW d \in Nat \ {0}, t <= u
    PROVE  t \div d <= u \div d
OBVIOUS

LEMMA DivIsUnique ==
    ASSUME NEW t \in Nat, NEW n \in Nat, NEW d \in Nat \ {0}, n * d <= t, t < (n * d) + d
    PROVE  t \div d = n /\ t % d = t - (n * d)
<1> DEFINE x == t \div d
<1>1. x \in Nat /\ t % d \in Nat /\ t % d < d /\ t = (d * x) + (t % d)  BY DivMod
<1> HIDE DEF x
<1>2. ~(x < n)
  <2> SUFFICES ASSUME x < n PROVE FALSE
    OBVIOUS
  <2>1. d * (x + 1) <= n * d  BY <1>1
  <2> QED  BY <1>1, <2>1
<1>3. ~(n < x)
  <2> SUFFICES ASSUME n < x PROVE FALSE
    OBVIOUS
  <2>1. d * (n + 1) <= d * x  BY <1>1
  <2> QED  BY <1>1, <2>1
<1> QED  BY <1>1, <1>2, <1>3 DEF x

\* An instant is a date and a time since its midnight.
LEMMA DateAndTime ==
    ASSUME NEW t \in Nat
    PROVE  /\ DayOf(t) \in Nat /\ SinceMidnight(t) \in Nat /\ SinceMidnight(t) < DayLength
           /\ t = (DayOf(t) * DayLength) + SinceMidnight(t)
BY DivMod, CalendarAssumption DEF DayOf, SinceMidnight

LEMMA DatesAreOrdered == ASSUME NEW t \in Nat, NEW u \in Nat, t <= u  PROVE DayOf(t) <= DayOf(u)
BY DivMonotone, CalendarAssumption DEF DayOf

LEMMA OnDate ==
    ASSUME NEW t \in Nat, NEW day \in Nat, day * DayLength <= t, t < (day * DayLength) + DayLength
    PROVE  DayOf(t) = day /\ SinceMidnight(t) = t - (day * DayLength)
BY DivIsUnique, CalendarAssumption DEF DayOf, SinceMidnight

LEMMA MinutesAreOrdered ==
    ASSUME NEW m \in Nat, NEW n \in Nat
    PROVE  /\ Minutes(m) \in Nat /\ (m <= n => Minutes(m) <= Minutes(n)) /\ (m < n => Minutes(m) < Minutes(n))
           /\ Minutes(m) + Minutes(n) = Minutes(m + n) /\ (m > 0 => Minutes(m) > 0)
<1>1. MinuteLength \in Nat \ {0}  BY CalendarAssumption
<1>2. m * MinuteLength \in Nat /\ n * MinuteLength \in Nat  BY <1>1
<1>3. m <= n => m * MinuteLength <= n * MinuteLength  BY <1>1
<1>4. m < n => m * MinuteLength < n * MinuteLength  BY <1>1
<1>5. m * MinuteLength + n * MinuteLength = (m + n) * MinuteLength  BY <1>1
<1>6. m > 0 => m * MinuteLength > 0  BY <1>1
<1> QED  BY <1>2, <1>3, <1>4, <1>5, <1>6 DEF Minutes

\* The wall clock shows n minutes during the n-th minute after midnight.
LEMMA WallClock ==
    ASSUME NEW t \in Nat
    PROVE  /\ TimeOf(t) \in Nat
           /\ Minutes(TimeOf(t)) <= SinceMidnight(t)
           /\ SinceMidnight(t) < Minutes(TimeOf(t)) + MinuteLength
<1>1. SinceMidnight(t) \in Nat /\ MinuteLength \in Nat \ {0}  BY DateAndTime, CalendarAssumption
<1> DEFINE x == SinceMidnight(t)
           n == x \div MinuteLength
<1>2. n \in Nat /\ x % MinuteLength \in Nat /\ x % MinuteLength < MinuteLength
      /\ x = (MinuteLength * n) + (x % MinuteLength)
  BY <1>1, DivMod
<1> HIDE DEF x, n
<1>3. n * MinuteLength = MinuteLength * n /\ MinuteLength * n \in Nat  BY <1>1, <1>2
<1>4. n * MinuteLength <= x /\ x < (n * MinuteLength) + MinuteLength  BY <1>1, <1>2, <1>3
<1>5. TimeOf(t) = n  BY DEF TimeOf, x, n
<1> QED  BY <1>2, <1>4, <1>5 DEF Minutes, x

\* A whole minute is reached when the wall clock shows it.
LEMMA ClockReaches ==
    ASSUME NEW t \in Nat, NEW n \in Nat
    PROVE  TimeOf(t) >= n <=> SinceMidnight(t) >= Minutes(n)
<1>1. /\ TimeOf(t) \in Nat /\ SinceMidnight(t) \in Nat /\ MinuteLength \in Nat \ {0}
      /\ Minutes(TimeOf(t)) <= SinceMidnight(t) /\ SinceMidnight(t) < Minutes(TimeOf(t)) + MinuteLength
  BY WallClock, DateAndTime, CalendarAssumption
<1>2. Minutes(TimeOf(t)) \in Nat /\ Minutes(n) \in Nat  BY <1>1, MinutesAreOrdered
<1>3. TimeOf(t) >= n => Minutes(TimeOf(t)) >= Minutes(n)  BY <1>1, MinutesAreOrdered
<1>4. ASSUME ~(TimeOf(t) >= n)  PROVE Minutes(TimeOf(t)) + MinuteLength <= Minutes(n)
  <2>1. TimeOf(t) + 1 <= n /\ TimeOf(t) + 1 \in Nat  BY <1>1, <1>4
  <2>2. Minutes(TimeOf(t) + 1) <= Minutes(n)  BY <2>1, MinutesAreOrdered
  <2>3. Minutes(TimeOf(t) + 1) = Minutes(TimeOf(t)) + MinuteLength
    <3>1. TimeOf(t) \in Nat /\ MinuteLength \in Nat  BY <1>1
    <3> QED  BY <3>1 DEF Minutes
  <2> QED  BY <2>2, <2>3
<1> QED  BY <1>1, <1>2, <1>3, <1>4

\* Between two instants of a date the wall clock is between theirs.
LEMMA WithinADate ==
    ASSUME NEW at \in Nat, NEW t \in Nat, NEW end \in Nat, at <= t, t <= end, DayOf(at) = DayOf(end)
    PROVE  DayOf(t) = DayOf(at) /\ TimeOf(at) <= TimeOf(t) /\ TimeOf(t) <= TimeOf(end)
<1> DEFINE midnight == DayOf(at) * DayLength
<1>1. DayOf(at) <= DayOf(t) /\ DayOf(t) <= DayOf(end)  BY DatesAreOrdered
<1>2. DayOf(t) = DayOf(at)  BY <1>1, DateAndTime
<1>3. midnight \in Nat
  <2>1. DayOf(at) \in Nat /\ DayLength \in Nat  BY DateAndTime, CalendarAssumption
  <2> QED  BY <2>1
<1>4. /\ at = midnight + SinceMidnight(at) /\ t = midnight + SinceMidnight(t)
      /\ end = midnight + SinceMidnight(end)
  BY <1>2, DateAndTime
<1> HIDE DEF midnight
<1>5. SinceMidnight(at) \in Nat /\ SinceMidnight(t) \in Nat /\ SinceMidnight(end) \in Nat  BY DateAndTime
<1>6. SinceMidnight(at) <= SinceMidnight(t) /\ SinceMidnight(t) <= SinceMidnight(end)
  BY <1>3, <1>4, <1>5
<1>7. MinuteLength \in Nat \ {0}  BY CalendarAssumption
<1> QED  BY <1>2, <1>5, <1>6, <1>7, DivMonotone DEF TimeOf

-----------------------------------------------------------------------------
(* What is booked keeps the rules.                                         *)

\* What FitsHours looks at, the two ends, puts the whole visit in the hours,
\* but for the minute it ends in.
LEMMA WholeVisitIsOpen ==
    ASSUME NEW at \in Nat, NEW length \in Nat \ {0}, NEW week, week[Weekday(DayOf(at))] \in HoursRows,
           FitsHours(week[Weekday(DayOf(at))], at, length)
    PROVE  WithinHours(week, at, length)
<1> DEFINE row == week[Weekday(DayOf(at))]
           end == at + Minutes(length)
<1>1. end \in Nat /\ DayOf(at) = DayOf(end)
  <2>1. Minutes(length) \in Nat  BY MinutesAreOrdered
  <2> QED  BY <2>1 DEF FitsHours
<1>2. /\ row.state = "open" /\ TimeOf(at) >= row.open /\ TimeOf(end) <= row.close
      /\ row.open \in Nat /\ row.close \in Nat
  BY DEF FitsHours, HoursRows, OpenHours, ClosedDay, NotConfigured
<1>3. ASSUME NEW t \in at .. end - 1
      PROVE  OpenAt(week, t) \/ (DayOf(t) = DayOf(end) /\ TimeOf(t) = TimeOf(end))
  <2>1. t \in Nat /\ at <= t /\ t <= end  BY <1>1
  <2>2. DayOf(t) = DayOf(at) /\ TimeOf(at) <= TimeOf(t) /\ TimeOf(t) <= TimeOf(end)
    BY <1>1, <2>1, WithinADate
  <2>3. TimeOf(t) \in Nat /\ TimeOf(at) \in Nat /\ TimeOf(end) \in Nat
    BY <1>1, <2>1, WallClock
  <2>4. week[Weekday(DayOf(t))] = row  BY <2>2
  <2> HIDE DEF row, end
  <2>5. CASE TimeOf(t) = TimeOf(end)
    BY <1>1, <2>2, <2>5
  <2>6. CASE TimeOf(t) < TimeOf(end)
    <3>1. TimeOf(t) >= row.open /\ TimeOf(t) < row.close
      BY <1>2, <2>2, <2>3, <2>6
    <3> QED  BY <1>2, <2>4, <3>1 DEF OpenAt
  <2> QED  BY <2>2, <2>3, <2>5, <2>6
<1> QED  BY <1>3 DEF WithinHours

\* The policy's check is the window of days it stands for.
LEMMA PolicyWindow ==
    ASSUME NEW rules \in Policies, NEW asked \in Nat, NEW at \in Nat, PolicyAllows(rules, asked, at)
    PROVE  NoticeKept(rules, asked, at)
<1>1. rules.minAdvance \in Nat /\ rules.maxDays \in Nat /\ rules.sameDay \in BOOLEAN
  BY DEF Policies
<1>2. DayOf(asked) \in Nat /\ DayOf(at) \in Nat  BY DateAndTime
<1>3. at > asked /\ at >= asked + Minutes(rules.minAdvance)  BY DEF PolicyAllows
<1>4. DayOf(asked) <= DayOf(at)  BY <1>3, DatesAreOrdered
<1>5. /\ DayOf(at) = DayOf(asked) => rules.sameDay
      /\ DayOf(at) - DayOf(asked) <= rules.maxDays
  BY DEF PolicyAllows
<1>6. at - asked >= Minutes(rules.minAdvance)
  <2>1. Minutes(rules.minAdvance) \in Nat  BY <1>1, MinutesAreOrdered
  <2> QED  BY <1>3, <2>1
<1>7. DayOf(at) \in (IF rules.sameDay THEN DayOf(asked) ELSE DayOf(asked) + 1) .. DayOf(asked) + rules.maxDays
  BY <1>1, <1>2, <1>4, <1>5
<1> QED  BY <1>3, <1>6, <1>7 DEF NoticeKept

LEMMA HoursOfADate ==
    ASSUME NEW week \in [0 .. WeekLength - 1 -> HoursRows], NEW t \in Nat
    PROVE  week[Weekday(DayOf(t))] \in HoursRows
<1>1. Weekday(DayOf(t)) \in 0 .. WeekLength - 1
  <2>1. DayOf(t) \in Nat /\ WeekLength \in Nat \ {0}  BY DateAndTime, CalendarAssumption
  <2>2. DayOf(t) % WeekLength \in Nat /\ DayOf(t) % WeekLength < WeekLength  BY <2>1, DivMod
  <2> QED  BY <2>1, <2>2 DEF Weekday
<1> QED  BY <1>1

\* What a request has verified for settings of its time is what the rules ask.
LEMMA VerifiedIsTheRules ==
    ASSUME TypeOK, CallsHoldTheirRows, HistoryIsCurrent, ChecksStand, NEW r \in Calls, call[r].phase = "clear"
    PROVE  /\ \E old \in SeenBy(r) : NoticeKept(old.policy, call[r].asked, call[r].at)
           /\ \E old \in SeenBy(r) :
                /\ old.approved /\ old.service[call[r].service].state = "offered"
                /\ old.service[call[r].service].price = call[r].price
                /\ \E later \in SeenBy(r) :
                     WithinHours(later.hours, call[r].at, old.service[call[r].service].length)
<1> DEFINE c == call[r]
           seen == SeenBy(r)
<1>1. /\ Verified(c, seen) /\ c.begun \in 1 .. Len(history) /\ c.phase = "clear"
      /\ c.at \in Nat /\ c.asked \in Nat /\ c.service \in Services
  BY DEF ChecksStand, CallsHoldTheirRows, TypeOK, Call
<1>2. seen \subseteq Settings
  <2>1. history \in Seq(Settings)  BY DEF TypeOK
  <2>2. \A n \in 1 .. Len(history) : history[n] \in Settings  BY <2>1
  <2>3. Len(history) \in Nat  BY <2>1
  <2>4. \A n \in c.begun .. Len(history) : n \in 1 .. Len(history)  BY <1>1, <2>3
  <2> QED  BY <2>2, <2>4 DEF SeenBy
<1> HIDE DEF c, seen
<1>3. \E old \in seen : NoticeKept(old.policy, c.asked, c.at)
  <2>1. PICK old \in seen : PolicyAllows(old.policy, c.asked, c.at)  BY <1>1 DEF Verified
  <2>2. old.policy \in Policies  BY <1>2 DEF Settings
  <2> QED  BY <1>1, <2>1, <2>2, PolicyWindow
<1>4. PICK old \in seen : /\ old.approved /\ old.service[c.service].state = "offered"
                          /\ old.service[c.service].price = c.price
                          /\ old.service[c.service].length = c.length
  BY <1>1 DEF Verified
<1>5. PICK later \in seen : FitsHours(later.hours[Weekday(DayOf(c.at))], c.at, c.length)
  BY <1>1 DEF Verified
<1>6. c.length \in Nat \ {0}
  <2>1. old.service \in [Services -> ServiceRow]  BY <1>2 DEF Settings
  <2>2. old.service[c.service].length \in Lengths  BY <1>1, <2>1 DEF ServiceRow
  <2> QED  BY <1>4, <2>2, SettingTypes
<1>7. WithinHours(later.hours, c.at, c.length)
  <2>1. later.hours \in [0 .. WeekLength - 1 -> HoursRows]  BY <1>2 DEF Settings
  <2>2. later.hours[Weekday(DayOf(c.at))] \in HoursRows  BY <1>1, <2>1, HoursOfADate
  <2> QED  BY <1>1, <1>5, <1>6, <2>2, WholeVisitIsOpen
<1> QED  BY <1>3, <1>4, <1>7 DEF c, seen

\* Whatever is edited while createBooking runs, and for every calendar, policy
\* and set of services: what it inserts keeps each rule as it stood at some
\* moment of the call, the opening hours up to the minute in which the visit
\* ends.
THEOREM BookingsFollowTheRules == Spec => BookedByTheRules
<1>1. SlotInv /\ [Next]_vars => InsertsKeepTheRules
  <2> SUFFICES ASSUME SlotInv, [Next]_vars, NEW r \in Calls, NEW b \in Bookings, Inserts(r, b)
               PROVE  KeepsTheRules(r, booking'[b])
    BY DEF InsertsKeepTheRules
  <2> USE DEF SlotInv, Inserts
  <2>t. call \in [Calls -> Call] /\ booking \in [Bookings -> BookingRow]
    BY DEF TypeOK
  <2>1. ASSUME NEW q \in Calls, WriteStatus(q)  PROVE FALSE
    BY <2>1, <2>t DEF WriteStatus, CallsHoldTheirRows
  <2>2. PICK q \in Calls, x \in Bookings : InsertBooking(q, x)
    BY <2>1, StepsByWhatTheyWrite, ReadingWritesNothing
       DEF DeleteService, EditRules, UpdatePolicy, SetApproval, UpdateOwnHours,
           EditServices, CreateService, UpdateService, Tick, vars
  <2>3. q = r
    <3>1. [call[r] EXCEPT !.raced = TRUE].phase = "clear" /\ Idle.phase = "idle"
      BY <2>t DEF Call, Idle
    <3> QED  BY <2>2, <2>t, <3>1 DEF InsertBooking, CommittedBeside
  <2>4. PICK row : /\ row = booking'[b] /\ row.service = call[r].service
                   /\ row.at = call[r].at /\ row.price = call[r].price
    BY <2>2, <2>3, <2>t DEF InsertBooking
  <2>5. KeepsTheRules(r, row)
    BY <2>4, VerifiedIsTheRules DEF KeepsTheRules
  <2> QED  BY <2>4, <2>5
<1> QED  BY <1>1, SlotInvariant, PTL DEF Spec, BookedByTheRules

-----------------------------------------------------------------------------
(* The two computations of what is free.                                   *)

\* An open day's hours, and when getAvailability answers OPEN.
LEMMA OpenRow ==
    ASSUME NEW row \in HoursRows, row.state = "open"
    PROVE  row.open \in Nat /\ row.close \in Nat /\ row.open < row.close
           /\ Minutes(row.open) \in Nat /\ Minutes(row.close) \in Nat
           /\ Minutes(row.open) < Minutes(row.close) /\ Minutes(row.close) < DayLength
<1>1. /\ row.open \in Nat /\ row.close \in Nat /\ row.open < row.close
      /\ Minutes(row.close) < DayLength
  BY DEF HoursRows, OpenHours, ClosedDay, NotConfigured
<1> QED  BY <1>1, MinutesAreOrdered

LEMMA DayIsOpen ==
    ASSUME NEW rules \in Policies, NEW row \in HoursRows, NEW day \in Nat, now \in Nat
    PROVE  DayStatus(rules, row, now, day) = "OPEN"
           <=> /\ day - DayOf(now) = 0 => rules.sameDay
               /\ day - DayOf(now) <= rules.maxDays
               /\ row.state = "open"
<1>1. row.state \in {"open", "closed", "none"}
  BY DEF HoursRows, OpenHours, ClosedDay, NotConfigured
<1>2. DayOf(now) \in Nat /\ rules.maxDays \in Nat /\ rules.sameDay \in BOOLEAN
  BY DateAndTime DEF Policies
<1> QED  BY <1>1, <1>2 DEF DayStatus

\* The midnights of a date are apart by the day's length.
LEMMA Midnights ==
    ASSUME NEW day \in Nat
    PROVE  /\ day * DayLength \in Nat /\ DayLength \in Nat \ {0}
           /\ (day + 1) * DayLength = (day * DayLength) + DayLength
<1>1. DayLength \in Nat \ {0}  BY CalendarAssumption
<1> QED  BY <1>1

\* The interval of a booking starts and ends at instants.
LEMMA BookingIsInterval ==
    ASSUME SlotInv, NEW b \in Bookings, Active(b)
    PROVE  booking[b].at \in Nat /\ End(b) \in Nat
<1>1. booking[b].service \in Services
  BY DEF SlotInv, ServicesAreKept, Active, NoBooking, ActiveStatuses
<1>2. service[booking[b].service].length \in Nat
  BY <1>1, SettingTypes DEF SlotInv, TypeOK, ServiceRow
<1>3. Minutes(service[booking[b].service].length) \in Nat
  BY <1>2, MinutesAreOrdered
<1> QED  BY <1>3 DEF SlotInv, TypeOK, BookingRow, End

\* What getAvailability looks at for a date.
Blocking(day) == { [at |-> booking[b].at, end |-> End(b)] :
                     b \in { x \in Bookings : Active(x) /\ DayOf(booking[x].at) = day } }

\* getAvailability looks at the bookings of the date alone.  A booking of a
\* later date cannot reach back; one of an earlier date reaches the interval
\* only if it was carried over midnight.
LEMMA DateIsEnough ==
    ASSUME SlotInv, NEW day \in Nat, ~CarriedOver(day), NEW at \in Nat, NEW length \in Nat,
           DayOf(at) = day, at + Minutes(length) < (day + 1) * DayLength
    PROVE  Taken(at, length) <=> \E x \in Blocking(day) : Overlaps(at, at + Minutes(length), x.at, x.end)
<1>0. Minutes(length) \in Nat  BY MinutesAreOrdered
<1>1. ASSUME NEW b \in Bookings, Active(b), Overlaps(at, at + Minutes(length), booking[b].at, End(b))
      PROVE  DayOf(booking[b].at) = day
  <2>1. booking[b].at \in Nat /\ End(b) \in Nat  BY <1>1, BookingIsInterval
  <2>2. at < End(b) /\ booking[b].at < at + Minutes(length)  BY <1>1 DEF Overlaps
  <2>3. DayOf(booking[b].at) \in Nat /\ DayOf(at) <= DayOf(End(b)) /\ DayOf(End(b)) \in Nat
    BY <2>1, <2>2, DatesAreOrdered, DateAndTime
  <2>4. ~(DayOf(booking[b].at) < day)
    BY <1>1, <2>3 DEF CarriedOver
  <2>5. ~(day < DayOf(booking[b].at))
    <3> SUFFICES ASSUME day < DayOf(booking[b].at)  PROVE FALSE
      OBVIOUS
    <3> DEFINE d == DayOf(booking[b].at)
    <3>1. d * DayLength <= booking[b].at /\ d \in Nat
      <4>1. /\ d \in Nat /\ SinceMidnight(booking[b].at) \in Nat
            /\ booking[b].at = (d * DayLength) + SinceMidnight(booking[b].at)
        BY <2>1, DateAndTime
      <4> HIDE DEF d
      <4>2. d * DayLength \in Nat  BY <4>1, Midnights
      <4> QED  BY <4>1, <4>2
    <3> HIDE DEF d
    <3>2. (day + 1) * DayLength <= d * DayLength
      <4>1. DayLength \in Nat /\ day + 1 <= d  BY <3>1, CalendarAssumption DEF d
      <4> QED  BY <3>1, <4>1
    <3>3. (day + 1) * DayLength \in Nat /\ d * DayLength \in Nat  BY <3>1, Midnights
    <3> QED  BY <1>0, <2>1, <2>2, <3>1, <3>2, <3>3
  <2> QED  BY <2>3, <2>4, <2>5
<1>2. ASSUME Taken(at, length)
      PROVE  \E x \in Blocking(day) : Overlaps(at, at + Minutes(length), x.at, x.end)
  <2>1. PICK b \in Bookings : Active(b) /\ Overlaps(at, at + Minutes(length), booking[b].at, End(b))
    BY <1>2 DEF Taken
  <2>2. [at |-> booking[b].at, end |-> End(b)] \in Blocking(day)
    BY <1>1, <2>1 DEF Blocking
  <2> QED  BY <2>1, <2>2
<1>3. ASSUME NEW x \in Blocking(day), Overlaps(at, at + Minutes(length), x.at, x.end)  PROVE Taken(at, length)
  <2>1. PICK b \in Bookings : Active(b) /\ x = [at |-> booking[b].at, end |-> End(b)]
    BY DEF Blocking
  <2> QED  BY <1>3, <2>1 DEF Taken
<1> QED  BY <1>2, <1>3

LEMMA AvailableByParts ==
    ASSUME NEW s, NEW day, NEW at
    PROVE  at \in AvailableStarts(s, day)
           <=> LET ofDay == hours[Weekday(day)]
               IN  /\ at \in day * DayLength + Minutes(ofDay.open)
                             .. day * DayLength + Minutes(ofDay.close) - Minutes(service[s].length)
                   /\ (SinceMidnight(at) - Minutes(ofDay.open)) % Minutes(SlotInterval) = 0
                   /\ service[s].state = "offered" /\ approved
                   /\ DayStatus(policy, ofDay, now, day) = "OPEN"
                   /\ SlotStatus(policy, now, at, service[s].length, Blocking(day)) = "AVAILABLE"
BY DEF AvailableStarts, SlotStarts, Blocking

LEMMA SlotIsAvailable ==
    ASSUME NEW at, NEW length, NEW blocking
    PROVE  SlotStatus(policy, now, at, length, blocking) = "AVAILABLE"
           <=> /\ ~(at <= now) /\ ~(at < now + Minutes(policy.minAdvance))
               /\ ~\E x \in blocking : Overlaps(at, at + Minutes(length), x.at, x.end)
BY DEF SlotStatus

\* A start on a date's open hours, as both computations see it.
LEMMA StartOfDay ==
    ASSUME NEW day \in Nat, NEW at \in Int, NEW span \in Nat, NEW row \in HoursRows, row.state = "open",
           at >= day * DayLength + Minutes(row.open),
           at <= day * DayLength + Minutes(row.close) - span
    PROVE  /\ at \in Nat /\ DayOf(at) = day /\ SinceMidnight(at) = at - (day * DayLength)
           /\ DayOf(at + span) = day /\ SinceMidnight(at + span) = at + span - (day * DayLength)
           /\ at + span < (day + 1) * DayLength /\ at < (day + 1) * DayLength /\ day * DayLength <= at
<1> DEFINE midnight == day * DayLength
           open == Minutes(row.open)
           close == Minutes(row.close)
<1>1. midnight \in Nat /\ DayLength \in Nat \ {0} /\ (day + 1) * DayLength = midnight + DayLength
  BY Midnights
<1>2. open \in Nat /\ close \in Nat /\ open < close /\ close < DayLength
  BY OpenRow
<1>3. at >= midnight + open /\ at <= midnight + close - span
  OBVIOUS
<1> HIDE DEF midnight, open, close
<1>4. /\ at \in Nat /\ at + span \in Nat /\ midnight <= at /\ at < midnight + DayLength
      /\ midnight <= at + span /\ at + span < midnight + DayLength
  BY <1>1, <1>2, <1>3
<1> QED  BY <1>1, <1>4, OnDate DEF midnight

\* A start time shown as AVAILABLE is one createBooking accepts, unless the
\* eve reaches past midnight.
LEMMA ShownIsAccepted ==
    ASSUME SlotInv, NEW s \in Services, NEW day \in Nat, NEW at \in AvailableStarts(s, day), ~CarriedOver(day)
    PROVE  at \in day * DayLength .. (day + 1) * DayLength - 1 /\ Accepted(s, at)
<1> DEFINE ofDay == hours[Weekday(day)]
           length == service[s].length
           span == Minutes(length)
           midnight == day * DayLength
           open == Minutes(ofDay.open)
           close == Minutes(ofDay.close)
<1>t. /\ policy \in Policies /\ now \in Nat /\ length \in Nat /\ span \in Nat
      /\ policy.minAdvance \in Nat /\ policy.maxDays \in Nat /\ Minutes(policy.minAdvance) \in Nat
  <2>1. policy \in Policies /\ now \in Nat /\ length \in Nat
    BY SettingTypes DEF SlotInv, TypeOK, ServiceRow
  <2>2. policy.minAdvance \in Nat /\ policy.maxDays \in Nat  BY <2>1 DEF Policies
  <2> QED  BY <2>1, <2>2, MinutesAreOrdered
<1>1. /\ at \in midnight + open .. midnight + close - span
      /\ service[s].state = "offered" /\ approved
      /\ DayStatus(policy, ofDay, now, day) = "OPEN"
      /\ SlotStatus(policy, now, at, length, Blocking(day)) = "AVAILABLE"
  BY AvailableByParts
<1>2. HoursOn(midnight) = ofDay /\ ofDay \in HoursRows
  <2>1. midnight \in Nat /\ DayLength \in Nat \ {0}  BY Midnights
  <2>2. DayOf(midnight) = day  BY <2>1, OnDate
  <2>3. hours \in [0 .. WeekLength - 1 -> HoursRows]  BY DEF SlotInv, TypeOK
  <2>4. hours[Weekday(DayOf(midnight))] \in HoursRows  BY <2>1, <2>3, HoursOfADate
  <2> QED  BY <2>2, <2>4 DEF HoursOn
<1>3. /\ day - DayOf(now) = 0 => policy.sameDay
      /\ day - DayOf(now) <= policy.maxDays
      /\ ofDay.state = "open"
  BY <1>1, <1>2, <1>t, DayIsOpen
<1>4. /\ ofDay.open \in Nat /\ ofDay.close \in Nat /\ open \in Nat /\ close \in Nat
      /\ open < close /\ close < DayLength
  BY <1>2, <1>3, OpenRow
<1>5. midnight \in Nat /\ DayLength \in Nat \ {0} /\ (day + 1) * DayLength = midnight + DayLength
  BY Midnights
<1>6. at \in Int /\ at >= midnight + open /\ at <= midnight + close - span
  <2> HIDE DEF midnight, open, close, span
  <2> QED  BY <1>1, <1>4, <1>5, <1>t
<1>7. /\ at \in Nat /\ DayOf(at) = day /\ SinceMidnight(at) = at - midnight
      /\ DayOf(at + span) = day /\ SinceMidnight(at + span) = at + span - midnight
      /\ at + span < (day + 1) * DayLength /\ at < (day + 1) * DayLength /\ midnight <= at
  BY <1>2, <1>3, <1>6, <1>t, StartOfDay
<1>8. /\ ~(at <= now) /\ ~(at < now + Minutes(policy.minAdvance))
      /\ ~\E x \in Blocking(day) : Overlaps(at, at + span, x.at, x.end)
  BY <1>1, SlotIsAvailable
<1>9. PolicyAllows(policy, now, at)
  <2>1. DayOf(now) \in Nat  BY <1>t, DateAndTime
  <2> QED  BY <1>3, <1>7, <1>8, <1>t, <2>1 DEF PolicyAllows
<1>10. FitsHours(ofDay, at, length) /\ HoursOn(at) = ofDay
  <2>1. SinceMidnight(at) >= open
    <3> HIDE DEF midnight, open, close, span
    <3> QED  BY <1>4, <1>5, <1>6, <1>7
  <2>2. TimeOf(at) >= ofDay.open  BY <1>4, <1>7, <2>1, ClockReaches
  <2>3. SinceMidnight(at + span) <= close
    <3> HIDE DEF midnight, open, close, span
    <3> QED  BY <1>4, <1>5, <1>6, <1>7, <1>t
  <2>4. TimeOf(at + span) <= ofDay.close
    <3>1. at + span \in Nat  BY <1>7, <1>t
    <3>2. /\ TimeOf(at + span) \in Nat /\ SinceMidnight(at + span) \in Nat
          /\ Minutes(TimeOf(at + span)) <= SinceMidnight(at + span)
      BY <3>1, WallClock, DateAndTime
    <3>3. PICK n \in Nat : n = TimeOf(at + span) /\ Minutes(n) <= close
      <4>1. Minutes(TimeOf(at + span)) \in Nat  BY <3>2, MinutesAreOrdered
      <4> HIDE DEF close
      <4> QED  BY <1>4, <2>3, <3>2, <4>1
    <3>4. ofDay.close < n => Minutes(ofDay.close) < Minutes(n)  BY <1>4, MinutesAreOrdered
    <3>5. Minutes(n) \in Nat /\ Minutes(ofDay.close) \in Nat  BY <1>4, MinutesAreOrdered
    <3> QED  BY <1>4, <3>3, <3>4, <3>5
  <2> HIDE DEF ofDay
  <2>5. ofDay = hours[Weekday(day)]  BY DEF ofDay
  <2> QED  BY <1>3, <1>7, <2>2, <2>4, <2>5 DEF FitsHours, HoursOn
<1>11. ~Taken(at, length)
  BY <1>7, <1>8, <1>t, DateIsEnough
<1>12. at \in midnight .. (day + 1) * DayLength - 1
  <2> HIDE DEF midnight
  <2> QED  BY <1>5, <1>7
<1> QED  BY <1>1, <1>9, <1>10, <1>11, <1>12 DEF Accepted

LEMMA ProductIsNat == ASSUME NEW m \in Nat, NEW n \in Nat  PROVE m * n \in Nat
OBVIOUS

\* On the grid every start and end is a whole minute.
LEMMA GridIsWholeMinutes ==
    ASSUME NEW at \in Nat, NEW open \in Nat, NEW length \in Nat, SinceMidnight(at) >= Minutes(open),
           (SinceMidnight(at) - Minutes(open)) % Minutes(SlotInterval) = 0
    PROVE  \E n \in Nat : SinceMidnight(at) + Minutes(length) = Minutes(n)
<1> DEFINE x == SinceMidnight(at)
           step == Minutes(SlotInterval)
           k == (x - Minutes(open)) \div step
<1>1. /\ x \in Nat /\ SlotInterval \in Nat \ {0} /\ step \in Nat \ {0}
      /\ Minutes(open) \in Nat /\ Minutes(length) \in Nat
  <2>1. SlotInterval \in Nat \ {0}  BY CalendarAssumption
  <2>2. step \in Nat /\ step > 0  BY <2>1, MinutesAreOrdered
  <2>3. Minutes(open) \in Nat /\ Minutes(length) \in Nat  BY MinutesAreOrdered
  <2>4. x \in Nat  BY DateAndTime
  <2> HIDE DEF x, step
  <2> QED  BY <2>1, <2>2, <2>3, <2>4
<1>2. x - Minutes(open) \in Nat /\ (x - Minutes(open)) % step = 0
  <2> HIDE DEF x, step
  <2>1. x >= Minutes(open) /\ (x - Minutes(open)) % step = 0  BY DEF x, step
  <2> QED  BY <1>1, <2>1
<1>3. k \in Nat /\ x - Minutes(open) = step * k
  <2> DEFINE y == x - Minutes(open)
  <2>1. y \in Nat /\ y % step = 0  BY <1>2
  <2>2. y \div step \in Nat /\ y % step \in Nat /\ y = (step * (y \div step)) + (y % step)
    <3> HIDE DEF y, step
    <3> QED  BY <1>1, <2>1, DivMod
  <2> HIDE DEF y, step
  <2>3. k = y \div step  BY DEF k, y
  <2> HIDE DEF k
  <2>4. step * k \in Nat  BY <1>1, <2>2, <2>3, ProductIsNat
  <2>5. y = step * k  BY <2>1, <2>2, <2>3, <2>4
  <2> QED  BY <2>2, <2>3, <2>5 DEF y
<1> HIDE DEF x, k
<1>4. step * k = Minutes(SlotInterval * k) /\ SlotInterval * k \in Nat
  <2>1. MinuteLength \in Nat  BY CalendarAssumption
  <2>2. (SlotInterval * MinuteLength) * k = (SlotInterval * k) * MinuteLength  BY <1>1, <1>3, <2>1
  <2> QED  BY <1>1, <1>3, <2>2 DEF Minutes
<1>5. PICK m \in Nat : m = SlotInterval * k  BY <1>4
<1>6. PICK n \in Nat : n = (open + m) + length  OBVIOUS
<1>7. open + m \in Nat /\ Minutes(open) + Minutes(m) = Minutes(open + m) /\ Minutes(m) \in Nat
  <2>1. Minutes(m) \in Nat /\ Minutes(open) + Minutes(m) = Minutes(open + m)  BY MinutesAreOrdered
  <2> QED  BY <2>1
<1>8. Minutes(open + m) + Minutes(length) = Minutes(n) /\ Minutes(open + m) \in Nat
  BY <1>6, <1>7, MinutesAreOrdered
<1> HIDE DEF step
<1>9. x + Minutes(length) = Minutes(n)
  BY <1>1, <1>3, <1>4, <1>5, <1>7, <1>8
<1> QED  BY <1>9 DEF x

\* A start on the grid that createBooking accepts is shown as AVAILABLE.
LEMMA AcceptedIsShown ==
    ASSUME SlotInv, NEW s \in Services, NEW day \in Nat,
           NEW at \in day * DayLength .. (day + 1) * DayLength - 1, Accepted(s, at), OnGrid(at)
    PROVE  at \in AvailableStarts(s, day)
<1> DEFINE ofDay == hours[Weekday(day)]
           length == service[s].length
           span == Minutes(length)
           midnight == day * DayLength
           open == Minutes(ofDay.open)
           close == Minutes(ofDay.close)
<1>t. /\ policy \in Policies /\ now \in Nat /\ length \in Nat /\ span \in Nat
      /\ policy.minAdvance \in Nat /\ policy.maxDays \in Nat /\ Minutes(policy.minAdvance) \in Nat
  <2>1. policy \in Policies /\ now \in Nat /\ length \in Nat
    BY SettingTypes DEF SlotInv, TypeOK, ServiceRow
  <2>2. policy.minAdvance \in Nat /\ policy.maxDays \in Nat  BY <2>1 DEF Policies
  <2> QED  BY <2>1, <2>2, MinutesAreOrdered
<1>1. /\ PolicyAllows(policy, now, at) /\ service[s].state = "offered" /\ approved
      /\ FitsHours(HoursOn(at), at, length) /\ ~Taken(at, length)
  BY DEF Accepted
<1>2. midnight \in Nat /\ DayLength \in Nat \ {0} /\ (day + 1) * DayLength = midnight + DayLength
  BY Midnights
<1>3. at \in Nat /\ midnight <= at /\ at < midnight + DayLength
  <2> HIDE DEF midnight
  <2>1. at \in midnight .. (day + 1) * DayLength - 1  BY DEF midnight
  <2> QED  BY <1>2, <2>1
<1>4. DayOf(at) = day /\ SinceMidnight(at) = at - midnight
  BY <1>3, OnDate
<1>5. HoursOn(at) = ofDay /\ ofDay \in HoursRows
  <2>1. hours \in [0 .. WeekLength - 1 -> HoursRows]  BY DEF SlotInv, TypeOK
  <2> QED  BY <1>3, <1>4, <2>1, HoursOfADate DEF HoursOn
<1>6. /\ DayOf(at + span) = day /\ ofDay.state = "open"
      /\ TimeOf(at) >= ofDay.open /\ TimeOf(at + span) <= ofDay.close
  <2> HIDE DEF ofDay, length
  <2> QED  BY <1>1, <1>4, <1>5 DEF FitsHours
<1>7. ofDay.open \in Nat /\ ofDay.close \in Nat /\ open \in Nat /\ close \in Nat
  BY <1>5, <1>6, OpenRow
<1>8. /\ at + span \in Nat /\ at + span = midnight + SinceMidnight(at + span)
      /\ SinceMidnight(at + span) \in Nat /\ TimeOf(at + span) \in Nat
  <2>1. at + span \in Nat  BY <1>3, <1>t
  <2> QED  BY <1>6, <2>1, DateAndTime, WallClock
<1>9. SinceMidnight(at) >= open
  BY <1>3, <1>6, <1>7, ClockReaches
<1>10. (SinceMidnight(at) - open) % Minutes(SlotInterval) = 0
  <2> HIDE DEF ofDay
  <2> QED  BY <1>5 DEF OnGrid
<1>11. SinceMidnight(at + span) <= close
  <2>1. PICK n \in Nat : SinceMidnight(at) + span = Minutes(n)
    BY <1>3, <1>7, <1>9, <1>10, <1>t, GridIsWholeMinutes
  <2>2. SinceMidnight(at + span) = Minutes(n)
    <3>1. SinceMidnight(at) \in Nat  BY <1>3, DateAndTime
    <3> HIDE DEF midnight, span
    <3> QED  BY <1>2, <1>3, <1>4, <1>8, <1>t, <2>1, <3>1
  <2>3. TimeOf(at + span) >= n  BY <1>8, <2>2, ClockReaches
  <2>4. n <= ofDay.close
    <3> HIDE DEF ofDay
    <3> QED  BY <1>6, <1>7, <1>8, <2>3
  <2> QED  BY <1>7, <2>2, <2>4, MinutesAreOrdered
<1>12. at \in midnight + open .. midnight + close - span
  <2> HIDE DEF midnight, open, close, span
  <2>1. SinceMidnight(at) \in Nat  BY <1>3, DateAndTime
  <2> QED  BY <1>2, <1>3, <1>4, <1>7, <1>8, <1>9, <1>11, <1>t, <2>1
<1>13. DayStatus(policy, ofDay, now, day) = "OPEN"
  <2>1. DayOf(now) \in Nat  BY <1>t, DateAndTime
  <2> HIDE DEF ofDay
  <2> QED  BY <1>1, <1>4, <1>5, <1>6, <1>t, <2>1, DayIsOpen DEF PolicyAllows
<1>14. SlotStatus(policy, now, at, length, Blocking(day)) = "AVAILABLE"
  <2>1. ~\E x \in Blocking(day) : Overlaps(at, at + span, x.at, x.end)
    BY <1>1 DEF Taken, Blocking
  <2>2. ~(at <= now) /\ ~(at < now + Minutes(policy.minAdvance))
    BY <1>1, <1>3, <1>t DEF PolicyAllows
  <2> QED  BY <2>1, <2>2, SlotIsAvailable
<1> QED  BY <1>1, <1>10, <1>12, <1>13, <1>14, AvailableByParts

\* For every policy, week and set of bookings: what getAvailability shows is
\* what createBooking accepts in the same state, and the other way round on
\* the grid, but for a day whose eve was lengthened past midnight.
THEOREM OffersAreHonoured == Spec => []OfferIsHonoured
<1>1. SlotInv => OfferIsHonoured
  <2> SUFFICES ASSUME SlotInv, NEW s \in Services, NEW day \in 0 .. WeekLength
               PROVE  LET shown    == AvailableStarts(s, day)
                          accepted == { at \in day * DayLength .. (day + 1) * DayLength - 1 : Accepted(s, at) }
                      IN  /\ shown \subseteq accepted \/ CarriedOver(day)
                          /\ \A at \in accepted : OnGrid(at) => at \in shown
    BY DEF OfferIsHonoured
  <2>1. day \in Nat  BY CalendarAssumption
  <2> QED  BY <2>1, ShownIsAccepted, AcceptedIsShown
<1> QED  BY <1>1, SlotInvariant, PTL

=============================================================================
