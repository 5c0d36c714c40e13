---------------------------- MODULE SlotBooking -----------------------------
(***************************************************************************)
(* One provider's calendar: customers book its services while an admin     *)
(* edits the policy and the approval, the provider edits hours and         *)
(* services, and bookings change status.                                   *)
(*                                                                         *)
(* createBooking reads the policy, the service with its provider and the   *)
(* weekday's hours one after the other, outside any transaction, and only  *)
(* then checks for overlaps and inserts in a SERIALIZABLE transaction.     *)
(* PostgreSQL tracks conflicts among serializable transactions only: two   *)
(* such calls cannot both commit, but the READ COMMITTED writes of the     *)
(* other operations pass them unnoticed.                                   *)
(***************************************************************************)
EXTENDS Availability, BookingTransitions, Sequences

CONSTANTS Calls,        \* the requests that may be in flight at a time
          Bookings,     \* booking ids; the database never reuses one
          Services,     \* the services of the provider
          Nothing,      \* no booking and no service
          Lengths, Prices, HoursChoices, PolicyChoices,   \* what may be set
          Beginnings,   \* the policy, hours and services the calendar may start with
          Instants,     \* the start times a customer may ask for
          Moves,        \* the edges of Edges that are driven
          LastInstant,  \* the clock stops here
          MaxEdits      \* how often the settings may change

ServiceRow == [state : {"none", "offered", "hidden", "deleted"}, length : Lengths, price : Prices]

ASSUME SettingsAssumption ==
    /\ Lengths \subseteq Nat \ {0} /\ Prices \subseteq Nat
    /\ HoursChoices \subseteq OpenHours \cup {ClosedDay}
    /\ PolicyChoices \subseteq Policies
    /\ Beginnings \subseteq [policy : Policies, hours : [0 .. WeekLength - 1 -> HoursRows],
                             service : [Services -> ServiceRow]]
    /\ Instants \subseteq Nat /\ LastInstant \in Nat /\ MaxEdits \in Nat
    /\ Moves \subseteq Edges
    /\ Nothing \notin Bookings \cup Services

VARIABLES now,       \* the clock
          policy,    \* the BookingPolicy row
          approved,  \* Provider.isApproved
          hours,     \* the ProviderOperatingHour rows, by weekday
          service,   \* the ProviderService table
          booking,   \* the Booking table
          call,      \* how far each request has come
          history,   \* the settings that have been in force, oldest first
          revived,   \* bookings a status write took out of a terminal status
          resized    \* services whose duration has been edited

vars == <<now, policy, approved, hours, service, booking, call, history, revived, resized>>

settings == <<policy, approved, hours, service, history, resized>>

Settings == [policy : Policies, approved : BOOLEAN, hours : [0 .. WeekLength - 1 -> HoursRows],
             service : [Services -> ServiceRow]]

InForce == [policy |-> policy, approved |-> approved, hours |-> hours, service |-> service]

-----------------------------------------------------------------------------
(* Rows and requests.                                                      *)

BookingRow == [status : AllStatuses \cup {"NONE"}, service : Services \cup {Nothing},
               at : Nat, price : Nat]

NoBooking == [status |-> "NONE", service |-> Nothing, at |-> 0, price |-> 0]

Phases == { "idle",
            "allowed",    \* createBooking has read the policy
            "priced",     \* read the service and its provider
            "open",       \* read the weekday's hours
            "clear",      \* its transaction has found no overlap
            "found",      \* updateBookingStatus has read its booking
            "counted" }   \* deleteService has counted what uses the service

\* asked: the clock when the policy was read; begun: the place in the history
\* of the settings in force at that moment.
\* raced: a serializable transaction that ran beside this one has committed.
Call == [phase : Phases, service : Services \cup {Nothing}, at : Nat, length : Nat,
         price : Nat, booking : Bookings \cup {Nothing}, to : AllStatuses \cup {"NONE"},
         asked : Nat, begun : Nat, raced : BOOLEAN]

Idle == [phase |-> "idle", service |-> Nothing, at |-> 0, length |-> 0, price |-> 0,
         booking |-> Nothing, to |-> "NONE", asked |-> 0, begun |-> 0, raced |-> FALSE]

TypeOK ==
    /\ now \in Nat /\ policy \in Policies /\ approved \in BOOLEAN
    /\ hours \in [0 .. WeekLength - 1 -> HoursRows]
    /\ service \in [Services -> ServiceRow]
    /\ booking \in [Bookings -> BookingRow]
    /\ call \in [Calls -> Call]
    /\ history \in Seq(Settings) /\ revived \subseteq Bookings /\ resized \subseteq Services

Exists(s) == service[s].state \in {"offered", "hidden"}

Active(b) == booking[b].status \in ActiveStatuses

\* Where a booking ends is worked out from its service as it is today.
End(b) == booking[b].at + Minutes(service[booking[b].service].length)

HoursOn(t) == hours[Weekday(DayOf(t))]

\* Some active booking of the provider overlaps the interval.
Taken(at, length) ==
    \E b \in Bookings : Active(b) /\ Overlaps(at, at + Minutes(length), booking[b].at, End(b))

Advance(r, phase) == call' = [call EXCEPT ![r].phase = phase]

Return(r) == call' = [call EXCEPT ![r] = Idle]

-----------------------------------------------------------------------------
(* createBooking                                                           *)

\* getActivePolicy, and the checks that depend on it and on the clock.
CheckPolicy(r, s, at) ==
    /\ call[r].phase = "idle"
    /\ PolicyAllows(policy, now, at)
    /\ call' = [call EXCEPT ![r] = [Idle EXCEPT !.phase = "allowed", !.service = s, !.at = at,
                                                !.asked = now, !.begun = Len(history)]]
    /\ UNCHANGED <<now, settings, booking, revived>>

\* Mutant of CheckService: the provider's approval is not looked at.
CheckServiceAlone(r) ==
    LET s == call[r].service
    IN  /\ call[r].phase = "allowed"
        /\ IF service[s].state = "offered"
           THEN call' = [call EXCEPT ![r].phase = "priced", ![r].length = service[s].length,
                                     ![r].price = service[s].price]
           ELSE Return(r)
        /\ UNCHANGED <<now, settings, booking, revived>>

\* The service and its provider are one query; price and duration are kept.
CheckService(r) ==
    LET s == call[r].service
    IN  /\ call[r].phase = "allowed"
        /\ IF service[s].state = "offered" /\ approved
           THEN call' = [call EXCEPT ![r].phase = "priced", ![r].length = service[s].length,
                                     ![r].price = service[s].price]
           ELSE Return(r)
        /\ UNCHANGED <<now, settings, booking, revived>>

CheckHours(r) ==
    /\ call[r].phase = "priced"
    /\ IF FitsHours(HoursOn(call[r].at), call[r].at, call[r].length)
       THEN Advance(r, "open")
       ELSE Return(r)
    /\ UNCHANGED <<now, settings, booking, revived>>

\* The first query of the serializable transaction, which fixes its snapshot.
CheckOverlap(r) ==
    /\ call[r].phase = "open"
    /\ IF Taken(call[r].at, call[r].length)
       THEN Return(r)
       ELSE Advance(r, "clear")
    /\ UNCHANGED <<now, settings, booking, revived>>

\* Mutant of CommittedBeside: READ COMMITTED in place of Serializable.
NotNoticed(r) == [call EXCEPT ![r] = Idle]

\* Every serializable transaction still open has read what this one wrote into.
CommittedBeside(r) ==
    [q \in Calls |-> IF q = r THEN Idle
                     ELSE IF call[q].phase = "clear" THEN [call[q] EXCEPT !.raced = TRUE]
                     ELSE call[q]]

\* INSERT and COMMIT.  The foreign key asks for the service, nothing else.
InsertBooking(r, b) ==
    /\ call[r].phase = "clear" /\ ~call[r].raced
    /\ booking[b] = NoBooking
    /\ Exists(call[r].service)
    /\ booking' = [booking EXCEPT ![b] = [status |-> "PENDING", service |-> call[r].service,
                                          at |-> call[r].at, price |-> call[r].price]]
    /\ call' = CommittedBeside(r)
    /\ UNCHANGED <<now, settings, revived>>

\* A serialization failure (the 409), or any other error of the transaction.
TransactionFails(r) ==
    /\ call[r].phase = "clear"
    /\ Return(r)
    /\ UNCHANGED <<now, settings, booking, revived>>

-----------------------------------------------------------------------------
(* updateBookingStatus, at READ COMMITTED                                  *)

FindBooking(r, b, move) ==
    /\ call[r].phase = "idle"
    /\ booking[b].status = move[1]
    /\ call' = [call EXCEPT ![r] = [Idle EXCEPT !.phase = "found", !.booking = b, !.to = move[2]]]
    /\ UNCHANGED <<now, settings, booking, revived>>

\* The status is set whatever it has become since it was read.
WriteStatus(r) ==
    LET b == call[r].booking
    IN  /\ call[r].phase = "found"
        /\ booking' = [booking EXCEPT ![b].status = call[r].to]
        /\ revived' = IF booking[b].status \in TerminalStatuses THEN revived \cup {b} ELSE revived
        /\ Return(r)
        /\ UNCHANGED <<now, settings>>

-----------------------------------------------------------------------------
(* The settings.  Each of these is one write; a write of what is already   *)
(* there is a stutter and is not counted.                                  *)

MayEdit == Len(history) <= MaxEdits

Edit == MayEdit /\ InForce' # InForce /\ history' = Append(history, InForce')

UpdatePolicy(p) ==
    /\ policy' = p
    /\ UNCHANGED <<now, approved, hours, service, booking, call, revived, resized>> /\ Edit

SetApproval(isApproved) ==
    /\ approved' = isApproved
    /\ UNCHANGED <<now, policy, hours, service, booking, call, revived, resized>> /\ Edit

\* Several weekdays are upserted in one transaction.
UpdateOwnHours(entries) ==
    /\ hours' = [d \in DOMAIN hours |-> IF d \in DOMAIN entries THEN entries[d] ELSE hours[d]]
    /\ UNCHANGED <<now, policy, approved, service, booking, call, revived, resized>> /\ Edit

CreateService(s, length, price) ==
    /\ service[s].state = "none"
    /\ service' = [service EXCEPT ![s] = [state |-> "offered", length |-> length, price |-> price]]
    /\ UNCHANGED <<now, policy, approved, hours, booking, call, revived, resized>> /\ Edit

\* The partial updates: availability, duration or price.
Updates(row) == {[row EXCEPT !.state = state] : state \in {"offered", "hidden"}}
                \cup {[row EXCEPT !.length = length] : length \in Lengths}
                \cup {[row EXCEPT !.price = price] : price \in Prices}

UpdateService(s, row) ==
    /\ Exists(s)
    /\ service' = [service EXCEPT ![s] = row]
    /\ resized' = IF row.length = service[s].length THEN resized ELSE resized \cup {s}
    /\ UNCHANGED <<now, policy, approved, hours, booking, call, revived>> /\ Edit

CountUses(r, s) ==
    /\ call[r].phase = "idle" /\ Exists(s) /\ MayEdit
    /\ \A b \in Bookings : booking[b].service # s
    /\ call' = [call EXCEPT ![r] = [Idle EXCEPT !.phase = "counted", !.service = s]]
    /\ UNCHANGED <<now, settings, booking, revived>>

\* Mutant of Referenced: the relation does not restrict deletes.
NeverReferenced(s) == FALSE

\* The foreign key of Booking.providerServiceId restricts the delete.
Referenced(s) == \E b \in Bookings : booking[b].service = s

DeleteService(r) ==
    LET s == call[r].service
    IN  /\ call[r].phase = "counted"
        /\ IF Exists(s) /\ ~Referenced(s)
           THEN /\ service' = [service EXCEPT ![s].state = "deleted"]
                /\ history' = Append(history, [InForce EXCEPT !.service = service'])
           ELSE UNCHANGED <<service, history>>
        /\ Return(r)
        /\ UNCHANGED <<now, policy, approved, hours, booking, revived, resized>>

Tick ==
    /\ now < LastInstant
    /\ now' = now + 1
    /\ UNCHANGED <<settings, booking, call, revived>>

-----------------------------------------------------------------------------

Init ==
    /\ now = 0 /\ approved = TRUE
    /\ \E b \in Beginnings : policy = b.policy /\ hours = b.hours /\ service = b.service
    /\ booking = [b \in Bookings |-> NoBooking]
    /\ call = [r \in Calls |-> Idle]
    /\ history = <<InForce>> /\ revived = {} /\ resized = {}

CreateBooking(r) ==
    \/ \E s \in Services, at \in Instants : CheckPolicy(r, s, at)
    \/ CheckService(r) \/ CheckHours(r) \/ CheckOverlap(r)
    \/ \E b \in Bookings : InsertBooking(r, b)
    \/ TransactionFails(r)

UpdateBookingStatus(r) ==
    \/ \E b \in Bookings, move \in Moves : FindBooking(r, b, move)
    \/ WriteStatus(r)

EditSettings ==
    \/ \E p \in PolicyChoices : UpdatePolicy(p)
    \/ \E isApproved \in BOOLEAN : SetApproval(isApproved)
    \/ \E days \in (SUBSET DOMAIN hours) \ {{}} :
         \E entries \in [days -> HoursChoices] : UpdateOwnHours(entries)
    \/ \E s \in Services, length \in Lengths, price \in Prices : CreateService(s, length, price)
    \/ \E s \in Services : \E row \in Updates(service[s]) : UpdateService(s, row)

Next ==
    \/ \E r \in Calls : CreateBooking(r) \/ UpdateBookingStatus(r) \/ DeleteService(r)
                        \/ \E s \in Services : CountUses(r, s)
    \/ EditSettings
    \/ Tick

Spec == Init /\ [][Next]_vars

-----------------------------------------------------------------------------
(* Properties.                                                             *)

\* getAvailability: a date's answer to a customer, its AVAILABLE slots only.
\* A hidden service or an unapproved provider is refused; the bookings looked
\* at are the active ones that start on the date.
AvailableStarts(s, day) ==
    LET blocking == { [at |-> booking[b].at, end |-> End(b)] :
                        b \in { x \in Bookings : Active(x) /\ DayOf(booking[x].at) = day } }
        ofDay    == hours[Weekday(day)]
    IN  { at \in SlotStarts(ofDay, day, service[s].length) :
            /\ service[s].state = "offered" /\ approved
            /\ DayStatus(policy, ofDay, now, day) = "OPEN"
            /\ SlotStatus(policy, now, at, service[s].length, blocking) = "AVAILABLE" }

\* createBooking, run with nothing beside it, would insert the booking.
Accepted(s, at) ==
    /\ PolicyAllows(policy, now, at)
    /\ service[s].state = "offered" /\ approved
    /\ FitsHours(HoursOn(at), at, service[s].length)
    /\ ~Taken(at, service[s].length)

OnGrid(at) == (SinceMidnight(at) - Minutes(HoursOn(at).open)) % Minutes(SlotInterval) = 0

\* An active booking of the day before has come to reach past midnight.
CarriedOver(day) == \E b \in Bookings : Active(b) /\ DayOf(booking[b].at) < day /\ DayOf(End(b)) >= day

\* The two independent computations agree: a start time a customer is shown as
\* AVAILABLE is one createBooking accepts in the same state, and a start time
\* on the grid that createBooking accepts is shown.  The exception is a day
\* whose eve has a booking that was lengthened past midnight: getAvailability
\* looks at the bookings of the date alone.
OfferIsHonoured ==
    \A s \in Services, day \in 0 .. WeekLength :
        LET shown    == AvailableStarts(s, day)
            accepted == { at \in day * DayLength .. (day + 1) * DayLength - 1 : Accepted(s, at) }
        IN  /\ shown \subseteq accepted \/ CarriedOver(day)
            /\ \A at \in accepted : OnGrid(at) => at \in shown

Excused(b) == b \in revived \/ booking[b].service \in resized

\* However the calls interleave, two active bookings of the provider overlap
\* only if one of them was put back to an active status by a stale status
\* write, or the duration of one's service was edited.
NoDoubleBooking ==
    \A a, b \in Bookings :
        a # b /\ Active(a) /\ Active(b) /\ Overlaps(booking[a].at, End(a), booking[b].at, End(b))
        => Excused(a) \/ Excused(b)

\* Every booking has its service, whatever deleteService's counts said.
BookingsKeepTheirService ==
    \A b \in Bookings : booking[b] # NoBooking => Exists(booking[b].service)

OpenAt(week, t) == LET h == week[Weekday(DayOf(t))]
                   IN  h.state = "open" /\ TimeOf(t) >= h.open /\ TimeOf(t) < h.close

\* Every moment from the start to the end, but for the minute it ends in.
WithinHours(week, at, length) ==
    LET end == at + Minutes(length)
    IN  \A t \in at .. end - 1 : OpenAt(week, t) \/ (DayOf(t) = DayOf(end) /\ TimeOf(t) = TimeOf(end))

NoticeKept(rules, asked, at) ==
    /\ at > asked /\ at - asked >= Minutes(rules.minAdvance)
    /\ DayOf(at) \in (IF rules.sameDay THEN DayOf(asked) ELSE DayOf(asked) + 1)
                     .. DayOf(asked) + rules.maxDays

Inserts(r, b) ==
    /\ booking[b] = NoBooking /\ booking'[b] # NoBooking
    /\ call[r].phase = "clear" /\ call'[r] = Idle

\* The settings that were in force at some moment of the call.
SeenBy(r) == { history[n] : n \in call[r].begun .. Len(history) }

\* The row that call r has just inserted.
KeepsTheRules(r, row) ==
    /\ \E old \in SeenBy(r) : NoticeKept(old.policy, call[r].asked, row.at)
    /\ \E old \in SeenBy(r) :
         /\ old.approved /\ old.service[row.service].state = "offered"
         /\ old.service[row.service].price = row.price
         /\ \E later \in SeenBy(r) :
              WithinHours(later.hours, row.at, old.service[row.service].length)

InsertsKeepTheRules == \A r \in Calls, b \in Bookings : Inserts(r, b) => KeepsTheRules(r, booking'[b])

\* Whatever is edited between createBooking's reads and its insert, each rule
\* holds for settings that were in force while the call ran, never for older
\* ones: the start is as early and as late as the policy allowed for the time
\* at which the call began; the service was offered, at the price the booking
\* gets, by an approved provider; and a visit of its duration is within the
\* opening hours from its first moment up to the minute in which it ends.  Of
\* that minute nothing is promised: a start with seconds is accepted although
\* the visit then runs past closing by as many seconds.
BookedByTheRules == [][InsertsKeepTheRules]_vars

=============================================================================
