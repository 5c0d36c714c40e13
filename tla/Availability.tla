---------------------------- MODULE Availability ----------------------------
(***************************************************************************)
(* The rules that decide which start times a customer is shown and which   *)
(* ones a booking may take: the platform's booking policy, a provider's    *)
(* weekly operating hours and half-open interval overlap.  Two functions   *)
(* apply them independently, getAvailability and createBooking.            *)
(*                                                                         *)
(* An instant is a number of time units since a midnight that starts a     *)
(* week; dates and wall-clock times are derived from it.  Hours, durations *)
(* and notice are in whole minutes, an instant need not be.                *)
(* Constant-level.                                                         *)
(***************************************************************************)
EXTENDS Integers

CONSTANTS MinuteLength,   \* time units in a minute
          DayLength,      \* time units in a day
          WeekLength,     \* days after which the operating hours repeat
          SlotInterval    \* SLOT_INTERVAL_MINUTES

ASSUME CalendarAssumption ==
    /\ MinuteLength \in Nat \ {0} /\ DayLength \in Nat \ {0} /\ DayLength % MinuteLength = 0
    /\ WeekLength \in Nat \ {0} /\ SlotInterval \in Nat \ {0}

Minutes(n)       == n * MinuteLength
DayOf(t)         == t \div DayLength
SinceMidnight(t) == t % DayLength
Weekday(day)     == day % WeekLength

\* The wall clock in minutes: what is left of an instant without its seconds.
TimeOf(t) == SinceMidnight(t) \div MinuteLength

\* Half-open intervals: one may start when the other ends.
Overlaps(at, end, at2, end2) == at < end2 /\ at2 < end

-----------------------------------------------------------------------------
(* The booking policy and a weekday's hours, as their handlers accept them. *)

Policies == [minAdvance : Nat, maxDays : Nat \ {0}, sameDay : BOOLEAN]

OpenHours == { h \in [state : {"open"}, open : Nat, close : Nat] :
                 h.open < h.close /\ Minutes(h.close) < DayLength }

\* A closed day keeps no times, whatever was sent with it.
ClosedDay == [state |-> "closed", open |-> 0, close |-> 0]

\* There is no row for the weekday.
NotConfigured == [state |-> "none", open |-> 0, close |-> 0]

HoursRows == OpenHours \cup {ClosedDay, NotConfigured}

-----------------------------------------------------------------------------
(* getAvailability: the answer for one date.                               *)

DayStatus(policy, hours, now, day) ==
    LET daysFromToday == day - DayOf(now)
    IN  IF daysFromToday = 0 /\ ~policy.sameDay    THEN "SAME_DAY_DISABLED"
        ELSE IF daysFromToday > policy.maxDays     THEN "TOO_FAR_IN_ADVANCE"
        ELSE IF hours.state = "none"               THEN "HOURS_NOT_CONFIGURED"
        ELSE IF hours.state = "closed"             THEN "CLOSED"
        ELSE "OPEN"

\* The grid: every SlotInterval from opening, as long as the service fits.
SlotStarts(hours, day, length) ==
    { at \in day * DayLength + Minutes(hours.open)
                .. day * DayLength + Minutes(hours.close) - Minutes(length) :
        (SinceMidnight(at) - Minutes(hours.open)) % Minutes(SlotInterval) = 0 }

\* blocking: the [at, end] of the active bookings that start on the date.
SlotStatus(policy, now, at, length, blocking) ==
    IF at <= now                         THEN "PAST"
    ELSE IF at < now + Minutes(policy.minAdvance) THEN "TOO_SOON"
    ELSE IF \E b \in blocking : Overlaps(at, at + Minutes(length), b.at, b.end) THEN "BOOKED"
    ELSE "AVAILABLE"

-----------------------------------------------------------------------------
(* createBooking: the same rules for one instant.                          *)

PolicyAllows(policy, now, at) ==
    /\ at > now
    /\ at >= now + Minutes(policy.minAdvance)
    /\ DayOf(at) = DayOf(now) => policy.sameDay
    /\ DayOf(at) - DayOf(now) <= policy.maxDays

\* Mutant of FitsHours: only the start is compared with the opening hours.
StartsInHours(hours, at, length) ==
    /\ hours.state = "open"
    /\ TimeOf(at) >= hours.open
    /\ TimeOf(at) < hours.close

\* Both ends are compared as wall-clock times, the seconds cut off.
FitsHours(hours, at, length) ==
    /\ DayOf(at) = DayOf(at + Minutes(length))
    /\ hours.state = "open"
    /\ TimeOf(at) >= hours.open
    /\ TimeOf(at + Minutes(length)) <= hours.close

=============================================================================
