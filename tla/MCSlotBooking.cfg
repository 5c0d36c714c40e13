\* Two calls, two bookings, one service, a clock of one tick (half a minute), one edit.
SPECIFICATION Spec
CONSTANTS
    MinuteLength = 2
    DayLength = 10
    WeekLength = 2
    SlotInterval = 2
    Calls = {c1, c2}
    Bookings = {b1, b2}
    Services = {s1}
    Nothing = nothing
    Lengths = {2, 4}
    Prices = {1, 2}
    HoursChoices <- MCHours
    PolicyChoices <- MCPolicies
    Beginnings <- MCBeginnings
    Instants = {5, 10}
    Moves <- MCMoves
    LastInstant = 1
    MaxEdits = 1
SYMMETRY MCSymmetry
INVARIANTS
    OfferIsHonoured
    NoDoubleBooking
    BookingsKeepTheirService
CHECK_DEADLOCK FALSE
PROPERTIES
    BookedByTheRules
