\* Two requests, one booking, two entries; settlements are left to the other runs.
SPECIFICATION QueueSpec
CONSTANTS
    Requests = {r1, r2}
    Bookings = {b1}
    Providers = {p1}
    Admins = {}
    Nobody = nobody
    Entries = {1, 2}
    Owner <- MCOwner
    Price <- MCPrice
    Rates <- MCRates
SYMMETRY MCSymmetry
INVARIANTS
    PlacesAreUnique
    NobodyIsParked
    LinksResolve
    CompletedEntryIsAccounted
PROPERTIES
    QueueMovesWithBooking
