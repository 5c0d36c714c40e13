\* A direct status change leaves the queue behind.
SPECIFICATION QueueSpec
CONSTANTS
    Requests = {r1, r2}
    Bookings = {b1}
    Providers = {p1}
    Admins = {a1}
    Nobody = nobody
    Entries = {1, 2}
    Owner <- MCOwner
    Price <- MCPrice
    Rates <- MCRates
INVARIANTS
    QueueAndBookingAgree
