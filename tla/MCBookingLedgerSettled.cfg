\* Two admins settle one transaction.
SPECIFICATION Spec
CONSTANTS
    Requests = {r1, r2}
    Bookings = {b1}
    Providers = {p1}
    Admins = {a1, a2}
    Nobody = nobody
    Owner <- MCOwner
    Price <- MCPrice
    Rates <- MCRates
PROPERTIES
    SettledOnce
