SPECIFICATION Spec
CONSTANTS
    u = u
    app = app
    web = web
    a1 = a1
    a2 = a2
    w1 = w1
    w2 = w2
    Users <- MCUsers
    Clients <- MCClients
    OwnerOf <- MCOwnerOf
    Apps <- MCApps
    Callers <- MCCallers
    ClientOf <- MCClientOf
    Flights <- MCFlights
    FlightOf <- MCFlightOf
    PageLoads <- MCPageLoads
    Forms <- MCForms
    MaxSessions = 4
    MaxDisturbances = 1
INVARIANTS ResetEndsSessions ReplacedOnce LoggedOutForCause AlarmForCause
CHECK_DEADLOCK FALSE
