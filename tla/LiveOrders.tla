----------------------------- MODULE LiveOrders -----------------------------
(***************************************************************************)
(* The screens on which staff and customers see and move orders, over the  *)
(* order service of OrderLifecycle: what the client caches, how polls,     *)
(* socket events and the answers of its own requests refresh it, and the   *)
(* buttons pressed on what it shows                                        *)
(* (apps/*/src/.../use-orders.ts, use-realtime.ts, order-actions.ts, and   *)
(* services/api/src/realtime/realtime.gateway.ts).                         *)
(*                                                                         *)
(* A view is one cached query of one user's app: the detail of an order,   *)
(* or a list of the orders in some statuses (the kitchen queue merges one  *)
(* list per status).  Its fetch is two steps at least, the server's read   *)
(* and the arrival of the answer.  An invalidation restarts a fetch under  *)
(* way of a view that has data, and joins the first fetch of one that has  *)
(* none (React Query's cancelRefetch).  A socket event carries nothing the *)
(* client keeps: it invalidates, in each app, the queries its hook names.  *)
(*                                                                         *)
(* Abstracted: pages of a list, the confirmation a destructive action      *)
(* asks for (a press may take any time to reach the server), push          *)
(* notifications, notes, and the sound of a new order.                     *)
(***************************************************************************)
EXTENDS OrderLifecycle

CONSTANTS
    Views,          \* [of, kind, orders, statuses]: whose, "order" or "list",
                    \* and the rows its query selects
    Polled,         \* the views with a refetchInterval
    Hears,          \* per event the views it invalidates, of the pages on which
                    \* useRealtimeOrders is mounted
    Pickup,         \* orders collected at the branch
    MaxFaults       \* bound on failed fetches

ViewType == [of : Actors, kind : {"order", "list"},
             orders : SUBSET Orders, statuses : SUBSET Statuses]

Events == {"created", "updated"}

ASSUME ViewsAssumption ==
    /\ Views \in SUBSET ViewType
    /\ \A v \in Views : v.kind = "order" => v.statuses = Statuses
    /\ Polled \in SUBSET Views
    /\ Hears \in [Events -> SUBSET Views]
    /\ Pickup \in SUBSET Orders
    /\ MaxFaults \in Nat

VARIABLES
    cache,          \* what each view shows: cards <<order, status>>
    loaded,         \* views that have data, be it an empty list
    asked,          \* views whose fetch has not been read by the server yet
    read,           \* <<view, cards>>: answers of fetches on their way
    sent,           \* <<actor, order, status>>: presses on their way
    answered,       \* <<actor, order, status>>: moves (or orders) committed,
                    \* their answers on the way
    signals,        \* per event, how many are on their way to each user
    missed,         \* history: views with a change they were not told of, or
                    \* not in time
    faults

live == <<cache, loaded, asked, read, sent, answered, signals, missed, faults>>
allVars == <<vars, live>>

Cards == Orders \X Statuses

\* What the query of a view selects now (getById, listMine, listAdmin).
Answer(v) == {c \in v.orders \X v.statuses : status[c[1]] = c[2]}

Of(s) == {v \in Views : v.of = s}
Detail(s, o) == {v \in Of(s) : v.kind = "order" /\ v.orders = {o}}
Lists(s) == {v \in Of(s) : v.kind = "list"}
InFlight == asked \cup {r[1] : r \in read}

LiveTypeOK ==
    /\ TypeOK
    /\ cache \in [Views -> SUBSET Cards]
    /\ \A v \in Views : \A c, d \in cache[v] : c[1] = d[1] => c = d
    /\ loaded \in SUBSET Views
    /\ asked \in SUBSET Views
    /\ read \in SUBSET (Views \X SUBSET Cards)
    /\ asked \cap {r[1] : r \in read} = {}
    /\ sent \in SUBSET (Actors \X Cards)
    /\ answered \in SUBSET (Actors \X Cards)
    /\ signals \in [Events -> [Actors -> Nat]]
    /\ missed \in SUBSET Views
    /\ faults \in 0..MaxFaults

LiveInit ==
    /\ Init
    /\ cache = [v \in Views |-> {}]
    /\ loaded = {}
    /\ asked = {}
    /\ read = {}
    /\ sent = {}
    /\ answered = {}
    /\ signals = [e \in Events |-> [s \in Actors |-> 0]]
    /\ missed = {}
    /\ faults = 0

-----------------------------------------------------------------------------
(* Buttons and the service.                                                  *)

\* getAvailableActions, and the customer's Cancel on an order not yet final.
Offered(s, o, f, t) ==
    /\ Valid(f, t)
    /\ MayAsk(s, t)
    /\ ~ (o \in Pickup /\ t = "OUT_FOR_DELIVERY")

\* A button is disabled while the request it sent is pending.
Busy(s) ==
    \/ \E c \in Cards : <<s, c>> \in sent \cup answered
    \/ \E r \in inHand : r[1] = s

Press(s, o, t) ==
    /\ ~ Busy(s)
    /\ \E v \in Of(s) : \E c \in cache[v] : c[1] = o /\ Offered(s, o, c[2], t)
    /\ sent' = sent \cup {<<s, <<o, t>>>>}
    /\ UNCHANGED <<vars, cache, loaded, asked, read, answered, signals, missed, faults>>

\* updateStatus and cancelOwnOrder pass their checks.
Receive(s, o, t) ==
    /\ <<s, <<o, t>>>> \in sent
    /\ ReadOrder(s, o, t)
    /\ sent' = sent \ {<<s, <<o, t>>>>}
    /\ UNCHANGED <<cache, loaded, asked, read, answered, signals, missed, faults>>

\* INVALID_STATE_TRANSITION, or the request is lost: the screen shows an
\* error and keeps what it had.
Refuse(s, o, t) ==
    /\ <<s, <<o, t>>>> \in sent
    /\ sent' = sent \ {<<s, <<o, t>>>>}
    /\ UNCHANGED <<vars, cache, loaded, asked, read, answered, signals, missed, faults>>

\* emitOrderCreated, emitOrderUpdated after the commit: the users in to get
\* the event.  The others are disconnected, or the process died first.
Broadcast(o, event, to) ==
    /\ signals' = [signals EXCEPT ![event] =
                      [s \in Actors |-> @[s] + (IF s \in to THEN 1 ELSE 0)]]
    /\ missed' = missed \cup
           {v \in Views : o \in v.orders /\ ~ (v \in Hears[event] /\ v.of \in to)}

\* createOrder; order:created goes to the staff's room only, and the
\* customer's app puts the answer in its cache.
PlaceLive(o) ==
    /\ Place(o)
    /\ answered' = answered \cup {<<Customer, <<o, "PENDING">>>>}
    /\ \E to \in SUBSET Staff : Broadcast(o, "created", to)
    /\ UNCHANGED <<cache, loaded, asked, read, sent, faults>>

CaptureLive(o) == Capture(o) /\ UNCHANGED live

CommitLive(s, o, f, t) ==
    /\ CommitMove(s, o, f, t)
    /\ answered' = answered \cup {<<s, <<o, t>>>>}
    /\ \E to \in SUBSET Actors : Broadcast(o, "updated", to)
    /\ UNCHANGED <<cache, loaded, asked, read, sent, faults>>

DropLive(s, o, f, t) == DropMove(s, o, f, t) /\ UNCHANGED live

-----------------------------------------------------------------------------
(* Refreshing what is shown.                                                 *)

\* invalidateQueries, refetch: a fetch under way is abandoned for a new one, but
\* not the first one of a view that has no data yet.
Invalidate(vs) ==
    LET again == {v \in vs : v \in loaded \/ v \notin InFlight} IN
    /\ asked' = asked \cup again
    /\ read' = {r \in read : r[1] \notin again}

\* onSuccess of useUpdateOrderStatus, useCancelOrder, useCreateOrder: the
\* answer is written over whatever the detail shows, and the lists refetch.
Answered(s, o, t) ==
    /\ <<s, <<o, t>>>> \in answered
    /\ answered' = answered \ {<<s, <<o, t>>>>}
    /\ cache' = [v \in Views |-> IF v \in Detail(s, o) THEN {<<o, t>>} ELSE cache[v]]
    /\ loaded' = loaded \cup Detail(s, o)
    /\ missed' = IF status[o] = t THEN missed \ (Detail(s, o) \ InFlight)
                                  ELSE missed \cup Detail(s, o)
    /\ Invalidate(Lists(s))
    /\ UNCHANGED <<vars, sent, signals, faults>>

\* The answer is lost: the screen shows an error although the order moved.
Unanswered(s, o, t) ==
    /\ <<s, <<o, t>>>> \in answered
    /\ answered' = answered \ {<<s, <<o, t>>>>}
    /\ UNCHANGED <<vars, cache, loaded, asked, read, sent, signals, missed, faults>>

\* Views whose first answer was read before the change they now hear of.
TooLate(vs) == {v \in vs \ loaded : \E r \in read : r[1] = v /\ r[2] # Answer(v)}

\* Mutant: an event joins a fetch that is under way, whatever the view shows.
HearMutant(s, event) ==
    /\ signals[event][s] > 0
    /\ signals' = [signals EXCEPT ![event][s] = @ - 1]
    /\ asked' = asked \cup ((Of(s) \cap Hears[event]) \ InFlight)
    /\ missed' = missed \cup TooLate(Of(s) \cap Hears[event])
    /\ UNCHANGED <<vars, cache, loaded, read, sent, answered, faults>>

\* order:created, order:updated arrive.
Hear(s, event) ==
    LET heard == Of(s) \cap Hears[event] IN
    /\ signals[event][s] > 0
    /\ signals' = [signals EXCEPT ![event][s] = @ - 1]
    /\ Invalidate(heard)
    /\ missed' = missed \cup TooLate(heard)
    /\ UNCHANGED <<vars, cache, loaded, sent, answered, faults>>

\* Mutant: an empty view is not polled.
RefetchMutant(v) ==
    /\ v \notin InFlight
    /\ cache[v] # {}
    /\ asked' = asked \cup {v}
    /\ UNCHANGED <<vars, cache, loaded, read, sent, answered, signals, missed, faults>>

\* The next poll, or a user who opens or focuses the screen; a fetch that is
\* under way is not asked for twice.
Refetch(v) ==
    /\ v \notin InFlight
    /\ asked' = asked \cup {v}
    /\ UNCHANGED <<vars, cache, loaded, read, sent, answered, signals, missed, faults>>

\* The server reads.
Serve(v) ==
    /\ v \in asked
    /\ asked' = asked \ {v}
    /\ read' = read \cup {<<v, Answer(v)>>}
    /\ missed' = missed \ {v}
    /\ UNCHANGED <<vars, cache, loaded, sent, answered, signals, faults>>

\* The answer of a fetch arrives.
Arrive(v) ==
    \E r \in read :
        /\ r[1] = v
        /\ read' = read \ {r}
        /\ cache' = [cache EXCEPT ![v] = r[2]]
        /\ loaded' = loaded \cup {v}
        /\ UNCHANGED <<vars, asked, sent, answered, signals, missed, faults>>

\* A fetch and its retries fail: the view keeps the data it had, if any.
FetchFails(v) ==
    /\ v \in InFlight
    /\ faults < MaxFaults
    /\ faults' = faults + 1
    /\ asked' = asked \ {v}
    /\ read' = {r \in read : r[1] # v}
    /\ missed' = missed \cup {v}
    /\ UNCHANGED <<vars, cache, loaded, sent, answered, signals>>

\* The status that a request in hand has found.
Found(s, o, t) == {f \in Statuses : <<s, o, f, t>> \in inHand}

LiveNext ==
    \/ \E o \in Orders :
          \/ PlaceLive(o)
          \/ CaptureLive(o)
          \/ \E s \in Actors, t \in Statuses :
                \/ Press(s, o, t)
                \/ Receive(s, o, t)
                \/ Refuse(s, o, t)
                \/ Answered(s, o, t)
                \/ Unanswered(s, o, t)
                \/ \E f \in Found(s, o, t) : CommitLive(s, o, f, t) \/ DropLive(s, o, f, t)
    \/ \E s \in Actors, event \in Events : Hear(s, event)
    \/ \E v \in Views : Refetch(v) \/ Serve(v) \/ Arrive(v) \/ FetchFails(v)

\* Only the interval of a polled view and the network behind it are fair.
LiveSpec ==
    /\ LiveInit /\ [][LiveNext]_allVars
    /\ \A v \in Polled : WF_allVars(Refetch(v)) /\ WF_allVars(Serve(v)) /\ WF_allVars(Arrive(v))

-----------------------------------------------------------------------------
(* Properties.                                                               *)

\* An event that makes the view refetch is on its way.
Told(v) == \E event \in Events : v \in Hears[event] /\ signals[event][v.of] > 0

\* A screen shows something else than the database only while a fetch or an
\* event that will refresh it is under way, or for a cause the transport or
\* the cache has: an event it was not sent, a fetch that failed, the answer to
\* its own press that came after a newer one, or an event that came during its
\* first load, after the server had read.
StaleForCause ==
    \A v \in Views \ missed :
        \/ cache[v] = Answer(v)
        \/ v \in asked
        \/ <<v, Answer(v)>> \in read
        \/ Told(v)

\* "corrected by the next poll tick, never left stale until reconnect"
\* (apps/kitchen-web use-realtime.ts): whatever is lost or comes late, a polled
\* screen ends up showing what the database says.
PolledCatchUp == \A v \in Polled : <>[](cache[v] = Answer(v))

=============================================================================
