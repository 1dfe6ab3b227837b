----------------------------- MODULE OrderStatus -----------------------------
(***************************************************************************)
(* Order tracking: a goroutine of the order service publishes the statuses *)
(* of an order on NATS; the gateway subscribes for each client that asks,  *)
(* passes what the client wants through a bounded channel to its           *)
(* websocket, and takes the subscription down when the client leaves.      *)
(***************************************************************************)
EXTENDS Naturals, Sequences, FiniteSets, SequencesExt

CONSTANTS
    Order,       \* orders placed
    Sub,         \* subscriptions of clients, each opened once
    All,         \* stands for a subscription without an order id
    LastStatus,  \* number of statuses of an order
    Capacity     \* of a subscription's channel

VARIABLES
    simulating,  \* goroutine of simulateOrderStatus: "none", "running" or "over"
    published,   \* the number of statuses it has published
    log,         \* history: the updates published on order.status.changed
    gateway,     \* the gateway process, "up" or "down"
    phase,       \* where a subscription stands, see Phase
    wants,       \* its argument: an order, or All
    queue,       \* updates in flight to it or pending in the NATS client
    callback,    \* the update its callback holds at the select, 0 for none
    channel,     \* ch
    got,         \* the updates its websocket took from ch
    since,       \* history: length of log when it was opened
    lost,        \* history: updates the network did not bring
    dropped      \* history: updates the callback dropped

simulation == <<simulating, published, log>>
stream == <<queue, callback, channel, got>>
history == <<since, lost, dropped>>
vars == <<simulation, gateway, phase, wants, stream, history>>

ASSUME AllAssumption == All \notin Order
ASSUME LastStatusAssumption == LastStatus \in Nat \ {0}
\* In the code 4 and 10.
ASSUME CapacityAssumption == Capacity \in Nat /\ Capacity >= LastStatus

\* "left": ctx is done; then the cleanup goroutine unsubscribes and closes ch.
\* "ended": the gateway went down with the subscription.
Phase == {"none", "open", "left", "unsubscribed", "closed", "ended"}

\* The NATS client has the subscription and calls its callback.
Subscribed == {s \in Sub : phase[s] \in {"open", "left"}}
ContextDone(s) == phase[s] \in {"left", "unsubscribed", "closed"}
Alive(s) == phase[s] \in {"open", "left", "unsubscribed", "closed"}

Update == [order : Order, status : 1..LastStatus]

TypeOK ==
    /\ simulating \in [Order -> {"none", "running", "over"}]
    /\ published \in [Order -> 0..LastStatus]
    /\ log \in Seq(Update)
    /\ gateway \in {"up", "down"}
    /\ phase \in [Sub -> Phase]
    /\ wants \in [Sub -> Order \cup {All}]
    /\ queue \in [Sub -> Seq(Nat \ {0})]
    /\ callback \in [Sub -> Nat]
    /\ channel \in [Sub -> Seq(Nat \ {0})]
    /\ \A s \in Sub : Len(channel[s]) <= Capacity
    /\ got \in [Sub -> Seq(Nat \ {0})]
    /\ since \in [Sub -> Nat]
    /\ lost \in [Sub -> SUBSET Nat]
    /\ dropped \in [Sub -> SUBSET Nat]

Init ==
    /\ simulating = [o \in Order |-> "none"]
    /\ published = [o \in Order |-> 0]
    /\ log = <<>>
    /\ gateway = "up"
    /\ phase = [s \in Sub |-> "none"]
    /\ wants = [s \in Sub |-> All]
    /\ queue = [s \in Sub |-> <<>>]
    /\ callback = [s \in Sub |-> 0]
    /\ channel = [s \in Sub |-> <<>>]
    /\ got = [s \in Sub |-> <<>>]
    /\ since = [s \in Sub |-> 0]
    /\ lost = [s \in Sub |-> {}]
    /\ dropped = [s \in Sub |-> {}]

-----------------------------------------------------------------------------
(* The order service. *)

\* PostOrder starts the goroutine just before it returns.
StartSimulation(o) ==
    /\ simulating[o] = "none"
    /\ simulating' = [simulating EXCEPT ![o] = "running"]
    /\ UNCHANGED <<published, log, gateway, phase, wants, stream, history>>

\* The update reaches some of the subscriptions; an error of Publish, which is
\* ignored, and a gateway without a connection mean that it reaches none.
Spread(reached) ==
    LET k == Len(log) + 1 IN
    /\ queue' = [s \in Sub |-> IF s \in reached THEN Append(queue[s], k) ELSE queue[s]]
    /\ lost' = [s \in Sub |-> IF s \in Subscribed \ reached THEN lost[s] \cup {k} ELSE lost[s]]

\* A round of the goroutine's loop, that repeats a publication when in doubt.
PublishStatusAgain(o) ==
    /\ simulating[o] = "running"
    /\ published[o] < LastStatus
    /\ Len(log) < Cardinality(Order) * LastStatus
    /\ published' \in {published, [published EXCEPT ![o] = @ + 1]}
    /\ UNCHANGED simulating
    /\ log' = Append(log, [order |-> o, status |-> published[o] + 1])
    /\ \E reached \in SUBSET Subscribed : Spread(reached)
    /\ UNCHANGED <<gateway, phase, wants, callback, channel, got, since, dropped>>

\* A round of the goroutine's loop after its sleep.
PublishStatus(o) ==
    /\ simulating[o] = "running"
    /\ published' = [published EXCEPT ![o] = @ + 1]
    /\ simulating' = IF published'[o] = LastStatus
                     THEN [simulating EXCEPT ![o] = "over"] ELSE simulating
    /\ log' = Append(log, [order |-> o, status |-> published[o] + 1])
    /\ \E reached \in SUBSET Subscribed : Spread(reached)
    /\ UNCHANGED <<gateway, phase, wants, callback, channel, got, since, dropped>>

\* The goroutines are in no table: a restart forgets them.
OrderServiceCrash ==
    /\ \E o \in Order : simulating[o] = "running"
    /\ simulating' = [o \in Order |->
                         IF simulating[o] = "running" THEN "over" ELSE simulating[o]]
    /\ UNCHANGED <<published, log, gateway, phase, wants, stream, history>>

-----------------------------------------------------------------------------
(* The gateway: OrderStatusChanged, its NATS callback, its cleanup goroutine. *)

Subscribe(s, w) ==
    /\ gateway = "up"
    /\ phase[s] = "none"
    /\ phase' = [phase EXCEPT ![s] = "open"]
    /\ wants' = [wants EXCEPT ![s] = w]
    /\ since' = [since EXCEPT ![s] = Len(log)]
    /\ UNCHANGED <<simulation, gateway, stream, lost, dropped>>

\* nats.Subscribe fails: ch is closed, the client gets an error.
SubscribeFails(s) ==
    /\ gateway = "up"
    /\ phase[s] = "none"
    /\ phase' = [phase EXCEPT ![s] = "closed"]
    /\ UNCHANGED <<simulation, gateway, wants, stream, history>>

\* shouldSend, mistaking a missing order id for one that matches no order.
WantedExactly(s, k) == wants[s] = log[k].order

\* shouldSend, without the comparison.
WantedAlways(s, k) == wants[s] \in Order \cup {All}

\* shouldSend
Wanted(s, k) == wants[s] = All \/ wants[s] = log[k].order

\* The NATS client calls the callback in a goroutine per message.
DispatchConcurrently(s) ==
    /\ s \in Subscribed
    /\ callback[s] = 0
    /\ \E i \in DOMAIN queue[s] :
          /\ queue' = [queue EXCEPT ![s] = RemoveAt(@, i)]
          /\ callback' = [callback EXCEPT ![s] = IF Wanted(s, queue[s][i]) THEN queue[s][i] ELSE 0]
    /\ UNCHANGED <<simulation, gateway, phase, wants, channel, got, history>>

\* The NATS client calls the callback with the next message, when the last call
\* has returned; the callback unmarshals it and filters it.
Dispatch(s) ==
    /\ s \in Subscribed
    /\ callback[s] = 0
    /\ queue[s] # <<>>
    /\ queue' = [queue EXCEPT ![s] = Tail(@)]
    /\ callback' = [callback EXCEPT ![s] = IF Wanted(s, Head(queue[s])) THEN Head(queue[s]) ELSE 0]
    /\ UNCHANGED <<simulation, gateway, phase, wants, channel, got, history>>

\* The four outcomes of the callback's select, on which the cleanup may have
\* run ahead.  A case that can proceed is chosen at random: sending on a closed
\* channel counts as one and panics.
AtSelect(s) == callback[s] # 0

SendUnbounded(s) ==
    /\ AtSelect(s)
    /\ phase[s] # "closed"
    /\ channel' = [channel EXCEPT ![s] = Append(@, callback[s])]
    /\ callback' = [callback EXCEPT ![s] = 0]
    /\ UNCHANGED <<simulation, gateway, phase, wants, queue, got, history>>

Send(s) ==
    /\ AtSelect(s)
    /\ phase[s] # "closed"
    /\ Len(channel[s]) < Capacity
    /\ channel' = [channel EXCEPT ![s] = Append(@, callback[s])]
    /\ callback' = [callback EXCEPT ![s] = 0]
    /\ UNCHANGED <<simulation, gateway, phase, wants, queue, got, history>>

Abandon(s) ==
    /\ AtSelect(s)
    /\ ContextDone(s)
    /\ callback' = [callback EXCEPT ![s] = 0]
    /\ UNCHANGED <<simulation, gateway, phase, wants, queue, channel, got, history>>

\* A select without default waits for the client to read.
WaitForRoom(s) == AtSelect(s) /\ FALSE /\ UNCHANGED vars

Drop(s) ==
    /\ AtSelect(s)
    /\ phase[s] = "open"
    /\ Len(channel[s]) = Capacity
    /\ callback' = [callback EXCEPT ![s] = 0]
    /\ dropped' = [dropped EXCEPT ![s] = @ \cup {callback[s]}]
    /\ UNCHANGED <<simulation, gateway, phase, wants, queue, channel, got, since, lost>>

\* The panic is in a goroutine of the NATS client, where nothing recovers it:
\* the process ends, and with it every client's subscription.
SendOnClosed(s) ==
    /\ AtSelect(s)
    /\ phase[s] = "closed"
    /\ gateway' = "down"
    /\ phase' = [t \in Sub |-> IF Alive(t) THEN "ended" ELSE phase[t]]
    /\ queue' = [t \in Sub |-> <<>>]
    /\ callback' = [t \in Sub |-> 0]
    /\ channel' = [t \in Sub |-> <<>>]
    /\ UNCHANGED <<simulation, wants, got, history>>

Select(s) == Send(s) \/ Abandon(s) \/ Drop(s) \/ SendOnClosed(s)

\* docker-compose: restart on failure.
GatewayRestart ==
    /\ gateway = "down"
    /\ gateway' = "up"
    /\ UNCHANGED <<simulation, phase, wants, stream, history>>

\* The client stops the subscription or its connection closes.
Leave(s) ==
    /\ phase[s] = "open"
    /\ phase' = [phase EXCEPT ![s] = "left"]
    /\ UNCHANGED <<simulation, gateway, wants, stream, history>>

\* The cleanup waits for the client to read what is in the channel.
UnsubscribeDrained(s) ==
    /\ phase[s] = "left"
    /\ channel[s] = <<>>
    /\ phase' = [phase EXCEPT ![s] = "unsubscribed"]
    /\ queue' = [queue EXCEPT ![s] = <<>>]
    /\ UNCHANGED <<simulation, gateway, wants, callback, channel, got, history>>

\* The NATS client forgets what is pending, but does not wait for a callback
\* that is running; an error is logged and changes nothing.
Unsubscribe(s) ==
    /\ phase[s] = "left"
    /\ phase' = [phase EXCEPT ![s] = "unsubscribed"]
    /\ queue' = [queue EXCEPT ![s] = <<>>]
    /\ UNCHANGED <<simulation, gateway, wants, callback, channel, got, history>>

CloseChannel(s) ==
    /\ phase[s] = "unsubscribed"
    /\ phase' = [phase EXCEPT ![s] = "closed"]
    /\ UNCHANGED <<simulation, gateway, wants, stream, history>>

\* The websocket takes the next update; when ctx is done it may stop doing so.
Read(s) ==
    /\ Alive(s)
    /\ channel[s] # <<>>
    /\ got' = [got EXCEPT ![s] = Append(@, Head(channel[s]))]
    /\ channel' = [channel EXCEPT ![s] = Tail(@)]
    /\ UNCHANGED <<simulation, gateway, phase, wants, queue, callback, history>>

Publisher == OrderServiceCrash \/ \E o \in Order : StartSimulation(o) \/ PublishStatus(o)
Client(s) == SubscribeFails(s) \/ Leave(s) \/ Read(s) \/ \E w \in Order \cup {All} : Subscribe(s, w)
Cleanup(s) == Unsubscribe(s) \/ CloseChannel(s)

Next ==
    \/ Publisher
    \/ GatewayRestart
    \/ \E s \in Sub : Client(s) \/ Dispatch(s) \/ Select(s) \/ Cleanup(s)

\* Goroutines that can run do.  Clients need not read, order goroutines need
\* not survive, the gateway need not be restarted.
Fairness == \A s \in Sub : WF_vars(Dispatch(s)) /\ WF_vars(Select(s)) /\ WF_vars(Cleanup(s))

Spec == Init /\ [][Next]_vars /\ Fairness

-----------------------------------------------------------------------------
(* Properties. *)

\* A client sees the statuses of an order in the order in which they were
\* reached and none twice, also when the order goroutine dies, the gateway
\* restarts, updates of other orders come between, or some are lost.
StatusesInOrder ==
    \A s \in Sub : \A j \in DOMAIN got[s] : \A i \in 1..(j - 1) :
        LET earlier == log[got[s][i]]
            later == log[got[s][j]]
        IN  earlier.order = later.order => earlier.status < later.status

\* A client that follows one order never loses an update to a full channel,
\* however slowly it reads: the callback keeps other orders' updates out, and an
\* order has no more statuses than the channel has room.
OneOrderIsNeverDropped == \A s \in Sub : wants[s] \in Order => dropped[s] = {}

InTransit(s) == Range(queue[s]) \cup ({callback[s]} \ {0}) \cup Range(channel[s])

\* While a client stays, every update it wants that was published since it
\* subscribed is with it or on its way, or the network lost it, or the channel
\* was full: filter, callback and channel lose nothing else.
NothingElseIsMissed ==
    \A s \in Sub : phase[s] = "open" =>
        \A k \in (since[s] + 1)..Len(log) :
            wants[s] \in {All, log[k].order} =>
                k \in Range(got[s]) \cup InTransit(s) \cup lost[s] \cup dropped[s]

\* A client that stops reading does not hold up the NATS client: each update
\* brought to the gateway is passed on or dropped.
UpdatesAreHandled ==
    \A s \in Sub, k \in 1..(Cardinality(Order) * LastStatus) :
        k \in Range(queue[s]) \cup {callback[s]} ~> k \notin Range(queue[s]) \cup {callback[s]}

\* When a client has left, its NATS subscription and channel go, even if nobody
\* reads the channel any more.
LeaversAreCleanedUp ==
    \A s \in Sub : phase[s] = "left" ~> phase[s] \in {"closed", "ended"}

\* Order tracking seen as a feed: each client is handed updates at most once and
\* in the order of their publication.
Feed == INSTANCE LossyFeed WITH Message <- Update, Reader <- Sub, feed <- got

\* Publisher, NATS, callback and channel together implement the feed.
RefinesFeed == Feed!FeedSpec

\* Claimed by the comment "to keep the connection alive" on the heartbeat: the
\* stream of a client ends only when that client leaves.
OnlyLeavingEnds ==
    [][\A s \in Sub : phase[s] = "open" => phase'[s] \in {"open", "left"}]_vars
==============================================================================
