-------------------------- MODULE OrderStatusProofs --------------------------
(***************************************************************************)
(* Theorems about OrderStatus, for every set of orders and subscriptions,  *)
(* every number of statuses and every channel that holds one order's.      *)
(***************************************************************************)
EXTENDS OrderStatus, TLAPS

-----------------------------------------------------------------------------
(* Sequences of positions. *)

Position == Nat \ {0}
Ascending(q) == \A j \in DOMAIN q : \A i \in 1..(j - 1) : q[i] < q[j]
AllBelow(q, k) == \A i \in DOMAIN q : q[i] < k
Before(q, r) == \A j \in DOMAIN r : AllBelow(q, r[j])

\* The elements of a sequence with one more at its end.
LEMMA AppendElements ==
  ASSUME NEW q \in Seq(Position), NEW k \in Position
  PROVE  /\ Append(q, k) \in Seq(Position)
         /\ Len(Append(q, k)) = Len(q) + 1
         /\ \A i \in DOMAIN q : Append(q, k)[i] = q[i]
         /\ \A i \in DOMAIN Append(q, k) :
               \/ i \in DOMAIN q /\ Append(q, k)[i] = q[i]
               \/ i = Len(q) + 1 /\ Append(q, k)[i] = k
         /\ Range(Append(q, k)) = Range(q) \cup {k}
<1>1. /\ Append(q, k) \in Seq(Position) /\ Len(Append(q, k)) = Len(q) + 1
      /\ \A i \in DOMAIN q : Append(q, k)[i] = q[i]
      /\ \A i \in DOMAIN Append(q, k) :
            \/ i \in DOMAIN q /\ Append(q, k)[i] = q[i]
            \/ i = Len(q) + 1 /\ Append(q, k)[i] = k
      /\ Len(q) + 1 \in DOMAIN Append(q, k) /\ Append(q, k)[Len(q) + 1] = k
  OBVIOUS
<1>2. DOMAIN q \subseteq DOMAIN Append(q, k)
  OBVIOUS
<1> QED
  BY <1>1, <1>2 DEF Range

\* The elements of a tail are those of the sequence, one place on.
LEMMA TailElements ==
  ASSUME NEW q \in Seq(Position), q # <<>>
  PROVE  /\ Tail(q) \in Seq(Position) /\ Head(q) \in Position
         /\ Len(Tail(q)) = Len(q) - 1
         /\ \A i \in DOMAIN Tail(q) : i + 1 \in DOMAIN q /\ Tail(q)[i] = q[i + 1]
         /\ 1 \in DOMAIN q /\ Head(q) = q[1]
         /\ Range(q) = Range(Tail(q)) \cup {Head(q)}
<1>1. /\ Tail(q) \in Seq(Position) /\ Head(q) \in Position
      /\ Len(Tail(q)) = Len(q) - 1
      /\ \A i \in DOMAIN Tail(q) : i + 1 \in DOMAIN q /\ Tail(q)[i] = q[i + 1]
      /\ 1 \in DOMAIN q /\ Head(q) = q[1]
  OBVIOUS
<1>2. \A i \in DOMAIN q : i = 1 \/ (i - 1 \in DOMAIN Tail(q) /\ q[i] = Tail(q)[i - 1])
  BY <1>1
<1>3. Range(q) \subseteq Range(Tail(q)) \cup {Head(q)}
  <2> SUFFICES ASSUME NEW i \in DOMAIN q
               PROVE  q[i] \in {Tail(q)[j] : j \in DOMAIN Tail(q)} \cup {Head(q)}
    BY DEF Range
  <2> QED
    BY <1>1, <1>2
<1>4. Range(Tail(q)) \cup {Head(q)} \subseteq Range(q)
  BY <1>1 DEF Range
<1> QED
  BY <1>1, <1>3, <1>4

\* A position ahead of all others may be appended.
LEMMA AppendAscending ==
  ASSUME NEW q \in Seq(Position), NEW k \in Position, Ascending(q), AllBelow(q, k)
  PROVE  Ascending(Append(q, k))
<1> SUFFICES ASSUME NEW j \in DOMAIN Append(q, k), NEW i \in 1..(j - 1)
             PROVE  Append(q, k)[i] < Append(q, k)[j]
  BY DEF Ascending
<1>1. i \in DOMAIN q /\ Append(q, k)[i] = q[i]
  BY AppendElements
<1> QED
  BY <1>1, AppendElements DEF Ascending, AllBelow

\* A tail of an ascending sequence ascends, ahead of the head.
LEMMA TailAscending ==
  ASSUME NEW q \in Seq(Position), q # <<>>, Ascending(q)
  PROVE  Ascending(Tail(q)) /\ (\A i \in DOMAIN Tail(q) : Head(q) < Tail(q)[i])
<1>1. \A i \in DOMAIN Tail(q) : i + 1 \in DOMAIN q /\ Tail(q)[i] = q[i + 1] /\ i >= 1
  BY TailElements
<1>2. \A i \in DOMAIN Tail(q) : Head(q) < Tail(q)[i]
  BY <1>1, TailElements DEF Ascending
<1>3. \A j \in DOMAIN Tail(q) : \A i \in 1..(j - 1) : Tail(q)[i] < Tail(q)[j]
  <2> SUFFICES ASSUME NEW j \in DOMAIN Tail(q), NEW i \in 1..(j - 1)
               PROVE  Tail(q)[i] < Tail(q)[j]
    OBVIOUS
  <2>1. i \in DOMAIN Tail(q) /\ j \in Nat /\ i + 1 \in 1..((j + 1) - 1)
    BY TailElements
  <2> QED
    BY <1>1, <2>1 DEF Ascending
<1> QED
  BY <1>2, <1>3 DEF Ascending

-----------------------------------------------------------------------------
(* The invariant. *)

\* Where a subscription has updates, given its phase.
ControlInv ==
    \A s \in Sub :
        /\ s \notin Subscribed => queue[s] = <<>>
        /\ ~Alive(s) => callback[s] = 0 /\ channel[s] = <<>>
        /\ phase[s] = "none" => dropped[s] = {} /\ wants[s] = All

\* The log of an order ascends to the number of its statuses published.
LogInv ==
    /\ \A o \in Order : simulating[o] # "over" => published[o] < LastStatus
    /\ \A k \in DOMAIN log : log[k].status <= published[log[k].order]
    /\ \A j \in DOMAIN log : \A i \in 1..(j - 1) :
          log[i].order = log[j].order => log[i].status < log[j].status

\* What the client has, what is in the channel, at the callback and in the
\* queue are, in this order, ascending positions of the log.
PipeInv ==
    \A s \in Sub :
        /\ Ascending(got[s]) /\ Ascending(channel[s]) /\ Ascending(queue[s])
        /\ AllBelow(got[s], Len(log) + 1) /\ AllBelow(channel[s], Len(log) + 1)
        /\ AllBelow(queue[s], Len(log) + 1) /\ callback[s] < Len(log) + 1
        /\ Before(got[s], channel[s]) /\ Before(got[s], queue[s])
        /\ Before(channel[s], queue[s])
        /\ callback[s] # 0 =>
              /\ AllBelow(got[s], callback[s]) /\ AllBelow(channel[s], callback[s])
              /\ \A i \in DOMAIN queue[s] : callback[s] < queue[s][i]

\* What is past the filter is wanted.
WantedInv ==
    \A s \in Sub :
        /\ \A i \in DOMAIN channel[s] : Wanted(s, channel[s][i])
        /\ callback[s] # 0 => Wanted(s, callback[s])

\* In the channel of a client that follows one order the statuses have come at
\* least as far as their places.
RoomInv ==
    \A s \in Sub : wants[s] \in Order =>
        \A i \in DOMAIN channel[s] : log[channel[s][i]].status >= i

StatusInv ==
    /\ TypeOK /\ ControlInv /\ LogInv /\ PipeInv /\ WantedInv /\ RoomInv
    /\ OneOrderIsNeverDropped /\ NothingElseIsMissed

\* The steps that leave every update where it is.
Quiet ==
    \/ OrderServiceCrash \/ GatewayRestart \/ UNCHANGED vars
    \/ \E o \in Order : StartSimulation(o)
    \/ \E s \in Sub : SubscribeFails(s) \/ Leave(s) \/ CloseChannel(s)

\* Quiet steps touch neither the updates nor what the clients have of them.
LEMMA QuietKeepsStream ==
  ASSUME Quiet
  PROVE  UNCHANGED <<published, log, wants, stream, history>>
BY DEF Quiet, OrderServiceCrash, GatewayRestart, StartSimulation, SubscribeFails,
       Leave, CloseChannel, vars, simulation, stream, history

\* A step is quiet or one of these.
LEMMA Steps ==
  ASSUME [Next]_vars
  PROVE  \/ Quiet
         \/ \E o \in Order : PublishStatus(o)
         \/ \E s \in Sub :
               \/ Dispatch(s) \/ Send(s) \/ Abandon(s) \/ Drop(s) \/ SendOnClosed(s)
               \/ Unsubscribe(s) \/ Read(s) \/ \E w \in Order \cup {All} : Subscribe(s, w)
BY DEF Next, Publisher, Client, Select, Cleanup, Quiet

\* Every step keeps the state well typed.
LEMMA TypeStep ==
  ASSUME TypeOK, LogInv, [Next]_vars
  PROVE  TypeOK'
<1> USE DEF TypeOK, Phase, stream, history, simulation
<1>1. CASE Quiet
  BY <1>1 DEF Quiet, OrderServiceCrash, GatewayRestart, StartSimulation, SubscribeFails,
       Leave, CloseChannel, vars
<1>2. ASSUME NEW o \in Order, PublishStatus(o)
      PROVE  TypeOK'
  <2>1. published[o] + 1 \in 1..LastStatus
    BY <1>2, LastStatusAssumption DEF PublishStatus, LogInv
  <2>2. [order |-> o, status |-> published[o] + 1] \in Update
    BY <2>1 DEF Update
  <2>3. log' \in Seq(Update) /\ published' \in [Order -> 0..LastStatus]
    BY <1>2, <2>1, <2>2 DEF PublishStatus
  <2>4. Len(log) + 1 \in Nat \ {0}
    OBVIOUS
  <2>5. queue' \in [Sub -> Seq(Nat \ {0})] /\ lost' \in [Sub -> SUBSET Nat]
    BY <1>2, <2>4 DEF PublishStatus, Spread
  <2> QED
    BY <1>2, <2>3, <2>5 DEF PublishStatus
<1>3. ASSUME NEW s \in Sub, NEW w \in Order \cup {All}, Subscribe(s, w)
      PROVE  TypeOK'
  BY <1>3 DEF Subscribe
<1>4. ASSUME NEW s \in Sub, Dispatch(s)
      PROVE  TypeOK'
  <2>1. Head(queue[s]) \in Nat /\ Tail(queue[s]) \in Seq(Nat \ {0})
    BY <1>4 DEF Dispatch
  <2> QED
    BY <1>4, <2>1 DEF Dispatch
<1>5. ASSUME NEW s \in Sub, Send(s)
      PROVE  TypeOK'
  <2>1. callback[s] \in Nat \ {0}
    BY <1>5 DEF Send, AtSelect
  <2>2. /\ Append(channel[s], callback[s]) \in Seq(Nat \ {0})
        /\ Len(Append(channel[s], callback[s])) <= Capacity
    BY <1>5, <2>1, CapacityAssumption DEF Send
  <2> QED
    BY <1>5, <2>2 DEF Send
<1>6. ASSUME NEW s \in Sub, Abandon(s) \/ Drop(s)
      PROVE  TypeOK'
  <2>1. CASE Abandon(s)
    BY <2>1 DEF Abandon
  <2>2. CASE Drop(s)
    <3>1. dropped[s] \cup {callback[s]} \in SUBSET Nat
      OBVIOUS
    <3> QED
      BY <2>2, <3>1 DEF Drop
  <2> QED
    BY <1>6, <2>1, <2>2
<1>7. ASSUME NEW s \in Sub, SendOnClosed(s)
      PROVE  TypeOK'
  BY <1>7, CapacityAssumption DEF SendOnClosed
<1>8. ASSUME NEW s \in Sub, Unsubscribe(s)
      PROVE  TypeOK'
  BY <1>8 DEF Unsubscribe
<1>9. ASSUME NEW s \in Sub, Read(s)
      PROVE  TypeOK'
  <2>1. /\ Head(channel[s]) \in Nat \ {0} /\ Tail(channel[s]) \in Seq(Nat \ {0})
        /\ Len(Tail(channel[s])) <= Capacity
    BY <1>9, CapacityAssumption DEF Read
  <2> QED
    BY <1>9, <2>1 DEF Read
<1> QED
  BY <1>1, <1>2, <1>3, <1>4, <1>5, <1>6, <1>7, <1>8, <1>9, Steps

\* Every step keeps what a subscription's phase says of its queue and callback.
LEMMA ControlStep ==
  ASSUME TypeOK, ControlInv, [Next]_vars
  PROVE  ControlInv'
<1> USE DEF TypeOK, ControlInv, Phase, stream, history, simulation, Subscribed, Alive
<1>1. CASE Quiet
  BY <1>1 DEF Quiet, OrderServiceCrash, GatewayRestart, StartSimulation, SubscribeFails,
       Leave, CloseChannel, vars
<1>2. ASSUME NEW o \in Order, PublishStatus(o)
      PROVE  ControlInv'
  BY <1>2 DEF PublishStatus, Spread
<1>3. ASSUME NEW s \in Sub, NEW w \in Order \cup {All}, Subscribe(s, w)
      PROVE  ControlInv'
  BY <1>3 DEF Subscribe
<1>4. ASSUME NEW s \in Sub, Dispatch(s)
      PROVE  ControlInv'
  BY <1>4 DEF Dispatch
<1>5. ASSUME NEW s \in Sub, Send(s)
      PROVE  ControlInv'
  BY <1>5 DEF Send, AtSelect
<1>6. ASSUME NEW s \in Sub, Abandon(s) \/ Drop(s)
      PROVE  ControlInv'
  BY <1>6 DEF Abandon, Drop
<1>7. ASSUME NEW s \in Sub, SendOnClosed(s)
      PROVE  ControlInv'
  BY <1>7 DEF SendOnClosed
<1>8. ASSUME NEW s \in Sub, Unsubscribe(s)
      PROVE  ControlInv'
  BY <1>8 DEF Unsubscribe
<1>9. ASSUME NEW s \in Sub, Read(s)
      PROVE  ControlInv'
  BY <1>9 DEF Read
<1> QED
  BY <1>1, <1>2, <1>3, <1>4, <1>5, <1>6, <1>7, <1>8, <1>9, Steps

\* Every step keeps what the log says of the goroutines that wrote it.
LEMMA LogStep ==
  ASSUME TypeOK, LogInv, [Next]_vars
  PROVE  LogInv'
<1> USE DEF TypeOK, LogInv, stream, history, simulation
<1>1. CASE Quiet
  <2>1. UNCHANGED <<published, log>>
    BY <1>1, QuietKeepsStream
  <2>2. \A o \in Order : simulating'[o] # "over" => simulating[o] # "over"
    BY <1>1 DEF Quiet, OrderServiceCrash, GatewayRestart, StartSimulation, SubscribeFails,
                Leave, CloseChannel, vars
  <2> QED
    BY <2>1, <2>2
<1>2. ASSUME NEW o \in Order, PublishStatus(o)
      PROVE  LogInv'
  <2> DEFINE new == [order |-> o, status |-> published[o] + 1]
  <2>1. published[o] + 1 \in 1..LastStatus
    BY <1>2, LastStatusAssumption DEF PublishStatus
  <2>2. new \in Update
    BY <2>1 DEF Update
  <2>3. log' = Append(log, new) /\ published' = [published EXCEPT ![o] = @ + 1]
    BY <1>2 DEF PublishStatus
  <2>4. \A k \in DOMAIN log' :
           \/ k \in DOMAIN log /\ log'[k] = log[k] /\ log[k] \in Update
           \/ k = Len(log) + 1 /\ log'[k] = new
    BY <2>2, <2>3
  <2>5. \A q \in Order : simulating'[q] # "over" => published'[q] < LastStatus
    <3>1. simulating'[o] # "over" => published[o] + 1 # LastStatus
      BY <1>2, <2>3 DEF PublishStatus
    <3>2. \A q \in Order : q # o => simulating'[q] = simulating[q] /\ published'[q] = published[q]
      BY <1>2, <2>3 DEF PublishStatus
    <3> QED
      BY <2>1, <2>3, <3>1, <3>2, LastStatusAssumption
  <2>6. \A k \in DOMAIN log : log'[k].status <= published'[log'[k].order]
    BY <2>2, <2>3, <2>4 DEF Update
  <2>7. \A k \in DOMAIN log' : log'[k].status <= published'[log'[k].order]
    BY <2>2, <2>3, <2>4, <2>6
  <2>8. \A j \in DOMAIN log' : \A i \in 1..(j - 1) :
           log'[i].order = log'[j].order => log'[i].status < log'[j].status
    <3> SUFFICES ASSUME NEW j \in DOMAIN log', NEW i \in 1..(j - 1),
                        log'[i].order = log'[j].order
                 PROVE  log'[i].status < log'[j].status
      OBVIOUS
    <3>1. i \in DOMAIN log /\ log'[i] = log[i] /\ log[i] \in Update
      BY <2>2, <2>3, <2>4
    <3>2. CASE j \in DOMAIN log
      <4>1. log'[j] = log[j]
        BY <2>4, <3>2
      <4> QED
        BY <3>1, <3>2, <4>1
    <3>3. CASE j = Len(log) + 1 /\ log'[j] = new
      <4>1. log[i].order = o
        BY <3>1, <3>3
      <4>2. log[i].status <= published[o] /\ log[i].status \in Nat
        BY <3>1, <4>1 DEF Update
      <4> QED
        BY <3>1, <3>3, <4>2
    <3> QED
      BY <2>4, <3>2, <3>3
  <2> QED
    BY <2>5, <2>7, <2>8
<1>3. ASSUME UNCHANGED <<simulating, published, log>>
      PROVE  LogInv'
  BY <1>3
<1> QED
  BY <1>1, <1>2, <1>3, Steps
     DEF Subscribe, Dispatch, Send, Abandon, Drop, SendOnClosed, Unsubscribe, Read

\* What a client has got, its channel, callback and queue stay ascending.
LEMMA PipeStep ==
  ASSUME TypeOK, ControlInv, PipeInv, [Next]_vars
  PROVE  PipeInv'
<1> USE DEF TypeOK, PipeInv, stream, history, simulation, Position
<1>1. CASE Quiet
  BY <1>1, QuietKeepsStream
<1>2. ASSUME NEW o \in Order, PublishStatus(o)
      PROVE  PipeInv'
  <2> DEFINE n == Len(log) + 1
  <2>1. n \in Position /\ Len(log') = n /\ UNCHANGED <<got, channel, callback>>
    <3>1. Len(log) \in Nat
      OBVIOUS
    <3> QED
      BY <1>2, <3>1 DEF PublishStatus
  <2> SUFFICES ASSUME NEW s \in Sub
               PROVE  /\ Ascending(queue'[s]) /\ AllBelow(got[s], n + 1)
                      /\ AllBelow(channel[s], n + 1) /\ AllBelow(queue'[s], n + 1)
                      /\ callback[s] < n + 1
                      /\ Before(got[s], queue'[s]) /\ Before(channel[s], queue'[s])
                      /\ callback[s] # 0 => \A i \in DOMAIN queue'[s] : callback[s] < queue'[s][i]
    BY <2>1
  <2>2. queue'[s] = queue[s] \/ queue'[s] = Append(queue[s], n)
    BY <1>2 DEF PublishStatus, Spread
  <2>3. AllBelow(got[s], n) /\ AllBelow(channel[s], n) /\ AllBelow(queue[s], n) /\ callback[s] < n
    OBVIOUS
  <2> HIDE DEF n
  <2>4. /\ AllBelow(got[s], n + 1) /\ AllBelow(channel[s], n + 1)
        /\ AllBelow(queue[s], n + 1) /\ callback[s] < n + 1
    BY <2>1, <2>3 DEF AllBelow
  <2>5. CASE queue'[s] = queue[s]
    BY <2>4, <2>5
  <2>6. CASE queue'[s] = Append(queue[s], n)
    <3>1. Ascending(queue'[s])
      BY <2>1, <2>3, <2>6, AppendAscending
    <3>2. \A i \in DOMAIN queue'[s] :
             \/ i \in DOMAIN queue[s] /\ queue'[s][i] = queue[s][i]
             \/ queue'[s][i] = n
      BY <2>1, <2>6, AppendElements
    <3>3. AllBelow(queue'[s], n + 1)
      <4>1. n < n + 1
        BY <2>1
      <4> QED
        BY <2>4, <3>2, <4>1 DEF AllBelow
    <3>4. Before(got[s], queue'[s]) /\ Before(channel[s], queue'[s])
      BY <2>3, <3>2 DEF Before
    <3>5. callback[s] # 0 => \A i \in DOMAIN queue'[s] : callback[s] < queue'[s][i]
      BY <2>3, <3>2
    <3> QED
      BY <2>4, <3>1, <3>3, <3>4, <3>5
  <2> QED
    BY <2>2, <2>5, <2>6
<1>3. ASSUME NEW s \in Sub, NEW w \in Order \cup {All}, Subscribe(s, w)
      PROVE  PipeInv'
  BY <1>3 DEF Subscribe
<1>4. ASSUME NEW s \in Sub, Dispatch(s)
      PROVE  PipeInv'
  <2> DEFINE k == Head(queue[s])
             q == Tail(queue[s])
  <2>1. /\ queue' = [queue EXCEPT ![s] = q] /\ UNCHANGED <<log, channel, got>>
        /\ \A t \in Sub : t # s => callback'[t] = callback[t] /\ queue'[t] = queue[t]
        /\ callback'[s] \in {0, k} /\ queue[s] # <<>> /\ queue'[s] = q
    BY <1>4 DEF Dispatch
  <2>2. /\ 1 \in DOMAIN queue[s] /\ k = queue[s][1]
        /\ \A i \in DOMAIN q : i + 1 \in DOMAIN queue[s] /\ q[i] = queue[s][i + 1]
    BY <2>1, TailElements
  <2>3. Ascending(q) /\ \A i \in DOMAIN q : k < q[i]
    BY <2>1, TailAscending
  <2> HIDE DEF k, q
  <2>4. AllBelow(q, Len(log) + 1) /\ k < Len(log) + 1
    BY <2>2 DEF AllBelow
  <2>5. Before(got[s], q) /\ Before(channel[s], q) /\ AllBelow(got[s], k) /\ AllBelow(channel[s], k)
    BY <2>2 DEF Before
  <2>6. 0 < Len(log) + 1
    OBVIOUS
  <2> QED
    BY <2>1, <2>3, <2>4, <2>5, <2>6
<1>5. ASSUME NEW s \in Sub, Send(s)
      PROVE  PipeInv'
  <2> DEFINE c == Append(channel[s], callback[s])
  <2>1. /\ UNCHANGED <<log, queue, got>> /\ callback[s] \in Position
        /\ \A t \in Sub : t # s => callback'[t] = callback[t] /\ channel'[t] = channel[t]
        /\ callback'[s] = 0 /\ channel'[s] = c
    BY <1>5 DEF Send, AtSelect
  <2>2. Ascending(c)
    BY <2>1, AppendAscending
  <2>3. \A i \in DOMAIN c :
           \/ i \in DOMAIN channel[s] /\ c[i] = channel[s][i]
           \/ c[i] = callback[s]
    BY <2>1, AppendElements
  <2> HIDE DEF c
  <2>4. AllBelow(c, Len(log) + 1)
    BY <2>3 DEF AllBelow
  <2>5. Before(got[s], c)
    BY <2>1, <2>3 DEF Before
  <2>6. Before(c, queue[s])
    BY <2>1, <2>3 DEF Before, AllBelow
  <2>7. 0 < Len(log) + 1
    OBVIOUS
  <2> QED
    BY <2>1, <2>2, <2>4, <2>5, <2>6, <2>7
<1>6. ASSUME NEW s \in Sub, Abandon(s) \/ Drop(s)
      PROVE  PipeInv'
  <2>1. /\ UNCHANGED <<log, queue, got, channel>>
        /\ \A t \in Sub : callback'[t] \in {0, callback[t]}
    BY <1>6 DEF Abandon, Drop
  <2>2. 0 < Len(log) + 1
    OBVIOUS
  <2> QED
    BY <2>1, <2>2
<1>7. ASSUME NEW s \in Sub, SendOnClosed(s)
      PROVE  PipeInv'
  <2>1. /\ UNCHANGED <<log, got>>
        /\ \A t \in Sub : callback'[t] = 0 /\ queue'[t] = <<>> /\ channel'[t] = <<>>
    BY <1>7 DEF SendOnClosed
  <2>2. 0 < Len(log) + 1
    OBVIOUS
  <2>3. /\ Ascending(<<>>) /\ AllBelow(<<>>, Len(log) + 1) /\ Before(<<>>, <<>>)
        /\ \A t \in Sub : Before(got[t], <<>>)
    BY DEF Ascending, AllBelow, Before
  <2> QED
    BY <2>1, <2>2, <2>3
<1>8. ASSUME NEW s \in Sub, Unsubscribe(s)
      PROVE  PipeInv'
  <2>1. /\ UNCHANGED <<log, got, channel, callback>>
        /\ \A t \in Sub : queue'[t] = queue[t] \/ queue'[t] = <<>>
    BY <1>8 DEF Unsubscribe
  <2>2. /\ Ascending(<<>>) /\ AllBelow(<<>>, Len(log) + 1)
        /\ \A t \in Sub : Before(got[t], <<>>) /\ Before(channel[t], <<>>)
        /\ \A i \in DOMAIN <<>> : FALSE
    BY DEF Ascending, AllBelow, Before
  <2> QED
    BY <2>1, <2>2
<1>9. ASSUME NEW s \in Sub, Read(s)
      PROVE  PipeInv'
  <2> DEFINE k == Head(channel[s])
             c == Tail(channel[s])
             g == Append(got[s], k)
  <2>1. /\ UNCHANGED <<log, queue, callback>> /\ channel[s] # <<>>
        /\ \A t \in Sub : t # s => got'[t] = got[t] /\ channel'[t] = channel[t]
        /\ got'[s] = g /\ channel'[s] = c
    BY <1>9 DEF Read
  <2>2. /\ 1 \in DOMAIN channel[s] /\ k = channel[s][1] /\ k \in Position
        /\ \A i \in DOMAIN c : i + 1 \in DOMAIN channel[s] /\ c[i] = channel[s][i + 1]
    BY <2>1, TailElements
  <2>3. Ascending(c) /\ \A i \in DOMAIN c : k < c[i]
    BY <2>1, TailAscending
  <2>4. AllBelow(got[s], k)
    BY <2>2 DEF Before
  <2>5. Ascending(g)
    BY <2>2, <2>4, AppendAscending
  <2>6. \A i \in DOMAIN g : (i \in DOMAIN got[s] /\ g[i] = got[s][i]) \/ g[i] = k
    BY <2>2, AppendElements
  <2> HIDE DEF k, c, g
  <2>7. AllBelow(g, Len(log) + 1) /\ AllBelow(c, Len(log) + 1)
    BY <2>2, <2>6 DEF AllBelow
  <2>8. Before(g, c)
    BY <2>2, <2>3, <2>6 DEF Before, AllBelow
  <2>9. Before(g, queue[s]) /\ Before(c, queue[s])
    BY <2>2, <2>6 DEF Before, AllBelow
  <2>10. callback[s] # 0 => AllBelow(g, callback[s]) /\ AllBelow(c, callback[s])
    BY <2>2, <2>6 DEF AllBelow
  <2> QED
    BY <2>1, <2>3, <2>5, <2>7, <2>8, <2>9, <2>10
<1> QED
  BY <1>1, <1>2, <1>3, <1>4, <1>5, <1>6, <1>7, <1>8, <1>9, Steps

\* An update in a channel or at a callback is in the log, and stays there.
LEMMA PositionsAreLogged ==
  ASSUME TypeOK, PipeInv, NEW s \in Sub
  PROVE  /\ \A i \in DOMAIN channel[s] : channel[s][i] \in DOMAIN log
         /\ callback[s] # 0 => callback[s] \in DOMAIN log
         /\ \A i \in DOMAIN got[s] : got[s][i] \in DOMAIN log
BY DEF TypeOK, PipeInv, AllBelow

\* A publication only adds to the log.
LEMMA LogGrows ==
  ASSUME TypeOK, NEW o \in Order, PublishStatus(o)
  PROVE  /\ \A k \in DOMAIN log : k \in DOMAIN log' /\ log'[k] = log[k]
         /\ Len(log') = Len(log) + 1
<1>1. \A m : /\ \A k \in DOMAIN log : k \in DOMAIN Append(log, m) /\ Append(log, m)[k] = log[k]
             /\ Len(Append(log, m)) = Len(log) + 1
  BY DEF TypeOK
<1> QED
  BY <1>1 DEF PublishStatus

\* An entry of the log is an update with a status in range.
LEMMA StatusInRange ==
  ASSUME TypeOK, NEW k \in DOMAIN log
  PROVE  log[k] \in Update /\ log[k].status \in 1..LastStatus /\ log[k].status \in Nat
<1>1. log[k] \in Update
  BY DEF TypeOK
<1>2. log[k].status \in 1..LastStatus
  BY <1>1 DEF Update
<1> QED
  BY <1>1, <1>2, LastStatusAssumption

\* A longer log changes nothing in a pipe that does not move.
LEMMA WantedKept ==
  ASSUME TypeOK, PipeInv, WantedInv, UNCHANGED <<wants, channel, callback>>,
         \A k \in DOMAIN log : log'[k] = log[k]
  PROVE  WantedInv'
<1> SUFFICES ASSUME NEW s \in Sub
             PROVE  /\ \A i \in DOMAIN channel[s] :
                          wants[s] = All \/ wants[s] = log'[channel[s][i]].order
                    /\ callback[s] # 0 => wants[s] = All \/ wants[s] = log'[callback[s]].order
  BY DEF WantedInv, Wanted
<1>1. /\ \A i \in DOMAIN channel[s] : channel[s][i] \in DOMAIN log
      /\ callback[s] # 0 => callback[s] \in DOMAIN log
  BY PositionsAreLogged
<1>2. /\ \A i \in DOMAIN channel[s] :
            wants[s] = All \/ wants[s] = log[channel[s][i]].order
      /\ callback[s] # 0 => wants[s] = All \/ wants[s] = log[callback[s]].order
  BY DEF WantedInv, Wanted
<1> QED
  BY <1>1, <1>2

\* Reading takes an update out of the channel and leaves wanted ones.
LEMMA WantedRead ==
  ASSUME TypeOK, WantedInv, NEW s \in Sub, Read(s)
  PROVE  WantedInv'
<1>1. \A t \in Sub : /\ \A i \in DOMAIN channel[t] :
                           wants[t] = All \/ wants[t] = log[channel[t][i]].order
                     /\ callback[t] # 0 => wants[t] = All \/ wants[t] = log[callback[t]].order
  BY DEF WantedInv, Wanted
<1>2. \A i \in DOMAIN Tail(channel[s]) :
         i + 1 \in DOMAIN channel[s] /\ Tail(channel[s])[i] = channel[s][i + 1]
  <2>1. channel[s] \in Seq(Position) /\ channel[s] # <<>>
    BY DEF TypeOK, Read, Position
  <2> QED
    BY <2>1, TailElements
<1>3. /\ UNCHANGED <<log, wants, callback>>
      /\ channel'[s] = Tail(channel[s])
      /\ \A t \in Sub : t # s => channel'[t] = channel[t]
  BY DEF Read, TypeOK, simulation
<1>4. ASSUME NEW t \in Sub, NEW i \in DOMAIN channel'[t]
      PROVE  wants[t] = All \/ wants[t] = log[channel'[t][i]].order
  <2>1. CASE t = s
    <3>1. i \in DOMAIN Tail(channel[s]) /\ channel'[t][i] = Tail(channel[s])[i]
      BY <1>3, <2>1, Zenon
    <3>2. i + 1 \in DOMAIN channel[s] /\ channel'[t][i] = channel[s][i + 1]
      BY <1>2, <3>1
    <3> QED
      BY <1>1, <2>1, <3>2
  <2>2. CASE t # s
    <3>1. channel'[t] = channel[t]
      BY <1>3, <2>2
    <3> QED
      BY <1>1, <3>1
  <2> QED
    BY <2>1, <2>2
<1>5. \A t \in Sub : callback'[t] # 0 => wants'[t] = All \/ wants'[t] = log'[callback'[t]].order
  BY <1>1, <1>3
<1> QED
  BY <1>3, <1>4, <1>5 DEF WantedInv, Wanted

\* Every step keeps unwanted updates out of callback and channel.
LEMMA WantedStep ==
  ASSUME TypeOK, ControlInv, PipeInv, WantedInv, [Next]_vars
  PROVE  WantedInv'
<1> USE DEF TypeOK, WantedInv, Wanted, stream, history, simulation, Position
<1>1. CASE Quiet
  BY <1>1, QuietKeepsStream
<1>2. ASSUME NEW o \in Order, PublishStatus(o)
      PROVE  WantedInv'
  <2>1. UNCHANGED <<wants, channel, callback>>
    BY <1>2 DEF PublishStatus
  <2>2. \A k \in DOMAIN log : log'[k] = log[k]
    BY <1>2, LogGrows
  <2> QED
    BY <2>1, <2>2, WantedKept
<1>3. ASSUME NEW s \in Sub, NEW w \in Order \cup {All}, Subscribe(s, w)
      PROVE  WantedInv'
  <2>1. channel[s] = <<>> /\ callback[s] = 0
    BY <1>3 DEF Subscribe, ControlInv, Alive
  <2>2. /\ \A t \in Sub : t # s => wants'[t] = wants[t]
        /\ UNCHANGED <<log, channel, callback>>
    BY <1>3 DEF Subscribe
  <2> SUFFICES ASSUME NEW t \in Sub
               PROVE  /\ \A i \in DOMAIN channel[t] : Wanted(t, channel[t][i])'
                      /\ callback[t] # 0 => Wanted(t, callback[t])'
    BY <2>2
  <2>3. CASE t = s
    BY <2>1, <2>3
  <2>4. CASE t # s
    BY <2>2, <2>4
  <2> QED
    BY <2>3, <2>4
<1>4. ASSUME NEW s \in Sub, Dispatch(s)
      PROVE  WantedInv'
  BY <1>4 DEF Dispatch
<1>5. ASSUME NEW s \in Sub, Send(s)
      PROVE  WantedInv'
  <2>1. callback[s] \in Position
    BY <1>5 DEF Send, AtSelect
  <2>2. /\ UNCHANGED <<log, wants>> /\ callback'[s] = 0
        /\ \A t \in Sub : t # s => callback'[t] = callback[t] /\ channel'[t] = channel[t]
        /\ channel'[s] = Append(channel[s], callback[s])
    BY <1>5 DEF Send
  <2>3. \A i \in DOMAIN channel'[s] :
           (i \in DOMAIN channel[s] /\ channel'[s][i] = channel[s][i]) \/ channel'[s][i] = callback[s]
    BY <2>1, <2>2, AppendElements
  <2>4. \A i \in DOMAIN channel'[s] : Wanted(s, channel'[s][i])
    BY <2>1, <2>3
  <2>5. ASSUME NEW t \in Sub
        PROVE  /\ \A i \in DOMAIN channel'[t] :
                      wants'[t] = All \/ wants'[t] = log'[channel'[t][i]].order
               /\ callback'[t] # 0 => wants'[t] = All \/ wants'[t] = log'[callback'[t]].order
    <3>1. CASE t = s
      BY <2>2, <2>4, <3>1
    <3>2. CASE t # s
      <4>1. channel'[t] = channel[t] /\ callback'[t] = callback[t] /\ wants' = wants /\ log' = log
        BY <2>2, <3>2
      <4>2. /\ \A i \in DOMAIN channel[t] : wants[t] = All \/ wants[t] = log[channel[t][i]].order
            /\ callback[t] # 0 => wants[t] = All \/ wants[t] = log[callback[t]].order
        OBVIOUS
      <4> QED
        BY <4>1, <4>2, Zenon
    <3> QED
      BY <3>1, <3>2
  <2> QED
    BY <2>5
<1>6. ASSUME NEW s \in Sub, Abandon(s) \/ Drop(s)
      PROVE  WantedInv'
  <2>1. /\ UNCHANGED <<log, wants, channel>>
        /\ \A t \in Sub : callback'[t] \in {0, callback[t]}
    BY <1>6 DEF Abandon, Drop
  <2> QED
    BY <2>1
<1>7. ASSUME NEW s \in Sub, SendOnClosed(s)
      PROVE  WantedInv'
  BY <1>7 DEF SendOnClosed
<1>8. ASSUME NEW s \in Sub, Unsubscribe(s)
      PROVE  WantedInv'
  BY <1>8 DEF Unsubscribe
<1>9. ASSUME NEW s \in Sub, Read(s)
      PROVE  WantedInv'
  BY <1>9, WantedRead
<1> QED
  BY <1>1, <1>2, <1>3, <1>4, <1>5, <1>6, <1>7, <1>8, <1>9, Steps

\* The update at the callback of a client that follows one order has a status
\* further than the channel is long: there is room for it.
LEMMA StatusExceedsChannel ==
  ASSUME StatusInv, NEW s \in Sub, AtSelect(s), wants[s] \in Order
  PROVE  Len(channel[s]) < log[callback[s]].status /\ log[callback[s]].status <= LastStatus
<1> USE DEF StatusInv, TypeOK, Position
<1>1. callback[s] \in DOMAIN log
  BY PositionsAreLogged DEF AtSelect
<1>2. log[callback[s]] \in Update
  BY <1>1
<1>3. log[callback[s]].status \in 1..LastStatus
  BY <1>2 DEF Update
<1>4. CASE channel[s] = <<>>
  BY <1>3, <1>4, LastStatusAssumption
<1>5. CASE channel[s] # <<>>
  <2> DEFINE n == Len(channel[s])
             k == channel[s][n]
  <2>1. n \in DOMAIN channel[s] /\ n \in Nat
    BY <1>5
  <2>2. k \in DOMAIN log
    BY <2>1, PositionsAreLogged
  <2>3. k < callback[s] /\ k \in 1..(callback[s] - 1)
    BY <2>1, <2>2 DEF PipeInv, AtSelect, AllBelow
  <2>4. log[k].order = wants[s] /\ log[callback[s]].order = wants[s]
    BY <2>1, AllAssumption DEF WantedInv, Wanted, AtSelect
  <2>5. log[k].status < log[callback[s]].status
    BY <1>1, <2>3, <2>4 DEF LogInv
  <2>6. log[k].status >= n /\ log[k] \in Update
    BY <2>1, <2>2 DEF RoomInv
  <2>7. log[k].status \in Nat
    BY <2>6, LastStatusAssumption DEF Update
  <2> QED
    BY <1>3, <2>1, <2>5, <2>6, <2>7, LastStatusAssumption
<1> QED
  BY <1>4, <1>5

\* Every step keeps the statuses in a follower's channel ahead of their places.
LEMMA RoomStep ==
  ASSUME StatusInv, [Next]_vars
  PROVE  RoomInv'
<1> USE DEF StatusInv, TypeOK, RoomInv, stream, history, simulation, Position
<1>1. CASE Quiet
  BY <1>1, QuietKeepsStream
<1>2. ASSUME NEW o \in Order, PublishStatus(o)
      PROVE  RoomInv'
  <2>1. UNCHANGED <<wants, channel>>
    BY <1>2 DEF PublishStatus
  <2> QED
    BY <1>2, <2>1, LogGrows, PositionsAreLogged
<1>3. ASSUME NEW s \in Sub, NEW w \in Order \cup {All}, Subscribe(s, w)
      PROVE  RoomInv'
  <2>1. channel[s] = <<>>
    BY <1>3 DEF Subscribe, ControlInv, Alive
  <2>2. (\A t \in Sub : t # s => wants'[t] = wants[t]) /\ UNCHANGED <<log, channel>>
    BY <1>3 DEF Subscribe
  <2>3. \A i \in DOMAIN channel[s] : FALSE
    BY <2>1
  <2> QED
    BY <2>2, <2>3
<1>4. ASSUME NEW s \in Sub, Dispatch(s) \/ Abandon(s) \/ Drop(s) \/ Unsubscribe(s)
      PROVE  RoomInv'
  <2>1. UNCHANGED <<wants, log, channel>>
    BY <1>4 DEF Dispatch, Abandon, Drop, Unsubscribe
  <2> QED
    BY <2>1
<1>5. ASSUME NEW s \in Sub, Send(s)
      PROVE  RoomInv'
  <2>1. callback[s] \in Position
    BY <1>5 DEF Send, AtSelect
  <2>2. /\ UNCHANGED <<log, wants>>
        /\ \A t \in Sub : t # s => channel'[t] = channel[t]
        /\ channel'[s] = Append(channel[s], callback[s])
    BY <1>5 DEF Send
  <2>3. \A i \in DOMAIN channel'[s] :
           \/ i \in DOMAIN channel[s] /\ channel'[s][i] = channel[s][i]
           \/ i = Len(channel[s]) + 1 /\ channel'[s][i] = callback[s]
    BY <2>1, <2>2, AppendElements
  <2>4. wants[s] \in Order => log[callback[s]].status >= Len(channel[s]) + 1
    <3> SUFFICES ASSUME wants[s] \in Order
                 PROVE  log[callback[s]].status >= Len(channel[s]) + 1
      OBVIOUS
    <3>1. callback[s] \in DOMAIN log
      BY <2>1, PositionsAreLogged
    <3>2. log[callback[s]].status \in Nat /\ Len(channel[s]) \in Nat
      BY <3>1, StatusInRange
    <3>3. Len(channel[s]) < log[callback[s]].status
      BY <1>5, StatusExceedsChannel DEF Send
    <3> QED
      BY <3>2, <3>3
  <2>5. wants[s] \in Order => \A i \in DOMAIN channel'[s] : log[channel'[s][i]].status >= i
    BY <2>3, <2>4
  <2> QED
    BY <2>2, <2>5
<1>7. ASSUME NEW s \in Sub, SendOnClosed(s)
      PROVE  RoomInv'
  BY <1>7 DEF SendOnClosed
<1>9. ASSUME NEW s \in Sub, Read(s)
      PROVE  RoomInv'
  <2>1. \A i \in DOMAIN Tail(channel[s]) :
           i + 1 \in DOMAIN channel[s] /\ Tail(channel[s])[i] = channel[s][i + 1]
    BY <1>9, TailElements DEF Read
  <2>2. /\ UNCHANGED <<log, wants>>
        /\ \A t \in Sub : t # s => channel'[t] = channel[t]
        /\ channel'[s] = Tail(channel[s])
    BY <1>9 DEF Read
  <2>3. wants[s] \in Order =>
           \A i \in DOMAIN Tail(channel[s]) : log[Tail(channel[s])[i]].status >= i
    <3> SUFFICES ASSUME wants[s] \in Order, NEW i \in DOMAIN Tail(channel[s])
                 PROVE  log[Tail(channel[s])[i]].status >= i
      OBVIOUS
    <3>1. i \in Nat /\ i + 1 \in DOMAIN channel[s] /\ Tail(channel[s])[i] = channel[s][i + 1]
      BY <2>1
    <3>2. channel[s][i + 1] \in DOMAIN log
      BY <3>1, PositionsAreLogged
    <3>3. log[channel[s][i + 1]].status \in Nat
      BY <3>2, StatusInRange
    <3> QED
      BY <3>1, <3>3
  <2> QED
    BY <2>2, <2>3
<1> QED
  BY <1>1, <1>2, <1>3, <1>4, <1>5, <1>7, <1>9, Steps

\* No step drops an update of a client that follows one order.
LEMMA DropStep ==
  ASSUME StatusInv, [Next]_vars
  PROVE  OneOrderIsNeverDropped'
<1> USE DEF StatusInv, TypeOK, OneOrderIsNeverDropped, stream, history, simulation
<1>1. CASE Quiet
  BY <1>1, QuietKeepsStream
<1>2. ASSUME NEW s \in Sub, NEW w \in Order \cup {All}, Subscribe(s, w)
      PROVE  OneOrderIsNeverDropped'
  BY <1>2 DEF Subscribe, ControlInv
<1>3. ASSUME NEW s \in Sub, Drop(s)
      PROVE  OneOrderIsNeverDropped'
  <2>1. wants[s] \notin Order
    <3> SUFFICES ASSUME wants[s] \in Order PROVE FALSE
      OBVIOUS
    <3>1. callback[s] \in DOMAIN log
      BY <1>3, PositionsAreLogged DEF Drop, AtSelect
    <3>2. log[callback[s]].status \in Nat
      BY <3>1, StatusInRange
    <3>3. Len(channel[s]) < log[callback[s]].status /\ log[callback[s]].status <= LastStatus
      BY <1>3, StatusExceedsChannel DEF Drop
    <3>4. Len(channel[s]) = Capacity
      BY <1>3 DEF Drop
    <3> QED
      BY <3>2, <3>3, <3>4, LastStatusAssumption, CapacityAssumption
  <2> QED
    BY <1>3, <2>1 DEF Drop
<1>4. ASSUME UNCHANGED <<wants, dropped>>
      PROVE  OneOrderIsNeverDropped'
  BY <1>4
<1> QED
  BY <1>1, <1>2, <1>3, <1>4, Steps
     DEF PublishStatus, Dispatch, Send, Abandon, SendOnClosed, Unsubscribe, Read

\* The updates of s that are accounted for.
Covered(s) == Range(got[s]) \cup InTransit(s) \cup lost[s] \cup dropped[s]

\* Every step keeps account of the updates a client wants.
LEMMA MissedStep ==
  ASSUME StatusInv, [Next]_vars
  PROVE  NothingElseIsMissed'
<1> USE DEF StatusInv, TypeOK, stream, history, simulation, Position
<1> SUFFICES ASSUME NEW t \in Sub, phase'[t] = "open",
                    NEW k \in (since'[t] + 1)..Len(log'), Wanted(t, k)'
             PROVE  k \in Covered(t)'
  BY DEF NothingElseIsMissed, Covered, Wanted
<1>0. phase[t] = "open" /\ k \in (since[t] + 1)..Len(log) /\ Wanted(t, k) => k \in Covered(t)
  BY DEF NothingElseIsMissed, Covered, Wanted
<1>1. CASE Quiet
  <2>1. phase[t] = "open"
    BY <1>1 DEF Quiet, OrderServiceCrash, GatewayRestart, StartSimulation, SubscribeFails,
                Leave, CloseChannel, vars
  <2> QED
    BY <1>0, <1>1, <2>1, QuietKeepsStream DEF Wanted, Covered, InTransit
<1>2. ASSUME NEW o \in Order, PublishStatus(o)
      PROVE  k \in Covered(t)'
  <2>1. UNCHANGED <<phase, wants, callback, channel, got, since, dropped>>
    BY <1>2 DEF PublishStatus
  <2>2. t \in Subscribed /\ Len(log) + 1 \in Position
    BY <2>1 DEF Subscribed
  <2>3. PICK reached \in SUBSET Subscribed : Spread(reached)
    BY <1>2 DEF PublishStatus
  <2>4. Range(Append(queue[t], Len(log) + 1)) = Range(queue[t]) \cup {Len(log) + 1}
    BY <2>2, AppendElements
  <2>5. /\ Range(queue[t]) \subseteq Range(queue'[t]) /\ lost[t] \subseteq lost'[t]
        /\ Len(log) + 1 \in Range(queue'[t]) \cup lost'[t]
    BY <2>2, <2>3, <2>4 DEF Spread
  <2>6. CASE k = Len(log) + 1
    BY <2>5, <2>6 DEF Covered, InTransit
  <2>7. CASE k # Len(log) + 1
    <3>1. k \in (since[t] + 1)..Len(log) /\ k \in DOMAIN log
      <4>1. Len(log') = Len(log) + 1 /\ since'[t] = since[t]
        BY <1>2, <2>1, LogGrows
      <4>2. Len(log) \in Nat /\ since[t] \in Nat
        OBVIOUS
      <4>3. k \in Nat /\ k >= since[t] + 1 /\ k <= Len(log) + 1
        BY <4>1, <4>2
      <4> QED
        BY <2>7, <4>2, <4>3
    <3>2. log'[k] = log[k]
      BY <1>2, <3>1, LogGrows
    <3>3. Wanted(t, k)
      BY <2>1, <3>2 DEF Wanted
    <3> QED
      BY <1>0, <2>1, <2>5, <3>1, <3>3 DEF Covered, InTransit
  <2> QED
    BY <2>6, <2>7
<1>3. ASSUME NEW s \in Sub, NEW w \in Order \cup {All}, Subscribe(s, w)
      PROVE  k \in Covered(t)'
  <2>1. t # s
    BY <1>3 DEF Subscribe
  <2>2. /\ phase'[t] = phase[t] /\ wants'[t] = wants[t] /\ since'[t] = since[t]
        /\ UNCHANGED <<log, queue, callback, channel, got, lost, dropped>>
    BY <1>3, <2>1 DEF Subscribe
  <2> QED
    BY <1>0, <2>2 DEF Wanted, Covered, InTransit
<1>4. ASSUME NEW s \in Sub, Dispatch(s)
      PROVE  k \in Covered(t)'
  <2>1. UNCHANGED <<log, phase, wants, since, channel, got, lost, dropped>>
    BY <1>4 DEF Dispatch
  <2>2. k \in Covered(t)
    BY <1>0, <2>1 DEF Wanted
  <2>3. CASE t # s
    <3>1. queue'[t] = queue[t] /\ callback'[t] = callback[t]
      BY <1>4, <2>3 DEF Dispatch
    <3> QED
      BY <2>1, <2>2, <3>1 DEF Covered, InTransit
  <2>4. CASE t = s
    <3>1. /\ queue[t] # <<>> /\ queue'[t] = Tail(queue[t]) /\ callback[t] = 0
          /\ Wanted(t, Head(queue[t])) => callback'[t] = Head(queue[t])
      BY <1>4, <2>4 DEF Dispatch
    <3>2. Range(queue[t]) = Range(queue'[t]) \cup {Head(queue[t])} /\ Head(queue[t]) # 0
      BY <3>1, TailElements
    <3>3. Wanted(t, k)
      BY <2>1 DEF Wanted
    <3>4. CASE k = Head(queue[t])
      BY <3>1, <3>2, <3>3, <3>4 DEF Covered, InTransit
    <3>5. CASE k # Head(queue[t])
      BY <2>1, <2>2, <3>1, <3>2, <3>5 DEF Covered, InTransit
    <3> QED
      BY <3>4, <3>5
  <2> QED
    BY <2>3, <2>4
<1>5. ASSUME NEW s \in Sub, Send(s)
      PROVE  k \in Covered(t)'
  <2>1. UNCHANGED <<log, phase, wants, since, queue, got, lost, dropped>>
    BY <1>5 DEF Send
  <2>2. k \in Covered(t)
    BY <1>0, <2>1 DEF Wanted
  <2>3. CASE t # s
    <3>1. channel'[t] = channel[t] /\ callback'[t] = callback[t]
      BY <1>5, <2>3 DEF Send
    <3> QED
      BY <2>1, <2>2, <3>1 DEF Covered, InTransit
  <2>4. CASE t = s
    <3>1. callback[t] \in Position /\ channel'[t] = Append(channel[t], callback[t])
      BY <1>5, <2>4 DEF Send, AtSelect
    <3>2. Range(channel'[t]) = Range(channel[t]) \cup {callback[t]}
      <4>1. channel[t] \in Seq(Position)
        OBVIOUS
      <4> QED
        BY <3>1, <4>1, AppendElements
    <3> QED
      BY <2>1, <2>2, <3>2 DEF Covered, InTransit
  <2> QED
    BY <2>3, <2>4
<1>6. ASSUME NEW s \in Sub, Abandon(s) \/ Unsubscribe(s)
      PROVE  k \in Covered(t)'
  <2>1. t # s
    BY <1>6 DEF Abandon, Unsubscribe, ContextDone
  <2>2. /\ phase[t] = "open" /\ queue'[t] = queue[t] /\ callback'[t] = callback[t]
        /\ UNCHANGED <<log, wants, since, channel, got, lost, dropped>>
    BY <1>6, <2>1 DEF Abandon, Unsubscribe
  <2> QED
    BY <1>0, <2>2 DEF Wanted, Covered, InTransit
<1>7. ASSUME NEW s \in Sub, Drop(s)
      PROVE  k \in Covered(t)'
  <2>1. /\ UNCHANGED <<log, phase, wants, since, queue, channel, got, lost>>
        /\ t # s => callback'[t] = callback[t] /\ dropped'[t] = dropped[t]
        /\ t = s => dropped'[t] = dropped[t] \cup {callback[t]}
    BY <1>7 DEF Drop
  <2>2. k \in Covered(t)
    BY <1>0, <2>1 DEF Wanted
  <2> QED
    BY <2>1, <2>2 DEF Covered, InTransit
<1>8. ASSUME NEW s \in Sub, SendOnClosed(s)
      PROVE  FALSE
  BY <1>8 DEF SendOnClosed, Alive
<1>9. ASSUME NEW s \in Sub, Read(s)
      PROVE  k \in Covered(t)'
  <2>1. UNCHANGED <<log, phase, wants, since, queue, callback, lost, dropped>>
    BY <1>9 DEF Read
  <2>2. k \in Covered(t)
    BY <1>0, <2>1 DEF Wanted
  <2>3. CASE t # s
    <3>1. channel'[t] = channel[t] /\ got'[t] = got[t]
      BY <1>9, <2>3 DEF Read
    <3> QED
      BY <2>1, <2>2, <3>1 DEF Covered, InTransit
  <2>4. CASE t = s
    <3>1. /\ channel[t] # <<>> /\ channel'[t] = Tail(channel[t])
          /\ got'[t] = Append(got[t], Head(channel[t]))
      BY <1>9, <2>4 DEF Read
    <3>2. /\ Range(channel[t]) = Range(channel'[t]) \cup {Head(channel[t])}
          /\ Head(channel[t]) \in Position
      BY <3>1, TailElements
    <3>3. Range(got'[t]) = Range(got[t]) \cup {Head(channel[t])}
      BY <3>1, <3>2, AppendElements
    <3> QED
      BY <2>1, <2>2, <3>2, <3>3 DEF Covered, InTransit
  <2> QED
    BY <2>3, <2>4
<1> QED
  BY <1>1, <1>2, <1>3, <1>4, <1>5, <1>6, <1>7, <1>8, <1>9, Steps

-----------------------------------------------------------------------------
(* The theorems. *)

\* The initial state satisfies the invariant.
LEMMA InitStatusInv == Init => StatusInv
<1> SUFFICES ASSUME Init PROVE StatusInv
  OBVIOUS
<1> USE DEF Init
<1>1. TypeOK
  BY LastStatusAssumption, CapacityAssumption DEF TypeOK, Phase
<1>2. ControlInv
  BY DEF ControlInv
<1>3. LogInv
  BY LastStatusAssumption DEF LogInv
<1>4. PipeInv
  BY DEF PipeInv, Ascending, AllBelow, Before
<1>5. WantedInv /\ RoomInv
  BY DEF WantedInv, RoomInv
<1>6. OneOrderIsNeverDropped /\ NothingElseIsMissed
  BY DEF OneOrderIsNeverDropped, NothingElseIsMissed
<1> QED
  BY <1>1, <1>2, <1>3, <1>4, <1>5, <1>6 DEF StatusInv

\* The invariant holds of order tracking, whatever is lost, dropped or crashes.
THEOREM StatusInvariant == Spec => []StatusInv
<1>1. StatusInv /\ [Next]_vars => StatusInv'
  BY TypeStep, ControlStep, LogStep, PipeStep, WantedStep, RoomStep, DropStep, MissedStep
     DEF StatusInv
<1> QED
  BY <1>1, InitStatusInv, PTL DEF Spec

\* The variables keep their types; a channel never holds more than Capacity.
THEOREM StatusTypeCorrect == Spec => []TypeOK
<1>1. StatusInv => TypeOK
  BY DEF StatusInv
<1> QED
  BY <1>1, StatusInvariant, PTL

\* A client sees the statuses of an order in their order and none twice.
THEOREM ClientsSeeOrder == Spec => []StatusesInOrder
<1>1. StatusInv => StatusesInOrder
  <2> SUFFICES ASSUME StatusInv, NEW s \in Sub, NEW j \in DOMAIN got[s], NEW i \in 1..(j - 1)
               PROVE  log[got[s][i]].order = log[got[s][j]].order
                          => log[got[s][i]].status < log[got[s][j]].status
    BY DEF StatusesInOrder
  <2>1. TypeOK /\ PipeInv /\ LogInv
    BY DEF StatusInv
  <2>2. i \in DOMAIN got[s]
    BY <2>1 DEF TypeOK
  <2>3. got[s][i] \in DOMAIN log /\ got[s][j] \in DOMAIN log /\ got[s][i] < got[s][j]
    BY <2>1, <2>2, PositionsAreLogged DEF PipeInv, Ascending
  <2>4. got[s][i] \in 1..(got[s][j] - 1)
    BY <2>1, <2>3 DEF TypeOK
  <2> QED
    BY <2>1, <2>3, <2>4 DEF LogInv
<1> QED
  BY <1>1, StatusInvariant, PTL

\* The channel of a client that follows one order is never full when an update
\* of that order arrives.
THEOREM FollowersLoseNothing == Spec => []OneOrderIsNeverDropped
<1>1. StatusInv => OneOrderIsNeverDropped
  BY DEF StatusInv
<1> QED
  BY <1>1, StatusInvariant, PTL

\* Nothing but the network and a full channel keeps an update from a client.
THEOREM UpdatesAreAccountedFor == Spec => []NothingElseIsMissed
<1>1. StatusInv => NothingElseIsMissed
  BY DEF StatusInv
<1> QED
  BY <1>1, StatusInvariant, PTL

-----------------------------------------------------------------------------
(* Refinement. *)

\* The initial state is one of the feed.
LEMMA InitIsFeed == Init => Feed!FeedInit
BY DEF Init, Feed!FeedInit

\* Every step is a step of the feed or leaves it alone.
LEMMA StepIsFeed ==
  ASSUME StatusInv, [Next]_vars
  PROVE  [Feed!FeedNext]_(Feed!feedVars)
<1> USE DEF stream, history, simulation
<1>1. ASSUME NEW o \in Order, PublishStatus(o)
      PROVE  Feed!FeedNext
  <2>1. published[o] + 1 \in 1..LastStatus
    BY <1>1, LastStatusAssumption DEF PublishStatus, StatusInv, TypeOK, LogInv
  <2>2. [order |-> o, status |-> published[o] + 1] \in Update
    BY <2>1 DEF Update
  <2> QED
    BY <1>1, <2>2 DEF PublishStatus, Feed!FeedNext, Feed!Announce
<1>2. ASSUME NEW s \in Sub, Read(s)
      PROVE  Feed!FeedNext
  <2>1. TypeOK /\ PipeInv /\ channel[s] # <<>> /\ channel[s] \in Seq(Position)
    BY <1>2 DEF StatusInv, Read, TypeOK, Position
  <2>2. 1 \in DOMAIN channel[s] /\ Head(channel[s]) = channel[s][1]
    BY <2>1, TailElements
  <2>3. Head(channel[s]) \in DOMAIN log
    BY <2>1, <2>2, PositionsAreLogged
  <2>4. Feed!Ahead(s, Head(channel[s]))
    BY <2>1, <2>2 DEF PipeInv, Before, AllBelow, Feed!Ahead
  <2> QED
    BY <1>2, <2>3, <2>4 DEF Read, Feed!FeedNext, Feed!Hand
<1>3. ASSUME UNCHANGED <<log, got>>
      PROVE  UNCHANGED Feed!feedVars
  BY <1>3 DEF Feed!feedVars
<1>4. CASE Quiet
  BY <1>3, <1>4, QuietKeepsStream
<1> QED
  BY <1>1, <1>2, <1>3, <1>4, Steps
     DEF Subscribe, Dispatch, Send, Abandon, Drop, SendOnClosed, Unsubscribe

\* Publisher, NATS, callback and channel implement the lossy feed.
THEOREM TrackingRefinesFeed == Spec => RefinesFeed
<1>1. Spec => Feed!FeedInit /\ [][Feed!FeedNext]_(Feed!feedVars)
  BY InitIsFeed, StepIsFeed, StatusInvariant, PTL DEF Spec
<1> QED
  BY <1>1 DEF RefinesFeed, Feed!FeedSpec
==============================================================================
