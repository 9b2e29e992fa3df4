--------------------------- MODULE MqttPumpProofs ---------------------------
(***************************************************************************)
(* Where the request queue is long enough, the bridge and drive_eventloop  *)
(* never wait for each other, for any costs and bounds.                    *)
(*                                                                         *)
(* What the bridge publishes is paid for by what it heard: a Connected,    *)
(* a command or a refresh (PublishedAtMost).  For a circular wait the      *)
(* event queue must be full behind a handler; on a connection that is up   *)
(* it is full of commands, or a Connected is among the events and has not  *)
(* been paid out yet (ConnectedIsLast).                                    *)
(***************************************************************************)
EXTENDS MqttPump, FiniteSetTheorems, SequenceTheorems, TLAPS

-----------------------------------------------------------------------------
(* Counting events.                                                        *)

\* A sequence has finitely many places.
LEMMA PlacesFinite ==
  ASSUME NEW s \in Seq(Kinds), NEW k
  PROVE  /\ IsFiniteSet(Places(s, k)) /\ Cardinality(Places(s, k)) \in Nat
         /\ Places(s, k) \subseteq 1..Len(s)
<1>1. Places(s, k) \subseteq 1..Len(s) /\ Len(s) \in Nat
  BY DEF Places
<1>2. IsFiniteSet(1..Len(s))
  BY <1>1, FS_Interval
<1> QED
  BY <1>1, <1>2, FS_Subset, FS_CardinalityType

\* An event that is appended adds to the count of its kind.
LEMMA CountAppended ==
  ASSUME NEW s \in Seq(Kinds), NEW e \in Kinds, NEW k
  PROVE  Cardinality(Places(Append(s, e), k)) =
           Cardinality(Places(s, k)) + (IF e = k THEN 1 ELSE 0)
<1> DEFINE P == Places(s, k)
           n == Len(s) + 1
<1>1. Places(Append(s, e), k) = IF e = k THEN P \cup {n} ELSE P
  BY DEF Places
<1>2. IsFiniteSet(P) /\ Cardinality(P) \in Nat /\ n \notin P
  BY PlacesFinite
<1>3. Cardinality(P \cup {n}) = Cardinality(P) + 1
  BY <1>2, FS_AddElement
<1> HIDE DEF P, n
<1>4. CASE e = k
  BY <1>1, <1>2, <1>3, <1>4 DEF P
<1>5. CASE e # k
  BY <1>1, <1>2, <1>5 DEF P
<1> QED
  BY <1>4, <1>5

\* One that is taken is off the count of its kind: the others move up.
LEMMA CountTaken ==
  ASSUME NEW s \in Seq(Kinds), s # <<>>, NEW k
  PROVE  Cardinality(Places(s, k)) =
           Cardinality(Places(Tail(s), k)) + (IF Head(s) = k THEN 1 ELSE 0)
<1> DEFINE P == Places(s, k)
           T == Places(Tail(s), k)
           f == [i \in T |-> i + 1]
<1>1. /\ Tail(s) \in Seq(Kinds) /\ Len(s) \in Nat /\ 1 \in DOMAIN s /\ Head(s) = s[1]
      /\ DOMAIN s = 1..Len(s) /\ DOMAIN Tail(s) = 1..(Len(s) - 1)
      /\ \A i \in DOMAIN Tail(s) : Tail(s)[i] = s[i + 1]
  OBVIOUS
<1>2. /\ IsFiniteSet(P) /\ Cardinality(P) \in Nat
      /\ IsFiniteSet(T) /\ Cardinality(T) \in Nat
  BY <1>1, PlacesFinite
<1>3. \A i \in T : i \in Nat /\ i + 1 \in P \ {1}
  BY <1>1 DEF Places
<1>4. \A j \in P \ {1} : j - 1 \in T /\ j = (j - 1) + 1
  BY <1>1 DEF Places
<1>5. 1 \in P <=> Head(s) = k
  BY <1>1 DEF Places
<1> HIDE DEF P, T
<1>6. f \in Bijection(T, P \ {1})
  <2>1. f \in [T -> P \ {1}] /\ \A i \in T : f[i] = i + 1
    BY <1>3
  <2>2. \A i, j \in T : f[i] = f[j] => i = j
    BY <1>3, <2>1
  <2>3. \A j \in P \ {1} : \E i \in T : f[i] = j
    BY <1>4, <2>1
  <2> QED
    BY <2>1, <2>2, <2>3 DEF Bijection, Injection, Surjection, IsInjective
<1>7. Cardinality(P \ {1}) = Cardinality(T)
  BY <1>2, <1>6, FS_Bijection DEF ExistsBijection
<1>8. Cardinality(P \ {1}) = IF 1 \in P THEN Cardinality(P) - 1 ELSE Cardinality(P)
  BY <1>2, FS_RemoveElement
<1>9. CASE Head(s) = k
  BY <1>2, <1>5, <1>7, <1>8, <1>9 DEF P, T
<1>10. CASE Head(s) # k
  BY <1>2, <1>5, <1>7, <1>8, <1>10 DEF P, T
<1> QED
  BY <1>9, <1>10

-----------------------------------------------------------------------------
(* What is pending. *)

\* The pump holds an event or none.
LEMMA PumpIs ==
  ASSUME TypeOK
  PROVE  /\ AtPoll.at # "send" /\ Asleep.at # "send"
         /\ \A e : Send(e).at = "send" /\ Send(e).ev = e
         /\ pump.at = "send" => pump.ev \in Kinds
         /\ Pending \in Seq(Kinds)
<1>1. /\ AtPoll.at # "send" /\ Asleep.at # "send"
      /\ \A e : Send(e).at = "send" /\ Send(e).ev = e
  BY DEF AtPoll, Asleep, Send
<1>2. pump.at = "send" => pump.ev \in Kinds
  <2>1. pump \in {AtPoll, Asleep} \/ \E e \in Kinds : pump = Send(e)
    BY DEF TypeOK
  <2> QED
    BY <1>1, <2>1
<1>3. Pending \in Seq(Kinds)
  <2>1. mqtt_rx \in Seq(Kinds)
    BY DEF TypeOK
  <2> QED
    BY <1>2, <2>1 DEF Pending
<1> QED
  BY <1>1, <1>2, <1>3

\* A poll that hears something appends it.
LEMMA Heard ==
  ASSUME TypeOK, Poll, NEW e \in Kinds, pump' = Send(e)
  PROVE  /\ Pending' = Append(Pending, e)
         /\ \A k : Count(k)' = Count(k) + (IF e = k THEN 1 ELSE 0)
<1>1. pump = AtPoll /\ mqtt_rx' = mqtt_rx
  BY DEF Poll
<1>2. Pending' = Append(Pending, e)
  BY <1>1, PumpIs DEF Pending
<1> QED
  BY <1>2, PumpIs, CountAppended DEF Count

\* A handler takes the first one.
LEMMA Taken ==
  ASSUME TypeOK, NEW k, Handles(k)
  PROVE  /\ Pending \in Seq(Kinds) /\ Pending # <<>> /\ Head(Pending) = k /\ Pending' = Tail(Pending)
         /\ \A m : /\ Count(m)' \in Nat
                   /\ Count(m) = Count(m)' + (IF k = m THEN 1 ELSE 0)
<1>1. /\ mqtt_rx # <<>> /\ Head(mqtt_rx) = k /\ mqtt_rx' = Tail(mqtt_rx) /\ pump' = pump
      /\ mqtt_rx \in Seq(Kinds)
  BY DEF Handles, clientVars, TypeOK
<1>2. Pending # <<>> /\ Head(Pending) = k /\ Pending' = Tail(Pending)
  <2>1. CASE pump.at = "send"
    <3>1. pump.ev \in Kinds
      BY <2>1, PumpIs
    <3>2. \A e \in Kinds : /\ Append(mqtt_rx, e) # <<>> /\ Head(Append(mqtt_rx, e)) = Head(mqtt_rx)
                           /\ Tail(Append(mqtt_rx, e)) = Append(Tail(mqtt_rx), e)
      BY <1>1
    <3> QED
      BY <1>1, <2>1, <3>1, <3>2 DEF Pending
  <2>2. CASE pump.at # "send"
    BY <1>1, <2>2 DEF Pending
  <2> QED
    BY <2>1, <2>2
<1>3. Pending \in Seq(Kinds) /\ Tail(Pending) \in Seq(Kinds)
  BY <1>2, PumpIs
<1> QED
  BY <1>2, <1>3, CountTaken, PlacesFinite DEF Count

\* Otherwise it stays: the pump only moves it into the queue.
LEMMA Stays ==
  ASSUME TypeOK, Queues \/ Wakes \/ UNCHANGED <<pump, mqtt_rx>>
  PROVE  Pending' = Pending /\ \A k : Count(k)' = Count(k)
<1>1. Pending' = Pending
  <2>1. CASE Queues
    <3>1. pump' \in {AtPoll, Asleep} /\ pump.at = "send" /\ mqtt_rx' = Append(mqtt_rx, pump.ev)
      BY <2>1 DEF Queues, Put
    <3> QED
      BY <3>1, PumpIs DEF Pending
  <2>2. CASE Wakes
    BY <2>2, PumpIs DEF Wakes, Pending
  <2>3. CASE UNCHANGED <<pump, mqtt_rx>>
    BY <2>3 DEF Pending
  <2> QED
    BY <2>1, <2>2, <2>3
<1> QED
  BY <1>1 DEF Count

-----------------------------------------------------------------------------
(* The invariant. *)

\* The types.
LEMMA TypeStep == ASSUME TypeOK, [Next]_vars PROVE TypeOK'
<1>a. /\ {RequestQueueLen, EventQueueLen, All, Some, MaxOutages, MaxCommands, MaxTicks} \subseteq Nat
      /\ Subscriptions + All \in Nat
  BY QueuesAssumption DEF Subscriptions
<1>k. "Connected" \in Kinds /\ "Disconnected" \in Kinds /\ "Command" \in Kinds
  BY DEF Kinds
<1>1. CASE BrokerStops
  <2>1. outages \in 0..MaxOutages /\ outages < MaxOutages /\ outages' = outages + 1
    BY <1>1 DEF BrokerStops, TypeOK
  <2>2. outages' \in 0..MaxOutages
    BY <1>a, <2>1
  <2>3. broker' = FALSE /\ conn' \in {"none", "up", "lost"}
    BY <1>1 DEF BrokerStops, TypeOK
  <2>4. UNCHANGED <<requests, pump, mqtt_rx, mqtt_up, todo, ticks, commands>>
    BY <1>1 DEF BrokerStops, bridgeVars
  <2> QED
    BY <2>2, <2>3, <2>4 DEF TypeOK
<1>2. CASE BrokerStarts
  BY <1>2 DEF BrokerStarts, clientVars, bridgeVars, TypeOK
<1>3. CASE PollConnects \/ PollFails \/ PollSends \/ PollHears
  <2>1. /\ pump' = pump \/ \E e \in Kinds : pump' = Send(e)
        /\ UNCHANGED <<broker, outages, mqtt_rx, mqtt_up, todo, ticks>>
    BY <1>3, <1>k DEF PollConnects, PollFails, PollSends, PollHears, Poll, worldVars, bridgeVars, clientVars
  <2>2. requests' \in Nat
    BY <1>3 DEF PollConnects, PollFails, PollSends, PollHears, clientVars, TypeOK
  <2>3. conn' \in {"none", "up", "lost"}
    BY <1>3 DEF PollConnects, PollFails, PollSends, PollHears, clientVars, TypeOK
  <2>4. commands' \in 0..MaxCommands
    <3>1. commands' = commands \/ (commands < MaxCommands /\ commands' = commands + 1)
      BY <1>3 DEF PollConnects, PollFails, PollSends, PollHears
    <3>2. commands \in 0..MaxCommands
      BY DEF TypeOK
    <3> QED
      BY <1>a, <3>1, <3>2
  <2>5. pump' \in {AtPoll, Asleep} \cup {Send(ev) : ev \in Kinds}
    BY <2>1 DEF TypeOK
  <2> QED
    BY <2>1, <2>2, <2>3, <2>4, <2>5 DEF TypeOK
<1>4. CASE Queues \/ Wakes
  <2>1. /\ pump' \in {AtPoll, Asleep}
        /\ UNCHANGED <<broker, outages, conn, requests, mqtt_up, todo, ticks, commands>>
    BY <1>4 DEF Queues, Wakes, worldVars, clientVars, bridgeVars
  <2>2. \/ mqtt_rx' = mqtt_rx
        \/ pump.ev \in Kinds /\ mqtt_rx' = Append(mqtt_rx, pump.ev)
    BY <1>4, PumpIs DEF Queues, Wakes, Put
  <2>3. mqtt_rx' \in Seq(Kinds)
    BY <2>2 DEF TypeOK
  <2> QED
    BY <2>1, <2>3 DEF TypeOK
<1>5. CASE OnConnected \/ OnDisconnected \/ OnCommand
  <2>1. /\ mqtt_rx # <<>> /\ mqtt_rx' = Tail(mqtt_rx)
        /\ UNCHANGED <<broker, outages, conn, requests, pump, commands, ticks>>
    BY <1>5 DEF OnConnected, OnDisconnected, OnCommand, Handles, worldVars, clientVars
  <2>2. todo' \in Nat /\ mqtt_up' \in BOOLEAN
    <3>1. todo' \in {0, Subscriptions + All, Some}
      BY <1>5 DEF OnConnected, OnDisconnected, OnCommand, Publishes
    <3>2. mqtt_up' \in BOOLEAN
      BY <1>5 DEF OnConnected, OnDisconnected, OnCommand, TypeOK
    <3> QED
      BY <1>a, <3>1, <3>2
  <2>3. mqtt_rx' \in Seq(Kinds)
    BY <2>1 DEF TypeOK
  <2> QED
    BY <2>1, <2>2, <2>3 DEF TypeOK
<1>6. CASE PublishesOne
  BY <1>6 DEF PublishesOne, worldVars, TypeOK
<1>7. CASE OnTick
  BY <1>7, <1>a DEF OnTick, Publishes, worldVars, clientVars, TypeOK
<1>8. CASE UNCHANGED vars
  BY <1>8 DEF vars, worldVars, clientVars, bridgeVars, TypeOK
<1> QED
  BY <1>1, <1>2, <1>3, <1>4, <1>5, <1>6, <1>7, <1>8 DEF Next, Pump, Handler

\* Commands that are heard are counted.
LEMMA CommandsStep ==
  ASSUME TypeOK, Count("Command") <= commands, [Next]_vars
  PROVE  Count("Command")' <= commands'
<1>t. Count("Command") \in Nat /\ commands \in Nat
  BY PumpIs, PlacesFinite DEF Count, TypeOK
<1>1. CASE PollConnects \/ PollFails
  <2>1. \/ Poll /\ pump' = Send("Connected") /\ commands' = commands
        \/ Poll /\ pump' = Send("Disconnected") /\ commands' = commands
    BY <1>1 DEF PollConnects, PollFails
  <2> QED
    BY <1>t, <2>1, Heard DEF Kinds
<1>2. CASE PollHears
  <2>1. Poll /\ pump' = Send("Command") /\ commands' = commands + 1
    BY <1>2 DEF PollHears
  <2>2. Count("Command")' = Count("Command") + 1
    BY <2>1, Heard DEF Kinds
  <2> QED
    BY <1>t, <2>1, <2>2
<1>3. CASE OnConnected \/ OnDisconnected \/ OnCommand
  <2>1. PICK k : Handles(k)
    BY <1>3 DEF OnConnected, OnDisconnected, OnCommand
  <2>2. /\ Count("Command")' \in Nat
        /\ Count("Command") = Count("Command")' + (IF k = "Command" THEN 1 ELSE 0)
    BY <2>1, Taken
  <2>3. commands' = commands
    BY <2>1 DEF Handles
  <2> QED
    BY <1>t, <2>2, <2>3
<1>4. CASE BrokerStops \/ BrokerStarts \/ PollSends \/ Queues \/ Wakes \/ PublishesOne \/ OnTick
           \/ UNCHANGED vars
  <2>1. (Queues \/ Wakes \/ UNCHANGED <<pump, mqtt_rx>>) /\ commands' = commands
    BY <1>4 DEF BrokerStops, BrokerStarts, PollSends, Queues, Wakes, PublishesOne, OnTick, Poll, vars
  <2> QED
    BY <2>1, Stays
<1> QED
  BY <1>1, <1>2, <1>3, <1>4 DEF Next, Pump, Handler

\* A connection begins with its Connected, and its end is heard of when it is over.
LEMMA ConnectedStep ==
  ASSUME TypeOK, ConnectedIsLast, [Next]_vars
  PROVE  ConnectedIsLast'
<1>p. Pending \in Seq(Kinds)
  BY PumpIs
<1>1. CASE PollConnects
  <2>1. Poll /\ pump' = Send("Connected")
    BY <1>1 DEF PollConnects
  <2>2. Pending' = Append(Pending, "Connected")
    BY <2>1, Heard DEF Kinds
  <2>3. ASSUME NEW e \in Kinds
        PROVE  \A i \in DOMAIN Append(Pending, e) :
                  \/ Append(Pending, e)[i] = e
                  \/ /\ i < Len(Pending) + 1 /\ Len(Pending) + 1 \in DOMAIN Append(Pending, e)
                     /\ Append(Pending, e)[Len(Pending) + 1] = e
    BY <1>p
  <2> QED
    BY <2>2, <2>3 DEF ConnectedIsLast, Kinds
<1>2. CASE PollFails
  BY <1>2 DEF PollFails, ConnectedIsLast
<1>3. CASE PollHears
  <2>1. Poll /\ pump' = Send("Command") /\ conn' = conn
    BY <1>3 DEF PollHears, clientVars
  <2>2. Pending' = Append(Pending, "Command")
    BY <2>1, Heard DEF Kinds
  <2>3. ASSUME NEW e \in Kinds
        PROVE  /\ \A i \in DOMAIN Append(Pending, e) :
                     Append(Pending, e)[i] = e \/ (i \in DOMAIN Pending /\ Append(Pending, e)[i] = Pending[i])
               /\ \A i \in DOMAIN Pending :
                     i \in DOMAIN Append(Pending, e) /\ Append(Pending, e)[i] = Pending[i]
    BY <1>p
  <2> QED
    BY <2>1, <2>2, <2>3 DEF ConnectedIsLast, Kinds
<1>4. CASE OnConnected \/ OnDisconnected \/ OnCommand
  <2>1. PICK k : Handles(k)
    BY <1>4 DEF OnConnected, OnDisconnected, OnCommand
  <2>2. Pending # <<>> /\ Pending' = Tail(Pending) /\ conn' = conn
    BY <2>1, Taken DEF Handles, clientVars
  <2>3. /\ \A i \in DOMAIN Tail(Pending) : i + 1 \in DOMAIN Pending /\ Tail(Pending)[i] = Pending[i + 1]
        /\ \A i \in DOMAIN Tail(Pending), j \in DOMAIN Pending :
             i + 1 < j => /\ j - 1 \in DOMAIN Tail(Pending) /\ i < j - 1
                          /\ Tail(Pending)[j - 1] = Pending[j]
    BY <1>p, <2>2
  <2> QED
    BY <2>2, <2>3 DEF ConnectedIsLast
<1>5. CASE BrokerStops \/ BrokerStarts \/ PollSends \/ Queues \/ Wakes \/ PublishesOne \/ OnTick
           \/ UNCHANGED vars
  <2>1. Queues \/ Wakes \/ UNCHANGED <<pump, mqtt_rx>>
    BY <1>5 DEF BrokerStops, BrokerStarts, PollSends, PublishesOne, OnTick, Poll, vars
  <2>2. conn' = "up" => conn = "up"
    BY <1>5 DEF BrokerStops, BrokerStarts, PollSends, Queues, Wakes, PublishesOne, OnTick, Poll,
                clientVars, vars
  <2> QED
    BY <2>1, <2>2, Stays DEF ConnectedIsLast
<1> QED
  BY <1>1, <1>2, <1>3, <1>4, <1>5 DEF Next, Pump, Handler

\* Both sides of the balance.
Debit(r, c, d)  == r + c * Greeting + d * Some
Credit(n, m, t) == n * Greeting + m * Some + t * All
Connections     == IF conn = "up" THEN outages + 1 ELSE outages

\* What one more of each kind is worth.
LEMMA Worths == Greeting \in Nat /\ Some \in Nat /\ All \in Nat
  BY QueuesAssumption DEF Greeting, Subscriptions

\* A product with one more.
LEMMA OneMore ==
  ASSUME NEW c \in Nat, NEW g \in Nat
  PROVE  c * g \in Nat /\ (c + 1) * g = c * g + g
  OBVIOUS

\* What one more request, connection or command adds to the debit.
LEMMA DebitIs ==
  ASSUME NEW r \in Nat, NEW c \in Nat, NEW d \in Nat
  PROVE  /\ Debit(r, c, d) \in Nat
         /\ \A k \in Nat : Debit(r + k, c, d) = Debit(r, c, d) + k
         /\ Debit(r, c + 1, d) = Debit(r, c, d) + Greeting
         /\ Debit(r, c, d + 1) = Debit(r, c, d) + Some
  BY Worths, OneMore DEF Debit

\* The debit is no less than the requests in it.
LEMMA DebitAtLeast ==
  ASSUME NEW r \in Nat, NEW c \in Nat, NEW d \in Nat
  PROVE  Debit(r, c, d) \in Nat /\ Debit(r, c, d) >= r
<1>1. c * Greeting \in Nat /\ d * Some \in Nat
  BY Worths, OneMore
<1> QED
  BY <1>1 DEF Debit

\* Who is done with publishing what he may has not spent more.
LEMMA Spent ==
  ASSUME NEW r \in Nat, NEW c \in Nat, NEW d \in Nat, NEW k \in Nat
  PROVE  /\ k <= Greeting => Debit(r + k, c, d) <= Debit(r, c + 1, d)
         /\ k <= Some => Debit(r + k, c, d) <= Debit(r, c, d + 1)
         /\ k <= All => Debit(r + k, c, d) <= Debit(r, c, d) + All
<1> DEFINE B == Debit(r, c, d)
<1>1. /\ B \in Nat /\ Debit(r + k, c, d) = B + k
      /\ Debit(r, c + 1, d) = B + Greeting /\ Debit(r, c, d + 1) = B + Some
  BY DebitIs
<1> HIDE DEF B
<1>2. /\ k <= Greeting => B + k <= B + Greeting
      /\ k <= Some => B + k <= B + Some
      /\ k <= All => B + k <= B + All
  BY <1>1, Worths
<1> QED
  BY <1>1, <1>2 DEF B

\* What one more connection, command or refresh adds to the credit.
LEMMA CreditIs ==
  ASSUME NEW n \in Nat, NEW m \in Nat, NEW t \in Nat
  PROVE  /\ Credit(n, m, t) \in Nat
         /\ Credit(n + 1, m, t) = Credit(n, m, t) + Greeting
         /\ Credit(n, m + 1, t) = Credit(n, m, t) + Some
         /\ Credit(n, m, t + 1) = Credit(n, m, t) + All
  BY Worths, OneMore DEF Credit

\* What is published is paid for.
LEMMA BalanceStep ==
  ASSUME TypeOK, PublishedAtMost, [Next]_vars
  PROVE  PublishedAtMost'
<1> DEFINE C == Count("Connected")
           D == Count("Command")
<1>t. /\ requests \in Nat /\ todo \in Nat /\ outages \in Nat /\ commands \in Nat /\ ticks \in Nat
      /\ C \in Nat /\ D \in Nat /\ Connections \in Nat /\ requests + todo \in Nat
  BY PumpIs, PlacesFinite DEF Count, Connections, TypeOK
<1>r. \A k \in Nat : requests + k \in Nat
  BY <1>t
<1>b. Debit(requests + todo, C, D) <= Credit(Connections, commands, ticks)
  BY DEF PublishedAtMost, Debit, Credit, Connections
<1>k. /\ \A k : k = "Connected" => k # "Command"
      /\ "Disconnected" # "Command" /\ "Disconnected" # "Connected"
  OBVIOUS
<1> SUFFICES Debit((requests + todo)', C', D') <= Credit(Connections', commands', ticks')
  BY DEF PublishedAtMost, Debit, Credit, Connections
<1> HIDE DEF C, D
<1> DEFINE R == requests + todo
           B == Debit(R, C, D)
           K == Credit(Connections, commands, ticks)
<1>d. /\ B \in Nat /\ Debit(R, C + 1, D) = B + Greeting /\ Debit(R, C, D + 1) = B + Some
  <2>1. R \in Nat
    BY <1>t
  <2> HIDE DEF R
  <2> QED
    BY <1>t, <2>1, DebitIs
<1>c. /\ K \in Nat /\ Credit(Connections + 1, commands, ticks) = K + Greeting
      /\ Credit(Connections, commands + 1, ticks) = K + Some
      /\ Credit(Connections, commands, ticks + 1) = K + All
  BY <1>t, CreditIs
<1>1. CASE BrokerStops
  <2>1. /\ conn' # "up" /\ outages' = outages + 1
        /\ UNCHANGED <<pump, mqtt_rx, requests, todo, ticks, commands>>
    BY <1>1 DEF BrokerStops, bridgeVars
  <2>2. C' = C /\ D' = D
    BY <2>1, Stays DEF C, D
  <2>3. Connections' = Connections \/ Connections' = Connections + 1
    BY <1>t, <2>1 DEF Connections
  <2>4. Credit(Connections', commands, ticks) >= K
    BY <1>c, <2>3, Worths
  <2>5. Credit(Connections', commands, ticks) \in Nat
    BY <1>c, <2>3, Worths
  <2> QED
    BY <1>b, <1>c, <1>d, <2>1, <2>2, <2>4, <2>5
<1>2. CASE BrokerStarts \/ Queues \/ Wakes \/ UNCHANGED vars
  <2>1. /\ Queues \/ Wakes \/ UNCHANGED <<pump, mqtt_rx>>
        /\ UNCHANGED <<conn, outages, requests, todo, ticks, commands>>
    BY <1>2 DEF BrokerStarts, Queues, Wakes, worldVars, clientVars, bridgeVars, vars
  <2>2. C' = C /\ D' = D
    BY <2>1, Stays DEF C, D
  <2> QED
    BY <1>b, <2>1, <2>2 DEF Connections
<1>3. CASE PollConnects
  <2>1. /\ Poll /\ pump' = Send("Connected") /\ Connections' = Connections + 1
        /\ UNCHANGED <<requests, todo, ticks, commands>>
    BY <1>3 DEF PollConnects, Poll, worldVars, bridgeVars, Connections
  <2>2. C' = C + 1 /\ D' = D
    BY <1>t, <2>1, Heard DEF C, D, Kinds
  <2> QED
    BY <1>b, <1>c, <1>d, <2>1, <2>2, Worths
<1>4. CASE PollFails
  <2>1. /\ Poll /\ pump' = Send("Disconnected") /\ Connections' = Connections
        /\ requests' \in {0, requests} /\ UNCHANGED <<todo, ticks, commands>>
    BY <1>4 DEF PollFails, Poll, worldVars, bridgeVars, Connections
  <2>2. C' = C /\ D' = D
    BY <1>t, <2>1, Heard DEF C, D, Kinds
  <2>3. Debit(todo + requests, C, D) = Debit(todo, C, D) + requests /\ Debit(todo, C, D) \in Nat
    BY <1>t, DebitIs
  <2>4. requests + todo = todo + requests /\ 0 + todo = todo
    BY <1>t
  <2>5. Debit(todo, C, D) <= K
    BY <1>b, <1>c, <1>t, <2>3, <2>4
  <2> QED
    BY <1>b, <2>1, <2>2, <2>4, <2>5
<1>5. CASE PollSends
  <2>1. /\ requests > 0 /\ requests' = requests - 1
        /\ UNCHANGED <<conn, outages, pump, mqtt_rx, todo, ticks, commands>>
    BY <1>5 DEF PollSends, Poll, worldVars, bridgeVars
  <2>2. C' = C /\ D' = D /\ Connections' = Connections
    BY <2>1, Stays DEF C, D, Connections
  <2>3. (requests + todo)' \in Nat /\ requests + todo = (requests + todo)' + 1
    BY <1>t, <2>1
  <2>4. ASSUME NEW r \in Nat
        PROVE  Debit(r + 1, C, D) = Debit(r, C, D) + 1 /\ Debit(r, C, D) \in Nat
    BY <1>t, DebitIs
  <2> QED
    BY <1>b, <1>c, <2>1, <2>2, <2>3, <2>4
<1>6. CASE PollHears
  <2>1. /\ Poll /\ pump' = Send("Command") /\ commands' = commands + 1
        /\ UNCHANGED <<conn, outages, requests, todo, ticks>>
    BY <1>6 DEF PollHears, Poll, worldVars, clientVars, bridgeVars
  <2>2. C' = C /\ D' = D + 1 /\ Connections' = Connections
    BY <1>t, <2>1, Heard DEF C, D, Kinds, Connections
  <2> QED
    BY <1>b, <1>c, <1>d, <2>1, <2>2, Worths
<1>7. CASE OnConnected \/ OnDisconnected \/ OnCommand
  <2>0. /\ \E k : Handles(k)
        /\ UNCHANGED <<conn, outages, requests, commands, ticks>> /\ todo = 0
    BY <1>7 DEF OnConnected, OnDisconnected, OnCommand, Handles, worldVars, clientVars
  <2>1. /\ C' \in Nat /\ D' \in Nat /\ C' <= C /\ D' <= D
        /\ OnConnected => C = C' + 1
        /\ OnCommand => D = D' + 1
    <3>1. ASSUME NEW k, Handles(k)
          PROVE  /\ C' \in Nat /\ D' \in Nat
                 /\ C = C' + (IF k = "Connected" THEN 1 ELSE 0)
                 /\ D = D' + (IF k = "Command" THEN 1 ELSE 0)
      BY <3>1, Taken DEF C, D
    <3> QED
      BY <1>t, <2>0, <3>1 DEF OnConnected, OnCommand
  <2>2. Connections' = Connections /\ requests + todo = requests
    BY <1>t, <2>0 DEF Connections
  <2>3. ASSUME NEW g \in Nat, todo' \in {0, g}
        PROVE  todo' \in Nat /\ todo' <= g
    BY <2>3
  <2>5. CASE OnConnected
    <3>1. todo' \in {0, Greeting} /\ C = C' + 1 /\ D' = D
      BY <1>t, <2>1, <2>5, Taken DEF OnConnected, Publishes, Greeting, C, D
    <3>2. todo' \in Nat /\ todo' <= Greeting
      BY <2>3, <3>1, Worths
    <3>3. Debit(requests + todo', C', D') <= Debit(requests, C, D)
      BY <1>t, <2>1, <3>1, <3>2, Spent
    <3>4. Debit(requests + todo', C', D') \in Nat
      <4>1. requests + todo' \in Nat
        BY <1>r, <3>2
      <4> QED
        BY <1>t, <2>1, <4>1, DebitIs
    <3> QED
      BY <1>b, <1>c, <1>d, <2>0, <2>2, <3>3, <3>4
  <2>6. CASE OnCommand
    <3>1. todo' \in {0, Some} /\ D = D' + 1 /\ C' = C
      BY <1>t, <2>1, <2>6, Taken DEF OnCommand, Publishes, Greeting, C, D
    <3>2. todo' \in Nat /\ todo' <= Some
      BY <2>3, <3>1, Worths
    <3>3. Debit(requests + todo', C', D') <= Debit(requests, C, D)
      BY <1>t, <2>1, <3>1, <3>2, Spent
    <3>4. Debit(requests + todo', C', D') \in Nat
      <4>1. requests + todo' \in Nat
        BY <1>r, <3>2
      <4> QED
        BY <1>t, <2>1, <4>1, DebitIs
    <3> QED
      BY <1>b, <1>c, <1>d, <2>0, <2>2, <3>3, <3>4
  <2>7. CASE OnDisconnected
    <3>1. todo' = 0 /\ C' = C /\ D' = D
      BY <1>t, <2>7, Taken, <1>k, <2>1 DEF OnDisconnected, Publishes, C, D
    <3> QED
      BY <1>b, <2>0, <2>2, <3>1
  <2> QED
    BY <1>7, <2>5, <2>6, <2>7
<1>8. CASE PublishesOne
  <2>1. /\ todo > 0 /\ requests' = requests + 1 /\ todo' = todo - 1
        /\ UNCHANGED <<conn, outages, pump, mqtt_rx, ticks, commands>>
    BY <1>8 DEF PublishesOne, worldVars
  <2>2. C' = C /\ D' = D /\ Connections' = Connections
    BY <2>1, Stays DEF C, D, Connections
  <2>3. (requests + todo)' = requests + todo
    BY <1>t, <2>1
  <2> QED
    BY <1>b, <2>1, <2>2, <2>3
<1>9. CASE OnTick
  <2>1. /\ todo = 0 /\ todo' \in {0, All} /\ ticks' = ticks + 1
        /\ UNCHANGED <<conn, outages, pump, mqtt_rx, requests, commands>>
    BY <1>9 DEF OnTick, Publishes, worldVars, clientVars
  <2>2. C' = C /\ D' = D /\ Connections' = Connections
    BY <2>1, Stays DEF C, D, Connections
  <2>3. todo' \in Nat /\ todo' <= All /\ requests + todo = requests
    BY <1>t, <2>1, Worths
  <2>4. Debit(requests + todo', C, D) <= Debit(requests, C, D) + All
    BY <1>t, <2>3, Spent
  <2>5. Debit(requests + todo', C, D) \in Nat
    <3>1. requests + todo' \in Nat
      BY <1>r, <2>3
    <3> QED
      BY <1>t, <3>1, DebitIs
  <2> QED
    BY <1>b, <1>c, <1>d, <2>1, <2>2, <2>3, <2>4, <2>5, Worths
<1> QED
  BY <1>1, <1>2, <1>3, <1>4, <1>5, <1>6, <1>7, <1>8, <1>9 DEF Next, Pump, Handler

\* The inductive invariant: all that is published is accounted for by a connection,
\* a command or a refresh (bridge.rs on_mqtt_event, drive_eventloop).
THEOREM PumpInvariance == Spec => []PumpInv
<1>1. Init => PumpInv
  <2> SUFFICES ASSUME Init PROVE PumpInv
    OBVIOUS
  <2>1. /\ pump = AtPoll /\ mqtt_rx = <<>> /\ conn = "none" /\ broker = TRUE /\ mqtt_up = FALSE
        /\ requests = 0 /\ todo = 0 /\ outages = 0 /\ commands = 0 /\ ticks = 0
    BY DEF Init
  <2>2. TypeOK
    <3>1. {MaxOutages, MaxCommands, MaxTicks} \subseteq Nat
      BY QueuesAssumption
    <3>2. mqtt_rx \in Seq(Kinds) /\ pump \in {AtPoll, Asleep}
      BY <2>1
    <3>3. outages \in 0..MaxOutages /\ commands \in 0..MaxCommands /\ ticks \in 0..MaxTicks
      BY <2>1, <3>1
    <3> QED
      BY <2>1, <3>2, <3>3 DEF TypeOK
  <2>3. Pending = <<>>
    BY <2>1, <2>2, PumpIs DEF Pending
  <2>4. \A k : Count(k) = 0
    <3>1. \A k : Places(<<>>, k) = {}
      BY DEF Places
    <3> QED
      BY <2>3, <3>1, FS_EmptySet DEF Count
  <2>5. PublishedAtMost
    <3>1. Greeting \in Nat /\ Some \in Nat /\ All \in Nat
      BY Worths
    <3> QED
      BY <2>1, <2>4, <3>1 DEF PublishedAtMost
  <2>6. ConnectedIsLast
    BY <2>1 DEF ConnectedIsLast
  <2> QED
    BY <2>1, <2>2, <2>4, <2>5, <2>6 DEF PumpInv
<1>2. PumpInv /\ [Next]_vars => PumpInv'
  BY TypeStep, CommandsStep, ConnectedStep, BalanceStep DEF PumpInv
<1> QED
  BY <1>1, <1>2, PTL DEF Spec

\* A larger number of connections, commands and refreshes brings more.
LEMMA CreditGrows ==
  ASSUME NEW n \in Nat, NEW N \in Nat, n <= N, NEW m \in Nat, NEW M \in Nat, m <= M,
         NEW t \in Nat, NEW T \in Nat, t <= T
  PROVE  Credit(n, m, t) <= Credit(N, M, T)
<1>1. ASSUME NEW a \in Nat, NEW b \in Nat, a <= b, NEW g \in Nat
      PROVE  a * g \in Nat /\ b * g \in Nat /\ a * g <= b * g
  <2>1. b - a \in Nat /\ b * g = a * g + (b - a) * g
    BY <1>1
  <2>2. \A x, y \in Nat : x * y \in Nat
    OBVIOUS
  <2>3. a * g \in Nat /\ b * g \in Nat /\ (b - a) * g \in Nat
    BY <2>1, <2>2
  <2> HIDE <2>2
  <2> QED
    BY <2>1, <2>3
<1>2. /\ n * Greeting \in Nat /\ N * Greeting \in Nat /\ n * Greeting <= N * Greeting
      /\ m * Some \in Nat /\ M * Some \in Nat /\ m * Some <= M * Some
      /\ t * All \in Nat /\ T * All \in Nat /\ t * All <= T * All
  BY <1>1, Worths
<1> QED
  BY <1>2 DEF Credit

\* On a connection that is up, an event queue that commands cannot fill has a
\* Connected among its events.
LEMMA ConnectedWaits ==
  ASSUME PumpInv, conn = "up", pump.at = "send", Len(mqtt_rx) = EventQueueLen,
         MaxCommands <= EventQueueLen
  PROVE  Count("Connected") >= 1
<1>1. /\ Pending \in Seq(Kinds) /\ pump.ev \in Kinds /\ mqtt_rx \in Seq(Kinds)
      /\ commands \in 0..MaxCommands /\ Count("Command") <= commands
      /\ EventQueueLen \in Nat /\ MaxCommands \in Nat
  BY PumpIs, QueuesAssumption DEF PumpInv, TypeOK
<1>2. Len(Pending) = EventQueueLen + 1 /\ DOMAIN Pending = 1..(EventQueueLen + 1)
  BY <1>1 DEF Pending
<1>3. Count("Connected") \in Nat
  BY <1>1, PlacesFinite DEF Count
<1> SUFFICES ASSUME Count("Connected") = 0 PROVE FALSE
  BY <1>3
<1>4. Places(Pending, "Connected") = {}
  BY <1>1, PlacesFinite, FS_EmptySet DEF Count
<1>5. \A i \in DOMAIN Pending : Pending[i] = "Command"
  BY <1>1, <1>4 DEF PumpInv, ConnectedIsLast, Places, Kinds
<1>6. Places(Pending, "Command") = 1..(EventQueueLen + 1)
  BY <1>2, <1>5 DEF Places
<1>7. Cardinality(1..(EventQueueLen + 1)) = EventQueueLen + 1
  BY <1>1, FS_Interval
<1> QED
  BY <1>1, <1>6, <1>7 DEF Count

\* Where requests fit, room in the request queue is left whenever the event queue
\* is full: the bridge and drive_eventloop never wait for each other, and the bridge
\* goes on after any outage (bridge.rs publish, drive_eventloop).
THEOREM NoDeadlock ==
  ASSUME RequestsFit
  PROVE  Spec => []NoCircularWait
<1>1. PumpInv => NoCircularWait
  <2> SUFFICES ASSUME PumpInv, pump.at = "send", Len(mqtt_rx) = EventQueueLen,
                      todo > 0, requests = RequestQueueLen
               PROVE  FALSE
    BY DEF NoCircularWait
  <2> DEFINE C == Count("Connected")
             D == Count("Command")
             greeted == IF MaxCommands <= EventQueueLen THEN MaxOutages ELSE MaxOutages + 1
  <2>1. /\ TypeOK /\ todo \in Nat /\ RequestQueueLen \in Nat
        /\ outages \in Nat /\ commands \in Nat /\ ticks \in Nat
        /\ outages <= MaxOutages /\ commands <= MaxCommands /\ ticks <= MaxTicks
        /\ MaxOutages \in Nat /\ MaxCommands \in Nat /\ MaxTicks \in Nat /\ EventQueueLen \in Nat
    BY QueuesAssumption DEF PumpInv, TypeOK
  <2>2. C \in Nat /\ D \in Nat
    BY <2>1, PumpIs, PlacesFinite DEF Count
  <2>3. Debit(requests + todo, C, D) <= Credit(Connections, commands, ticks)
    BY DEF PumpInv, PublishedAtMost, Debit, Credit, Connections
  <2>4. C = 0 => Connections <= greeted
    BY <2>1, ConnectedWaits DEF Connections
  <2>5. Connections <= MaxOutages + 1 /\ Connections \in Nat /\ greeted \in Nat
        /\ MaxOutages <= greeted
    BY <2>1 DEF Connections
  <2>6. Credit(greeted, MaxCommands, MaxTicks) <= RequestQueueLen
    BY DEF RequestsFit, Credit
  <2> HIDE DEF C, D, greeted
  <2>7. \A n \in Nat : n <= greeted => Credit(n, commands, ticks) <= RequestQueueLen
    <3>1. ASSUME NEW n \in Nat, n <= greeted
          PROVE  /\ Credit(n, commands, ticks) <= Credit(greeted, MaxCommands, MaxTicks)
                 /\ Credit(n, commands, ticks) \in Nat /\ Credit(greeted, MaxCommands, MaxTicks) \in Nat
      BY <2>1, <2>5, <3>1, CreditGrows, CreditIs
    <3> QED
      BY <2>1, <2>6, <3>1
  <2> DEFINE R == requests + todo
  <2>8. R \in Nat /\ R > RequestQueueLen
    BY <2>1
  <2> HIDE DEF R
  <2>9. ASSUME NEW c \in Nat
        PROVE  Debit(R, c, D) \in Nat /\ Debit(R, c, D) >= R
    BY <2>2, <2>8, <2>9, DebitAtLeast
  <2>10. CASE C = 0
    <3>1. Credit(Connections, commands, ticks) <= RequestQueueLen
      BY <2>4, <2>5, <2>7, <2>10
    <3>2. Debit(R, C, D) \in Nat /\ Debit(R, C, D) >= R
      BY <2>2, <2>9
    <3>3. Credit(Connections, commands, ticks) \in Nat
      BY <2>1, <2>5, CreditIs
    <3> QED
      BY <2>1, <2>3, <2>8, <3>1, <3>2, <3>3 DEF R
  <2>11. CASE C # 0
    <3>1. C - 1 \in Nat /\ C = (C - 1) + 1
      BY <2>2, <2>11
    <3>2. PICK c \in Nat : C = c + 1
      BY <3>1
    <3>a. c \in Nat /\ D \in Nat /\ R \in Nat
      BY <2>2, <2>8, <3>2
    <3>3. Debit(R, c + 1, D) = Debit(R, c, D) + Greeting
      BY <3>a, DebitIs
    <3>4. Debit(R, c, D) \in Nat /\ Debit(R, c, D) >= R
      BY <2>9
    <3>5. Debit(R, c, D) + Greeting <= Credit(Connections, commands, ticks)
      BY <2>3, <3>2, <3>3 DEF R
    <3>6. CASE Connections = 0
      <4>1. Credit(0, commands, ticks) <= RequestQueueLen /\ Credit(0, commands, ticks) \in Nat
        <5>1. 0 \in Nat /\ 0 <= greeted /\ commands \in Nat /\ ticks \in Nat
          BY <2>1, <2>5
        <5> QED
          BY <2>7, <5>1, CreditIs
      <4> QED
        BY <2>1, <2>8, <3>4, <3>5, <3>6, <4>1, Worths
    <3>7. CASE Connections # 0
      <4>1. PICK n \in Nat : Connections = n + 1
        <5>1. Connections - 1 \in Nat /\ Connections = (Connections - 1) + 1
          BY <2>5, <3>7
        <5> QED
          BY <5>1
      <4>2. n <= greeted
        BY <2>1, <2>5, <4>1
      <4>3. Credit(n + 1, commands, ticks) = Credit(n, commands, ticks) + Greeting
        BY <2>1, CreditIs
      <4>4. Credit(n, commands, ticks) <= RequestQueueLen /\ Credit(n, commands, ticks) \in Nat
        BY <2>1, <2>7, <4>2, CreditIs
      <4> QED
        BY <2>1, <2>8, <3>4, <3>5, <4>1, <4>3, <4>4, Worths
    <3> QED
      BY <3>6, <3>7
  <2> QED
    BY <2>10, <2>11
<1> QED
  BY <1>1, PumpInvariance, PTL
=============================================================================
