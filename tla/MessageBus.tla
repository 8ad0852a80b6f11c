------------------------------ MODULE MessageBus ------------------------------
(***************************************************************************)
(* The MQTT client of internal/controller/messaging/client.py as its users *)
(* see it: topics they subscribe to, each with a queue that a callback     *)
(* fills, answers they publish, and a link to the broker that may go down  *)
(* and come back.  paho-mqtt and the broker are external: a QoS 0 message  *)
(* is delivered at once or not at all, and a broker keeps the topics of a  *)
(* client for one connection only when the session is clean, the default.  *)
(***************************************************************************)
EXTENDS Naturals, Sequences

CONSTANTS
  Topic,          \* what the service subscribes to
  Request,        \* messages others publish on these topics
  Room,           \* the size of each topic's queue; Unbounded for none
  Unbounded,
  CleanSession,   \* MQTTClientOptions.clean_session
  Flaps           \* bound: how often the link goes down

ASSUME BusAssumption ==
  /\ Unbounded \notin Nat
  /\ Room \in [Topic -> Nat \union {Unbounded}]
  /\ CleanSession \in BOOLEAN
  /\ Flaps \in Nat

VARIABLES
  link,       \* the connection: up, down, or closed by disconnect()
  session,    \* the topics the broker sends to this client
  handlers,   \* the topics with a message callback in paho
  existing,   \* MqttMessageClient._existing_subscriptions
  queue,      \* the queue of each topic
  answers,    \* what has been published to each requester, in order
  flaps       \* history: how often the link has gone down

busVars == <<link, session, handlers, existing, queue, answers, flaps>>

Up == link = "up"

BusTypeOK ==
  /\ link \in {"up", "down", "closed"}
  /\ session \subseteq Topic
  /\ handlers \subseteq Topic
  /\ existing \subseteq handlers
  /\ \A t \in Topic :
       /\ queue[t] \in Seq(Request)
       /\ Room[t] # Unbounded => Len(queue[t]) <= Room[t]
  /\ DOMAIN answers = Request
  /\ flaps \in 0..Flaps

\* The service starts with a client that is connected, or with none at all.
BusInit ==
  /\ link = "up"
  /\ session = {}
  /\ handlers = {}
  /\ existing = {}
  /\ queue = [t \in Topic |-> <<>>]
  /\ answers = [r \in Request |-> <<>>]
  /\ flaps = 0

\* A subscription adds the callback first and is remembered only if it was sent;
\* the caller is not told.
Subscribe(t) ==
  /\ handlers' = handlers \union {t}
  /\ session' = IF Up THEN session \union {t} ELSE session
  /\ existing' = IF Up THEN existing \union {t} ELSE existing
  /\ UNCHANGED <<link, queue, answers, flaps>>

LinkDown ==
  /\ Up /\ flaps < Flaps
  /\ link' = "down"
  /\ flaps' = flaps + 1
  /\ session' = IF CleanSession THEN {} ELSE session
  /\ UNCHANGED <<handlers, existing, queue, answers>>

\* _on_connect adds the callbacks again, and subscribes to nothing.
Reconnect ==
  /\ link = "down"
  /\ link' = "up"
  /\ handlers' = handlers \union existing
  /\ UNCHANGED <<session, existing, queue, answers, flaps>>

\* disconnect stops the network loop as well: nothing reconnects.
Disconnect ==
  /\ Up
  /\ link' = "closed"
  /\ session' = IF CleanSession THEN {} ELSE session
  /\ UNCHANGED <<handlers, existing, queue, answers, flaps>>

\* Has the link always held so far?
Held == Up /\ flaps = 0

Heard(t) == Up /\ t \in session /\ t \in handlers

HasRoom(t) == Room[t] = Unbounded \/ Len(queue[t]) < Room[t]

\* The callback puts the decoded envelope into the queue, or drops it.
Enqueue(t, r) ==
  /\ queue' = IF HasRoom(t) THEN [queue EXCEPT ![t] = Append(@, r)] ELSE queue
  /\ UNCHANGED <<link, session, handlers, existing, answers, flaps>>

Dequeue(t) == [queue EXCEPT ![t] = Tail(@)]

\* publish tells nobody that the link is down: paho returns a code that is ignored.
Publish(r, answer) ==
  answers' = IF Up THEN [answers EXCEPT ![r] = Append(@, answer)] ELSE answers
=============================================================================
