---- MODULE MqttPromise ----
(***************************************************************************)
(* What the client promises its application, without packets, packet ids,  *)
(* connections or a broker.  A request is asked for, and reported complete *)
(* at most once while it is open; a message reaches the application at     *)
(* most once, at its arrival or when it is released after being kept; and  *)
(* no more is open or kept than the request queue has room for             *)
(* (mqtt_client.h: the API and the callbacks; mqtt_config.h: the queue).   *)
(***************************************************************************)
EXTENDS Naturals, FiniteSets

CONSTANTS Capacity,      \* MQTT_REQUESTS_QUEUE_LEN
          MaxAsked,      \* bound: requests
          Messages       \* what may be published to the client

VARIABLES asked,         \* requests are numbered in the order of the calls
          open,          \* requests that wait for the broker
          kept,          \* messages kept for a later release
          reports,       \* how often each request was reported complete
          deliveries     \* how often each message reached the application

promiseVars == <<asked, open, kept, reports, deliveries>>

PromiseInit ==
  /\ asked = 0 /\ open = {} /\ kept = {}
  /\ reports = [r \in 1 .. MaxAsked |-> 0]
  /\ deliveries = [m \in Messages |-> 0]

Room == Cardinality(open) + Cardinality(kept) < Capacity

\* A request that the client follows until its end.
Ask ==
  /\ asked < MaxAsked /\ Room
  /\ asked' = asked + 1 /\ open' = open \cup {asked + 1}
  /\ UNCHANGED <<kept, reports, deliveries>>

\* A QoS 0 publish: sent and forgotten.
Forget ==
  /\ asked < MaxAsked
  /\ asked' = asked + 1
  /\ UNCHANGED <<open, kept, reports, deliveries>>

\* A request ends, with a report or (unsubscribe) without one.
Report(r) ==
  /\ r \in open
  /\ open' = open \ {r} /\ reports' = [reports EXCEPT ![r] = @ + 1]
  /\ UNCHANGED <<asked, kept, deliveries>>

Finish(r) ==
  /\ r \in open
  /\ open' = open \ {r}
  /\ UNCHANGED <<asked, kept, reports, deliveries>>

\* A message is kept, is delivered at once, or is delivered when released.
Keep(m) ==
  /\ deliveries[m] = 0 /\ Room
  /\ kept' = kept \cup {m}
  /\ UNCHANGED <<asked, open, reports, deliveries>>

Receive(m) ==
  /\ deliveries[m] = 0
  /\ deliveries' = [deliveries EXCEPT ![m] = @ + 1]
  /\ UNCHANGED <<asked, open, kept, reports>>

Release(m) ==
  /\ m \in kept /\ deliveries[m] = 0
  /\ kept' = kept \ {m} /\ deliveries' = [deliveries EXCEPT ![m] = @ + 1]
  /\ UNCHANGED <<asked, open, reports>>

PromiseNext ==
  \/ Ask \/ Forget
  \/ \E r \in 1 .. MaxAsked : Report(r) \/ Finish(r)
  \/ \E m \in Messages : Keep(m) \/ Receive(m) \/ Release(m)

PromiseSpec == PromiseInit /\ [][PromiseNext]_promiseVars

====
