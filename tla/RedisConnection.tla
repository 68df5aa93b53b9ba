----------------------------- MODULE RedisConnection -----------------------------
(***************************************************************************)
(* The connection of the rate limiter to Redis (RedisService): a client    *)
(* that reconnects by itself without end, and the service's own            *)
(* reconnection, which replaces the client after a delay and gives up      *)
(* after some attempts.  A replaced client is neither closed nor rid of    *)
(* its listeners: its events go on changing the service.                   *)
(*                                                                         *)
(* Delays are not modelled: a timer that is set may fire at any time.      *)
(***************************************************************************)
EXTENDS Integers

CONSTANTS
  MaxClients,   \* bound on the clients made
  MaxAttempts   \* maxReconnectAttempts

ASSUME RedisConnectionAssumption == MaxClients \in Nat \ {0} /\ MaxAttempts \in Nat \ {0}

Clients == 1..MaxClients
NoClient == 0

VARIABLES
  status,       \* of each client: "none" yet, "connecting", "ready", "reconnecting", "end"
  pending,      \* clients whose first connect() is awaited
  client,       \* the client of the service
  isConnected,
  attempts,     \* reconnectAttempts
  timer,        \* a reconnection is scheduled
  destroyed,    \* onModuleDestroy has run
  redisUp       \* whether Redis can be reached

redisVars == <<status, pending, client, isConnected, attempts, timer, destroyed, redisUp>>

Made == {c \in Clients : status[c] # "none"}

IsReady == isConnected /\ client # NoClient /\ status[client] = "ready"

\* scheduleReconnect: cancels the timer and, unless it gives up, sets it again.
Scheduled(s) ==
  IF s.attempts >= MaxAttempts THEN [s EXCEPT !.timer = FALSE]
  ELSE [attempts |-> s.attempts + 1, timer |-> TRUE]

ApplySchedule(s) == attempts' = s.attempts /\ timer' = s.timer
Schedule == [attempts |-> attempts, timer |-> timer]

RedisInit ==
  /\ status = [c \in Clients |-> IF c = 1 THEN "connecting" ELSE "none"]
  /\ pending = {1} /\ client = 1
  /\ isConnected = FALSE /\ attempts = 0 /\ timer = FALSE
  /\ destroyed = FALSE /\ redisUp \in BOOLEAN

\* Mutant: a replaced client's 'ready' is ignored, its 'close' is not.
MutClientReady(c) ==
  /\ redisUp /\ status[c] \in {"connecting", "reconnecting"}
  /\ status' = [status EXCEPT ![c] = "ready"]
  /\ pending' = pending \ {c}
  /\ isConnected' = (isConnected \/ c = client)
  /\ attempts' = IF c = client THEN 0 ELSE attempts
  /\ UNCHANGED <<client, timer, destroyed, redisUp>>

\* 'ready', and the continuation of connect() where it is awaited.
ClientReady(c) ==
  /\ redisUp /\ status[c] \in {"connecting", "reconnecting"}
  /\ status' = [status EXCEPT ![c] = "ready"]
  /\ pending' = pending \ {c}
  /\ isConnected' = TRUE /\ attempts' = 0
  /\ UNCHANGED <<client, timer, destroyed, redisUp>>

\* Mutant: retryStrategy gives up as the service does.
MutRetryStrategy == IF attempts >= MaxAttempts THEN "end" ELSE "reconnecting"

\* retryStrategy always gives a delay: the client goes on by itself.
RetryStrategy == "reconnecting"

\* 'error' and 'close'; the catch of connect() schedules once more.
ClientClose(c) ==
  /\ ~redisUp /\ status[c] \in {"connecting", "ready", "reconnecting"}
  /\ status' = [status EXCEPT ![c] = RetryStrategy]
  /\ pending' = pending \ {c}
  /\ isConnected' = FALSE
  /\ ApplySchedule(IF c \in pending THEN Scheduled(Scheduled(Schedule)) ELSE Scheduled(Schedule))
  /\ UNCHANGED <<client, destroyed, redisUp>>

\* connect(), called by the timer: a further client takes the place of the last.
Reconnect ==
  /\ timer
  /\ \E c \in Clients :
       /\ status[c] = "none" /\ \A d \in Clients : d < c => status[d] # "none"
       /\ status' = [status EXCEPT ![c] = "connecting"]
       /\ pending' = pending \cup {c}
       /\ client' = c
  /\ timer' = FALSE
  /\ UNCHANGED <<isConnected, attempts, destroyed, redisUp>>

\* disconnect() cancels the timer and quits the client, whose 'close' schedules a
\* reconnection once more.
Disconnect ==
  /\ ~destroyed /\ client # NoClient /\ status[client] = "ready"
  /\ destroyed' = TRUE
  /\ status' = [status EXCEPT ![client] = "end"]
  /\ ApplySchedule(Scheduled([attempts |-> attempts, timer |-> FALSE]))
  /\ client' = NoClient /\ isConnected' = FALSE
  /\ UNCHANGED <<pending, redisUp>>

RedisGoes == redisUp /\ redisUp' = FALSE
             /\ UNCHANGED <<status, pending, client, isConnected, attempts, timer, destroyed>>
RedisComes == ~redisUp /\ redisUp' = TRUE
              /\ UNCHANGED <<status, pending, client, isConnected, attempts, timer, destroyed>>

RedisNext ==
  \/ \E c \in Clients : ClientReady(c) \/ ClientClose(c)
  \/ Reconnect \/ Disconnect \/ RedisGoes \/ RedisComes

RedisSpec == RedisInit /\ [][RedisNext]_redisVars

\* The clients of ioredis retry as long as they are not ended.
RedisFairness == \A c \in Clients : WF_redisVars(ClientReady(c))

-----------------------------------------------------------------------------
(* Properties *)

RedisTypeOK ==
  /\ status \in [Clients -> {"none", "connecting", "ready", "reconnecting", "end"}]
  /\ client \in Made \cup {NoClient} /\ pending \subseteq Made
  /\ isConnected \in BOOLEAN /\ attempts \in 0..MaxAttempts /\ timer \in BOOLEAN
  /\ destroyed \in BOOLEAN /\ redisUp \in BOOLEAN

\* 'close' events of replaced clients clear isConnected under the current one: once
\* every client has reconnected, none of those events is left unrepaired, so the
\* limiter does not stay open (or closed, when strict) beside a healthy Redis.
NoLostReady ==
  client # NoClient /\ (\A c \in Made : status[c] = "ready") => isConnected

\* Giving up after maxReconnectAttempts does not strand the limiter: once Redis
\* stays reachable, the service is ready again.
RedisRecovers == <>[](redisUp /\ ~destroyed) => <>[]IsReady
=================================================================================
