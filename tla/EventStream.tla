---------------------------- MODULE EventStream ----------------------------
(***************************************************************************)
(* The live stream of events: SubscriberManager (internal/lifecycle/       *)
(* sse.go) and the handler that serves a client (handleStream,             *)
(* internal/webhook/router.go). An event is its ID here.                   *)
(*                                                                         *)
(* A broadcast draws its ID before it takes the lock, and a client that    *)
(* comes back is first sent what the ring still has and only then made a   *)
(* subscriber. The write timeout of the server ends every stream, so that  *)
(* coming back is what clients do all the time.                            *)
(***************************************************************************)
EXTENDS Integers, Sequences, SequencesExt

CONSTANTS
  Clients,      \* browsers that show the stream
  RingSize,     \* ringSize
  StreamCap     \* of a subscriber's channel

ASSUME StreamAssumption == RingSize \in Nat \ {0} /\ StreamCap \in Nat \ {0}

VARIABLES
  nextID,       \* the ID the next broadcast draws
  ring,         \* the last events, oldest first
  channel,      \* of each client: what its subscription holds
  client,       \* of each client: where handleStream is, the last ID it has
  received,     \* history: of each client, what it has been sent
  disordered    \* history: an event entered the ring after one of a higher ID

streamVars == <<nextID, ring, channel, client, received, disordered>>

None == -1      \* a client that has received nothing sends no Last-Event-ID

StreamInit ==
  /\ nextID = 0 /\ ring = <<>>
  /\ channel = [c \in Clients |-> <<>>]
  /\ client = [c \in Clients |-> [at |-> "off", last |-> None]]
  /\ received = [c \in Clients |-> <<>>]
  /\ disordered = FALSE

(* Under the lock: the event enters the ring and the channels that have    *)
(* room.                                                                   *)
Broadcast(id) ==
  /\ ring' = IF Len(ring) < RingSize THEN Append(ring, id) ELSE Append(Tail(ring), id)
  /\ channel' = [c \in Clients |->
       IF client[c].at = "on" /\ Len(channel[c]) < StreamCap
       THEN Append(channel[c], id) ELSE channel[c]]
  /\ disordered' = (disordered \/ (ring # <<>> /\ id < Last(ring)))
  /\ UNCHANGED <<nextID, client, received>>

(* ReplaySince: what is at these places of the ring, in its order.         *)
InOrder(places) ==
  CHOOSE f \in [1..Cardinality(places) -> places] : \A i, j \in DOMAIN f : i < j => f[i] < f[j]

Replay(places) == LET f == InOrder(places) IN [i \in 1..Cardinality(places) |-> ring[f[i]]]

SinceInclusive(last) == Replay({i \in DOMAIN ring : ring[i] >= last})
Since(last) == Replay({i \in DOMAIN ring : ring[i] > last})

Newest(c, sent) == IF sent = <<>> THEN client[c].last ELSE Last(sent)

Connect(c) ==
  /\ client[c].at = "off"
  /\ LET sent == IF client[c].last = None THEN <<>> ELSE Since(client[c].last) IN
     /\ received' = [received EXCEPT ![c] = @ \o sent]
     /\ client' = [client EXCEPT ![c] = [at |-> "replayed", last |-> Newest(c, sent)]]
  /\ UNCHANGED <<nextID, ring, channel, disordered>>

Subscribe(c) ==
  /\ client[c].at = "replayed"
  /\ client' = [client EXCEPT ![c].at = "on"]
  /\ channel' = [channel EXCEPT ![c] = <<>>]
  /\ UNCHANGED <<nextID, ring, received, disordered>>

Receive(c) ==
  /\ client[c].at = "on" /\ channel[c] # <<>>
  /\ received' = [received EXCEPT ![c] = Append(@, Head(channel[c]))]
  /\ client' = [client EXCEPT ![c].last = Head(channel[c])]
  /\ channel' = [channel EXCEPT ![c] = Tail(@)]
  /\ UNCHANGED <<nextID, ring, disordered>>

(* The server's write timeout, or the client leaves: Unsubscribe.          *)
Disconnect(c) ==
  /\ client[c].at = "on"
  /\ client' = [client EXCEPT ![c].at = "off"]
  /\ channel' = [channel EXCEPT ![c] = <<>>]
  /\ UNCHANGED <<nextID, ring, received, disordered>>

StreamStep == \E c \in Clients : Connect(c) \/ Subscribe(c) \/ Receive(c) \/ Disconnect(c)
=============================================================================
