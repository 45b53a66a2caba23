------------------------------- MODULE Requests -------------------------------
(***************************************************************************)
(* Requests to one blockchain peer and the way their responses find the    *)
(* goroutine that waits for them: RequestBlock, RequestBlockHeaderRaw,     *)
(* NotifyResponse and their ETH66 variants of blockchain/eth/peer.go, the  *)
(* message loop of handlers.go and protocol.go, and processBlockAnnounce-  *)
(* ment, fetchBlockResponse and awaitBlockResponse of backend.go.          *)
(*                                                                         *)
(* An ETH65 response carries no request ID: it goes to the channel that    *)
(* was registered first.  An ETH66 response goes to the channel registered *)
(* under its ID.  Channels are unbuffered, so the message loop waits until *)
(* the goroutine at the other end receives.                                *)
(*                                                                         *)
(* A request stands for its ID: rand.Uint64 is taken to be collision free. *)
(***************************************************************************)
EXTENDS Naturals, Sequences

CONSTANTS
    Versions,           \* the protocol versions a peer may have
    Announced,          \* blocks
    Packets,            \* for each version, NewBlockHashes messages: sequences of blocks
    Ticks,              \* ticks of confirmation goroutines (RequestBlockHeader)
    Queries,            \* GetBlockHeaders messages for ancient headers
    Asking,             \* for each version, the ticks and queries that occur
    ResponseQueueSize,
    None

Askers == Ticks \cup Queries

Header(x) == [kind |-> "headers", by |-> x]
Body(x) == [kind |-> "bodies", by |-> x]
Requests == {Header(x) : x \in Announced \cup Askers} \cup {Body(x) : x \in Announced}
Announcements == [blocks : UNION {Packets[v] : v \in Versions}]
Responses == [request : Requests, found : BOOLEAN]

ASSUME RequestsAssumption ==
    /\ Versions \subseteq {65, 66}
    /\ \A v \in Versions : Packets[v] \subseteq Seq(Announced)
    /\ \A v \in Versions : Asking[v] \subseteq Ticks \cup Queries
    /\ Announced \cap (Ticks \cup Queries) = {} /\ Ticks \cap Queries = {}
    /\ ResponseQueueSize \in Nat \ {0}
    /\ None \notin Responses

\* The channel of a confirmation goroutine's request is nil.
Listens(r) == r.by \notin Ticks

VARIABLES
    version,
    loop,            \* what the message loop does next
    todo,            \* the announced blocks it still has to look at
    held,            \* the response it is handling
    target,          \* the request whose channel NotifyResponse took
    responseQueue,   \* ETH65: the registered channels, each named by its request
    responseQueue66, \* ETH66: the registered request IDs
    wire,            \* requests on their way to the peer
    inbox,           \* messages from the peer
    waiting,         \* what became of the receiver of each channel
    received,        \* the response it received
    fetch,           \* awaitBlockResponse, per announced block
    asker,           \* the goroutine of each tick and query
    connected,
    disconnected,    \* Disconnect was called
    unsent,          \* history, ETH65: the requests registered and not sent, in that order
    crossed          \* history, ETH65: a request overtook one that was registered before it

queues == <<responseQueue, responseQueue66>>
order == <<unsent, crossed>>
link == <<connected, disconnected>>
goroutines == <<waiting, received, fetch, asker>>
requestVars == <<version, loop, todo, held, target, queues, wire, inbox, goroutines, link, order>>

RequestsTypeOK ==
    /\ version \in Versions
    /\ loop \in {"read", "announce", "registerHeaders", "registerBodies", "sendHeaders",
                 "sendBodies", "match", "deliver", "returned"}
    /\ todo \in Seq(Announced)
    /\ held \in Responses \cup {None}
    /\ target \in Requests \cup {None}
    /\ responseQueue \in Seq(Requests) /\ Len(responseQueue) <= ResponseQueueSize
    /\ responseQueue66 \subseteq Requests
    /\ wire \in Seq(Requests)
    /\ inbox \in Seq(Responses \cup Announcements)
    /\ waiting \in [Requests -> {"no", "yes", "got", "invalid", "timeout"}]
    /\ received \in [Requests -> Responses \cup {None}]
    /\ fetch \in [Announced -> {"none", "running", "done", "failed", "panic"}]
    /\ asker \in [Askers -> {"idle", "send", "done"}]
    /\ link \in BOOLEAN \X BOOLEAN
    /\ unsent \in Seq(Requests)
    /\ crossed \in BOOLEAN

RequestsInit ==
    /\ version \in Versions
    /\ loop = "read"
    /\ todo = <<>>
    /\ held = None
    /\ target = None
    /\ responseQueue = <<>>
    /\ responseQueue66 = {}
    /\ wire = <<>>
    /\ inbox = <<>>
    /\ waiting = [r \in Requests |-> "no"]
    /\ received = [r \in Requests |-> None]
    /\ fetch = [b \in Announced |-> "none"]
    /\ asker = [x \in Askers |-> "idle"]
    /\ connected = TRUE
    /\ disconnected = FALSE
    /\ unsent = <<>>
    /\ crossed = FALSE

-----------------------------------------------------------------------------
(* Registering and sending: two steps, which other goroutines may separate.*)

\* ETH65 waits while the channel is full; ETH66 puts the ID into a map.
registerForResponse(r) ==
    \/ /\ version = 65 /\ Len(responseQueue) < ResponseQueueSize
       /\ responseQueue' = Append(responseQueue, r)
       /\ unsent' = Append(unsent, r)
       /\ UNCHANGED <<responseQueue66, crossed>>
    \/ /\ version = 66
       /\ responseQueue66' = responseQueue66 \cup {r}
       /\ UNCHANGED <<responseQueue, order>>

\* send pretends to succeed on a peer that Disconnect was called for.
SendFails == ~connected /\ ~disconnected

\* History only: r is sent in its turn, or ahead of requests that were registered first.
NoteSent(r) ==
    \/ /\ unsent # <<>> /\ unsent[1] = r
       /\ unsent' = Tail(unsent)
       /\ UNCHANGED crossed
    \/ \E k \in 2..Len(unsent) :
          /\ unsent[k] = r /\ unsent[1] # r
          /\ unsent' = [i \in 1..(Len(unsent) - 1) |->
                           IF i < k THEN unsent[i] ELSE unsent[i + 1]]
          /\ crossed' = (crossed \/ connected)
    \/ (\A k \in 1..Len(unsent) : unsent[k] # r) /\ UNCHANGED order

send(r) ==
    /\ wire' = IF connected /\ ~disconnected THEN Append(wire, r) ELSE wire
    /\ NoteSent(r)

-----------------------------------------------------------------------------
(* The message loop.                                                       *)

HandleAnnouncement ==
    /\ loop = "read" /\ inbox # <<>> /\ Head(inbox) \in Announcements
    /\ todo' = Head(inbox).blocks
    /\ inbox' = Tail(inbox)
    /\ loop' = "announce"
    /\ UNCHANGED <<version, held, target, queues, wire, goroutines, link, order>>

\* One pass of the loop over the announced blocks; a block that is stored by now
\* is confirmed and not requested.
processBlockAnnouncement ==
    /\ loop = "announce"
    /\ \/ todo = <<>> /\ loop' = "read" /\ UNCHANGED todo
       \/ todo # <<>> /\ loop' = "announce" /\ todo' = Tail(todo)
       \/ todo # <<>> /\ loop' = "registerHeaders" /\ UNCHANGED todo
    /\ UNCHANGED <<version, held, target, queues, wire, inbox, goroutines, link, order>>

RegisterHeaders ==
    /\ loop = "registerHeaders" /\ registerForResponse(Header(todo[1]))
    /\ loop' = "registerBodies"
    /\ UNCHANGED <<version, todo, held, target, wire, inbox, goroutines, link>>

RegisterBodies ==
    /\ loop = "registerBodies" /\ registerForResponse(Body(todo[1]))
    /\ loop' = "sendHeaders"
    /\ UNCHANGED <<version, todo, held, target, wire, inbox, goroutines, link>>

SendHeaders ==
    /\ loop = "sendHeaders"
    /\ send(Header(todo[1]))
    /\ loop' = IF SendFails THEN "returned" ELSE "sendBodies"
    /\ UNCHANGED <<version, todo, held, target, queues, inbox, goroutines, link>>

\* The receivers that fetchBlockResponse starts with: the ETH65 variant waits for
\* the header first.
StartReceivers(b) ==
    waiting' = IF version = 66
               THEN [waiting EXCEPT ![Header(b)] = "yes", ![Body(b)] = "yes"]
               ELSE [waiting EXCEPT ![Header(b)] = "yes"]

\* The end of RequestBlock, and the start of awaitBlockResponse.
SendBodies ==
    /\ loop = "sendBodies"
    /\ send(Body(todo[1]))
    /\ IF SendFails
       THEN loop' = "returned" /\ UNCHANGED <<todo, waiting, fetch>>
       ELSE /\ loop' = "announce"
            /\ todo' = Tail(todo)
            /\ fetch' = [fetch EXCEPT ![todo[1]] = "running"]
            /\ StartReceivers(todo[1])
    /\ UNCHANGED <<version, held, target, queues, inbox, received, asker, link>>

\* handleBlockHeaders and handleBlockBodies
HandleResponse ==
    /\ loop = "read" /\ inbox # <<>> /\ Head(inbox) \in Responses
    /\ held' = Head(inbox)
    /\ inbox' = Tail(inbox)
    /\ loop' = "match"
    /\ UNCHANGED <<version, todo, target, queues, wire, goroutines, link, order>>

\* Without a channel the message is handled by the loop itself: a header confirms
\* its block, a body is dropped.
Matched(r) ==
    IF Listens(r) THEN loop' = "deliver" /\ target' = r /\ UNCHANGED held
                  ELSE loop' = "read" /\ held' = None /\ UNCHANGED target

NotifyResponse ==
    /\ version = 65 /\ loop = "match" /\ responseQueue # <<>>
    /\ responseQueue' = Tail(responseQueue)
    /\ Matched(Head(responseQueue))
    /\ UNCHANGED <<version, todo, responseQueue66, wire, inbox, goroutines, link, order>>

\* The ID is checked, but the response goes to any channel that waits for its kind.
NotifyKind66 ==
    /\ version = 66 /\ loop = "match" /\ held.request \in responseQueue66
    /\ responseQueue66' = responseQueue66 \ {held.request}
    /\ LET fitting == {r \in Requests : waiting[r] = "yes" /\ r.kind = held.request.kind}
       IN  \/ \E r \in fitting : Matched(r)
           \/ fitting = {} /\ loop' = "read" /\ held' = None /\ UNCHANGED target
    /\ UNCHANGED <<version, todo, responseQueue, wire, inbox, goroutines, link, order>>

\* An unknown ID is an error and ends the loop.
NotifyResponse66 ==
    /\ version = 66 /\ loop = "match"
    /\ responseQueue66' = responseQueue66 \ {held.request}
    /\ IF held.request \in responseQueue66
       THEN Matched(held.request)
       ELSE loop' = "returned" /\ UNCHANGED <<held, target>>
    /\ UNCHANGED <<version, todo, responseQueue, wire, inbox, goroutines, link, order>>

\* The body is never waited for.
StopAfterHeader(w, r) == w

\* The ETH65 variant goes on to the body once it has the header.
NextReceiver(w, r) ==
    IF version = 65 /\ r.by \in Announced /\ r.kind = "headers" /\ w[r] = "got"
    THEN [w EXCEPT ![Body(r.by)] = "yes"] ELSE w

\* responseCh <- packet: the loop and the receiver meet.  The receiver converts
\* the packet to the type it expects.
Deliver ==
    /\ loop = "deliver" /\ waiting[target] = "yes"
    /\ received' = [received EXCEPT ![target] = held]
    /\ waiting' = NextReceiver(
          [waiting EXCEPT ![target] =
              IF held.request.kind = target.kind THEN "got" ELSE "invalid"], target)
    /\ loop' = "read" /\ held' = None /\ target' = None
    /\ UNCHANGED <<version, todo, queues, wire, inbox, fetch, asker, link, order>>

\* ReadMsg fails on a closed connection; RunPeer then stops and unregisters the
\* peer.
ReadFails ==
    /\ loop = "read" /\ ~connected
    /\ loop' = "returned"
    /\ UNCHANGED <<version, todo, held, target, queues, wire, inbox, goroutines, link, order>>

-----------------------------------------------------------------------------
(* The goroutines that wait.                                               *)

\* time.After(responseTimeout); the goroutine of an ancient query has no timeout.
Timeout(r) ==
    /\ waiting[r] = "yes" /\ r.by \in Announced
    /\ waiting' = [waiting EXCEPT ![r] = "timeout"]
    /\ UNCHANGED <<version, loop, todo, held, target, queues, wire, inbox, received, fetch,
                   asker, link, order>>

Failed(r) == waiting[r] \in {"invalid", "timeout"}

\* The length check fails only when both lengths are wrong; the code after it
\* indexes both slices.
processBlockComponents(b) ==
    LET headerFound == received[Header(b)].found
        bodyFound == received[Body(b)].found
    IN  fetch' = [fetch EXCEPT ![b] =
            IF headerFound /\ bodyFound THEN "done"
            ELSE IF headerFound \/ bodyFound THEN "panic" ELSE "failed"]

\* A fetch ends with both components, or with the first error, which
\* disconnects the peer.
awaitBlockResponse(b) ==
    /\ fetch[b] = "running"
    /\ \/ /\ waiting[Header(b)] = "got" /\ waiting[Body(b)] = "got"
          /\ processBlockComponents(b)
          /\ UNCHANGED link
       \/ /\ Failed(Header(b)) \/ Failed(Body(b))
          /\ fetch' = [fetch EXCEPT ![b] = "failed"]
          /\ connected' = FALSE /\ disconnected' = TRUE
    /\ UNCHANGED <<version, loop, todo, held, target, queues, wire, inbox, waiting, received,
                   asker, order>>

\* The request is sent without registering for its response.
AskUnregistered(x) ==
    /\ x \in Asking[version] /\ asker[x] = "idle" /\ loop # "returned"
    /\ asker' = [asker EXCEPT ![x] = "send"]
    /\ UNCHANGED <<version, loop, todo, held, target, queues, wire, inbox, waiting, received,
                   fetch, link, order>>

\* RequestBlockHeaderRaw, called by a confirmation goroutine or for an ancient
\* query.
AskerRegisters(x) ==
    /\ x \in Asking[version] /\ asker[x] = "idle" /\ loop # "returned"
    /\ registerForResponse(Header(x))
    /\ asker' = [asker EXCEPT ![x] = "send"]
    /\ UNCHANGED <<version, loop, todo, held, target, wire, inbox, waiting, received, fetch,
                   link>>

AskerSends(x) ==
    /\ asker[x] = "send"
    /\ send(Header(x))
    /\ asker' = [asker EXCEPT ![x] = "done"]
    /\ waiting' = IF x \in Queries /\ ~SendFails
                  THEN [waiting EXCEPT ![Header(x)] = "yes"] ELSE waiting
    /\ UNCHANGED <<version, loop, todo, held, target, queues, inbox, received, fetch, link>>

-----------------------------------------------------------------------------
(* The peer: it announces blocks and answers requests in order, with what  *)
(* was asked for or with an empty list.                                    *)

Announce(p) ==
    /\ connected /\ \A i \in 1..Len(inbox) : inbox[i] # [blocks |-> p]
    /\ \A i \in 1..Len(p) :
          /\ fetch[p[i]] = "none"
          /\ \A j \in 1..Len(todo) : todo[j] # p[i]
    /\ inbox' = Append(inbox, [blocks |-> p])
    /\ UNCHANGED <<version, loop, todo, held, target, queues, wire, goroutines, link, order>>

Answer ==
    /\ connected /\ wire # <<>>
    /\ wire' = Tail(wire)
    /\ \E found \in BOOLEAN :
          inbox' = Append(inbox, [request |-> Head(wire), found |-> found])
    /\ UNCHANGED <<version, loop, todo, held, target, queues, goroutines, link, order>>

ConnectionLost ==
    /\ connected
    /\ connected' = FALSE
    /\ UNCHANGED <<version, loop, todo, held, target, queues, wire, inbox, goroutines,
                   disconnected, order>>

-----------------------------------------------------------------------------
\* An index out of range in processBlockComponents, or the type assertion on the
\* answer to an ancient query, ends the process.
Panicked ==
    \/ \E b \in Announced : fetch[b] = "panic"
    \/ \E x \in Queries : waiting[Header(x)] = "invalid"

LoopStep ==
    /\ ~Panicked
    /\ \/ HandleAnnouncement \/ processBlockAnnouncement
       \/ RegisterHeaders \/ RegisterBodies \/ SendHeaders \/ SendBodies
       \/ HandleResponse \/ NotifyResponse \/ NotifyResponse66 \/ Deliver \/ ReadFails

FetchStep(b) ==
    /\ ~Panicked
    /\ Timeout(Header(b)) \/ Timeout(Body(b)) \/ awaitBlockResponse(b)

AskerStep(x) == ~Panicked /\ (AskerRegisters(x) \/ AskerSends(x))

PeerStep == (\E p \in Packets[version] : Announce(p)) \/ Answer \/ ConnectionLost

RequestsNext ==
    \/ LoopStep
    \/ \E b \in Announced : FetchStep(b)
    \/ \E x \in Askers : AskerStep(x)
    \/ PeerStep

\* The runtime keeps running goroutines that can go on, and timers fire.  The peer
\* owes nothing.
RequestsSpec ==
    /\ RequestsInit
    /\ [][RequestsNext]_requestVars
    /\ WF_requestVars(LoopStep)
    /\ \A b \in Announced : WF_requestVars(FetchStep(b))
    /\ \A x \in Askers : WF_requestVars(~Panicked /\ AskerSends(x))

-----------------------------------------------------------------------------
(* Properties.                                                             *)

\* RequestBlock: "fetches the specified block from the peer, pushing the
\* components to the channels": the header and the body a fetch ends with are
\* the ones that were requested for its block, whatever other requests are under
\* way and whoever timed out.  An ETH65 peer owes this to the order of requests:
\* it fails only after a goroutine sent its request ahead of one that had been
\* registered before.
FetchedOwnBlock ==
    version = 66 \/ ~crossed =>
        \A b \in Announced : fetch[b] = "done" =>
            /\ received[Header(b)].request = Header(b)
            /\ received[Body(b)].request = Body(b)

\* Channels are registered before their request is sent, so a response to a
\* request always finds one: the loop never waits on an empty responseQueue, and
\* a peer that answers what it was asked never meets ErrUnknownRequestID.
ResponseExpected ==
    loop = "match" =>
        \/ version = 65 /\ responseQueue # <<>>
        \/ version = 66 /\ held.request \in responseQueue66

\* The invariant of the response queues: they stay within their capacity, and hold
\* a channel for every response that arrives.
RequestsInv == RequestsTypeOK /\ ResponseExpected

\* Nobody will receive from the channel of r: the receiver timed out, the fetch
\* failed before it came to the body, or the query's request could not be sent.
Abandoned(r) ==
    \/ waiting[r] = "timeout"
    \/ r.by \in Announced /\ r.kind = "bodies" /\ waiting[r] = "no" /\ Failed(Header(r.by))
    \/ r.by \in Queries /\ waiting[r] = "no" /\ asker[r.by] = "done"

\* The two places where the message loop waits for ever: it hands a response to a
\* goroutine that is gone, or registers on a full responseQueue, which it alone drains.
LoopStuck ==
    \/ loop = "deliver" /\ Abandoned(target)
    \/ /\ version = 65 /\ loop \in {"registerHeaders", "registerBodies"}
       /\ Len(responseQueue) = ResponseQueueSize

\* RunPeer: "starts handling all its messages".  The message loop always gets back to
\* reading, or returns, unless it is stuck in one of these two places: it waits for
\* no other goroutine, and for none that is still going to receive.
LoopReads == (loop # "read") ~> (loop \in {"read", "returned"} \/ LoopStuck \/ Panicked)
==============================================================================
