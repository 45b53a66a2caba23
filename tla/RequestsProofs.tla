---------------------------- MODULE RequestsProofs ----------------------------
(***************************************************************************)
(* Proofs about Requests for every set of blocks, packets and queries: a   *)
(* response reaches the channel of the request it answers.  At an ETH66    *)
(* peer the ID sees to that; at an ETH65 peer it is the order of requests, *)
(* as long as no goroutine sends its request ahead of one that was         *)
(* registered before.                                                      *)
(***************************************************************************)
EXTENDS Requests, SequenceTheorems, TLAPS

\* The stages of RequestBlock.
Requesting == {"registerHeaders", "registerBodies", "sendHeaders", "sendBodies"}

\* What the message loop needs at each stage.
LoopFits ==
    /\ loop \in Requesting => todo # <<>>
    /\ loop \in {"match", "deliver"} => held \in Responses
    /\ loop = "deliver" => target \in Requests

-----------------------------------------------------------------------------
(* Messages.                                                               *)

Messages == Responses \cup Announcements

\* Headers and bodies of different blocks are different requests.
LEMMA RequestFacts ==
    /\ \A x \in Announced \cup Askers : Header(x) \in Requests /\ Header(x).by = x
    /\ \A x \in Announced : Body(x) \in Requests /\ Body(x).by = x
    /\ \A x, y : Header(x) # Body(y)
    /\ \A x, y : Header(x) = Header(y) => x = y
    /\ \A x, y : Body(x) = Body(y) => x = y
BY DEF Header, Body, Requests

\* An announcement is not a response.
LEMMA AnnouncementFacts ==
    /\ \A m \in Announcements : m \notin Responses /\ m.blocks \in Seq(Announced)
    /\ \A m \in Responses : m.request \in Requests
    /\ \A v \in Versions : \A p \in Packets[v] : [blocks |-> p] \in Announcements
<1>1. ASSUME NEW m \in Announcements PROVE m \notin Responses
  <2>1. DOMAIN m = {"blocks"}
    BY DEF Announcements
  <2>2. \A r \in Responses : DOMAIN r = {"request", "found"}
    BY DEF Responses
  <2> QED
    BY <2>1, <2>2
<1>2. ASSUME NEW m \in Announcements PROVE m.blocks \in Seq(Announced)
  BY RequestsAssumption DEF Announcements
<1> QED
  BY <1>1, <1>2 DEF Responses, Announcements

\* What Head, Tail and Append do to a queue.
LEMMA QueueFacts ==
    ASSUME NEW S, NEW q \in Seq(S)
    PROVE  /\ Len(q) \in Nat
           /\ \A x \in S : /\ Append(q, x) \in Seq(S) /\ Len(Append(q, x)) = Len(q) + 1
                           /\ \A i \in 1..Len(q) : Append(q, x)[i] = q[i]
                           /\ Append(q, x)[Len(q) + 1] = x
           /\ q # <<>> => /\ Len(q) > 0 /\ Head(q) \in S /\ Head(q) = q[1]
                          /\ Tail(q) \in Seq(S) /\ Len(Tail(q)) = Len(q) - 1
                          /\ \A i \in 1..(Len(q) - 1) : Tail(q)[i] = q[i + 1]
OBVIOUS

\* A request is at some place of a sequence.
Within(r, s) == \E k \in 1..Len(s) : s[k] = r

\* Leaving out the request at place k keeps all the others.
LEMMA LeaveOut ==
    ASSUME NEW s \in Seq(Requests), NEW k \in 1..Len(s),
           NEW t, t = [i \in 1..(Len(s) - 1) |-> IF i < k THEN s[i] ELSE s[i + 1]]
    PROVE  /\ t \in Seq(Requests) /\ Len(t) = Len(s) - 1
           /\ \A q : Within(q, s) /\ q # s[k] => Within(q, t)
<1>1. Len(s) \in Nat /\ Len(s) - 1 \in Nat /\ \A i \in 1..Len(s) : s[i] \in Requests
  OBVIOUS
<1>2. \A i \in 1..(Len(s) - 1) : i \in 1..Len(s) /\ i + 1 \in 1..Len(s)
  BY <1>1
<1>3. t \in [1..(Len(s) - 1) -> Requests]
  BY <1>1, <1>2
<1>4. t \in Seq(Requests) /\ Len(t) = Len(s) - 1
  BY <1>1, <1>3
<1>5. ASSUME NEW q, NEW i \in 1..Len(s), s[i] = q, q # s[k] PROVE Within(q, t)
  <2>1. CASE i < k
    <3>1. i \in 1..(Len(s) - 1) /\ i \in 1..Len(t)
      BY <1>1, <1>4, <2>1
    <3> QED
      BY <1>5, <2>1, <3>1 DEF Within
  <2>2. CASE i > k
    <3>1. /\ i - 1 \in 1..(Len(s) - 1) /\ i - 1 \in 1..Len(t)
          /\ ~(i - 1 < k) /\ (i - 1) + 1 = i
      BY <1>1, <1>4, <2>2
    <3>2. t[i - 1] = s[i]
      BY <3>1
    <3> QED
      BY <1>5, <3>1, <3>2 DEF Within
  <2>3. i # k
    BY <1>5
  <2> QED
    BY <1>1, <2>1, <2>2, <2>3
<1> QED
  BY <1>4, <1>5 DEF Within

\* The history of the order in which requests are sent.
LEMMA NoteSentFacts ==
    ASSUME RequestsTypeOK, NEW r \in Requests, NoteSent(r)
    PROVE  /\ unsent' \in Seq(Requests) /\ crossed' \in BOOLEAN /\ (crossed => crossed')
           /\ \A q : Within(q, unsent) /\ q # r => Within(q, unsent')
           /\ Within(r, unsent) =>
                /\ Len(unsent) \in Nat /\ Len(unsent) > 0 /\ Len(unsent') = Len(unsent) - 1
                /\ connected /\ ~crossed' =>
                     /\ unsent[1] = r
                     /\ \A i \in 1..(Len(unsent) - 1) : unsent'[i] = unsent[i + 1]
<1>1. unsent \in Seq(Requests) /\ Len(unsent) \in Nat /\ crossed \in BOOLEAN /\ connected \in BOOLEAN
  BY DEF RequestsTypeOK, link
<1>2. CASE unsent # <<>> /\ unsent[1] = r /\ unsent' = Tail(unsent) /\ UNCHANGED crossed
  <2>1. /\ unsent' \in Seq(Requests) /\ Len(unsent) > 0 /\ Len(unsent') = Len(unsent) - 1
        /\ \A i \in 1..(Len(unsent) - 1) : unsent'[i] = unsent[i + 1]
    BY <1>1, <1>2, QueueFacts
  <2>2. ASSUME NEW q, NEW i \in 1..Len(unsent), unsent[i] = q, q # r PROVE Within(q, unsent')
    <3>1. i # 1 /\ i - 1 \in 1..(Len(unsent) - 1) /\ (i - 1) + 1 = i
      BY <1>1, <1>2, <2>2
    <3>2. i - 1 \in 1..Len(unsent') /\ unsent'[i - 1] = q
      BY <2>1, <2>2, <3>1
    <3> QED
      BY <3>2 DEF Within
  <2> QED
    BY <1>1, <1>2, <2>1, <2>2 DEF Within
<1>3. ASSUME NEW k \in 2..Len(unsent), unsent[k] = r, unsent[1] # r,
             unsent' = [i \in 1..(Len(unsent) - 1) |->
                           IF i < k THEN unsent[i] ELSE unsent[i + 1]],
             crossed' = (crossed \/ connected)
      PROVE  /\ unsent' \in Seq(Requests) /\ crossed' \in BOOLEAN /\ (crossed => crossed')
             /\ \A q : Within(q, unsent) /\ q # r => Within(q, unsent')
             /\ Len(unsent) > 0 /\ Len(unsent') = Len(unsent) - 1
             /\ ~(connected /\ ~crossed')
  <2>1. k \in 1..Len(unsent) /\ Len(unsent) > 0
    BY <1>1
  <2>2. /\ unsent' \in Seq(Requests) /\ Len(unsent') = Len(unsent) - 1
        /\ \A q : Within(q, unsent) /\ q # unsent[k] => Within(q, unsent')
    BY <1>1, <1>3, <2>1, LeaveOut
  <2> QED
    BY <1>1, <1>3, <2>1, <2>2
<1>4. CASE (\A k \in 1..Len(unsent) : unsent[k] # r) /\ UNCHANGED order
  <2>1. ~Within(r, unsent)
    BY <1>4 DEF Within
  <2>2. unsent' = unsent /\ crossed' = crossed
    BY <1>4 DEF order
  <2> QED
    BY <1>1, <2>1, <2>2 DEF Within
<1> QED
  BY <1>1, <1>2, <1>3, <1>4 DEF NoteSent
-----------------------------------------------------------------------------
(* Types.                                                                  *)

\* Registering a request keeps the queues typed and within capacity.
LEMMA RegisterType ==
    ASSUME RequestsTypeOK, NEW r \in Requests, registerForResponse(r)
    PROVE  /\ responseQueue' \in Seq(Requests) /\ Len(responseQueue') <= ResponseQueueSize
           /\ responseQueue66' \subseteq Requests
           /\ unsent' \in Seq(Requests) /\ crossed' \in BOOLEAN
<1>1. responseQueue \in Seq(Requests) /\ Len(responseQueue) \in Nat /\ ResponseQueueSize \in Nat
  BY RequestsAssumption DEF RequestsTypeOK
<1>2. /\ Append(responseQueue, r) \in Seq(Requests)
      /\ Len(Append(responseQueue, r)) = Len(responseQueue) + 1
  BY <1>1, QueueFacts
<1>3. CASE version = 65 /\ Len(responseQueue) < ResponseQueueSize
           /\ responseQueue' = Append(responseQueue, r) /\ unsent' = Append(unsent, r)
           /\ UNCHANGED <<responseQueue66, crossed>>
  <2>1. Append(unsent, r) \in Seq(Requests)
    BY QueueFacts DEF RequestsTypeOK
  <2> QED
    BY <1>1, <1>2, <1>3, <2>1 DEF RequestsTypeOK
<1>4. CASE responseQueue66' = responseQueue66 \cup {r} /\ UNCHANGED <<responseQueue, order>>
  BY <1>4 DEF RequestsTypeOK, order
<1> QED
  BY <1>3, <1>4 DEF registerForResponse

\* So does sending one keep the wire.
LEMMA SendType ==
    ASSUME RequestsTypeOK, NEW r \in Requests, send(r)
    PROVE  wire' \in Seq(Requests) /\ unsent' \in Seq(Requests) /\ crossed' \in BOOLEAN
<1>1. wire' \in Seq(Requests)
  BY QueueFacts DEF RequestsTypeOK, send
<1> QED
  BY <1>1, NoteSentFacts DEF send

\* The block that the loop is requesting.
LEMMA CurrentBlock ==
    ASSUME RequestsTypeOK, LoopFits, loop \in Requesting
    PROVE  /\ todo # <<>> /\ todo[1] \in Announced /\ Tail(todo) \in Seq(Announced)
           /\ Header(todo[1]) \in Requests /\ Body(todo[1]) \in Requests
BY RequestFacts, QueueFacts DEF RequestsTypeOK, LoopFits

\* The message loop keeps types and stages.
LEMMA LoopTypes ==
    ASSUME RequestsTypeOK, LoopFits, LoopStep
    PROVE  RequestsTypeOK' /\ LoopFits'
<1> USE DEF queues, goroutines, order
<1>1. CASE HandleAnnouncement
  <2>1. /\ inbox \in Seq(Messages) /\ inbox # <<>> /\ Head(inbox).blocks \in Seq(Announced)
    BY <1>1, AnnouncementFacts DEF HandleAnnouncement, RequestsTypeOK, Messages
  <2>2. inbox' \in Seq(Messages)
    BY <1>1, <2>1, QueueFacts DEF HandleAnnouncement
  <2> QED
    BY <1>1, <2>1, <2>2 DEF HandleAnnouncement, RequestsTypeOK, LoopFits, Requesting, link, Messages
<1>2. CASE processBlockAnnouncement
  <2>1. todo # <<>> => Tail(todo) \in Seq(Announced)
    BY QueueFacts DEF RequestsTypeOK
  <2> QED
    BY <1>2, <2>1 DEF processBlockAnnouncement, RequestsTypeOK, LoopFits, Requesting, link
<1>3. CASE RegisterHeaders
  <2>1. Header(todo[1]) \in Requests /\ todo # <<>>
    BY <1>3, CurrentBlock DEF RegisterHeaders, Requesting
  <2> QED
    BY <1>3, <2>1, RegisterType DEF RegisterHeaders, RequestsTypeOK, LoopFits, Requesting, link
<1>4. CASE RegisterBodies
  <2>1. Body(todo[1]) \in Requests /\ todo # <<>>
    BY <1>4, CurrentBlock DEF RegisterBodies, Requesting
  <2> QED
    BY <1>4, <2>1, RegisterType DEF RegisterBodies, RequestsTypeOK, LoopFits, Requesting, link
<1>5. CASE SendHeaders
  <2>1. Header(todo[1]) \in Requests /\ todo # <<>>
    BY <1>5, CurrentBlock DEF SendHeaders, Requesting
  <2> QED
    BY <1>5, <2>1, SendType DEF SendHeaders, RequestsTypeOK, LoopFits, Requesting, link
<1>6. CASE SendBodies
  <2>1. /\ todo # <<>> /\ todo[1] \in Announced /\ Tail(todo) \in Seq(Announced)
        /\ Header(todo[1]) \in Requests /\ Body(todo[1]) \in Requests
    BY <1>6, CurrentBlock DEF SendBodies, Requesting
  <2>2. wire' \in Seq(Requests) /\ unsent' \in Seq(Requests) /\ crossed' \in BOOLEAN
    BY <1>6, <2>1, SendType DEF SendBodies
  <2>3. /\ todo' \in Seq(Announced)
        /\ waiting' \in [Requests -> {"no", "yes", "got", "invalid", "timeout"}]
        /\ fetch' \in [Announced -> {"none", "running", "done", "failed", "panic"}]
    BY <1>6, <2>1 DEF SendBodies, StartReceivers, RequestsTypeOK
  <2> QED
    BY <1>6, <2>2, <2>3 DEF SendBodies, RequestsTypeOK, LoopFits, Requesting, link
<1>7. CASE HandleResponse
  <2>1. inbox' \in Seq(Messages)
    BY <1>7, QueueFacts DEF HandleResponse, RequestsTypeOK, Messages
  <2> QED
    BY <1>7, <2>1 DEF HandleResponse, RequestsTypeOK, LoopFits, Requesting, link, Messages
<1>8. CASE NotifyResponse
  <2>1. /\ Head(responseQueue) \in Requests /\ responseQueue' \in Seq(Requests)
        /\ Len(responseQueue') <= ResponseQueueSize
    <3>1. responseQueue \in Seq(Requests) /\ Len(responseQueue) \in Nat /\ ResponseQueueSize \in Nat
      BY RequestsAssumption DEF RequestsTypeOK
    <3> QED
      BY <1>8, <3>1, QueueFacts DEF NotifyResponse, RequestsTypeOK
  <2> QED
    BY <1>8, <2>1 DEF NotifyResponse, Matched, RequestsTypeOK, LoopFits, Requesting, link
<1>9. CASE NotifyResponse66
  <2>1. held \in Responses /\ held.request \in Requests
    BY <1>9, AnnouncementFacts DEF NotifyResponse66, LoopFits
  <2> QED
    BY <1>9, <2>1 DEF NotifyResponse66, Matched, RequestsTypeOK, LoopFits, Requesting, link
<1>10. CASE Deliver
  <2>1. held \in Responses /\ target \in Requests
    BY <1>10 DEF Deliver, LoopFits
  <2> DEFINE w == [waiting EXCEPT ![target] =
                      IF held.request.kind = target.kind THEN "got" ELSE "invalid"]
  <2>2. w \in [Requests -> {"no", "yes", "got", "invalid", "timeout"}]
    BY DEF RequestsTypeOK
  <2>3. received' \in [Requests -> Responses \cup {None}]
    BY <1>10, <2>1 DEF Deliver, RequestsTypeOK
  <2>4. waiting' = NextReceiver(w, target)
    BY <1>10 DEF Deliver
  <2> HIDE DEF w
  <2>5. waiting' \in [Requests -> {"no", "yes", "got", "invalid", "timeout"}]
    BY <2>2, <2>4, RequestFacts DEF NextReceiver
  <2> QED
    BY <1>10, <2>3, <2>5 DEF Deliver, RequestsTypeOK, LoopFits, Requesting, link
<1>11. CASE ReadFails
  BY <1>11 DEF ReadFails, RequestsTypeOK, LoopFits, Requesting, link
<1> QED
  BY <1>1, <1>2, <1>3, <1>4, <1>5, <1>6, <1>7, <1>8, <1>9, <1>10, <1>11 DEF LoopStep

\* So do the other goroutines and the peer.
LEMMA OtherTypes ==
    ASSUME RequestsTypeOK, LoopFits,
           \/ \E b \in Announced : FetchStep(b)
           \/ \E x \in Askers : AskerStep(x)
           \/ PeerStep
    PROVE  RequestsTypeOK' /\ LoopFits'
<1> USE DEF queues, goroutines, order
<1>1. ASSUME NEW b \in Announced, FetchStep(b) PROVE RequestsTypeOK' /\ LoopFits'
  <2>1. ASSUME NEW r \in Requests, Timeout(r) PROVE RequestsTypeOK' /\ LoopFits'
    BY <2>1 DEF Timeout, RequestsTypeOK, LoopFits, Requesting, link
  <2>2. CASE awaitBlockResponse(b)
    BY <2>2 DEF awaitBlockResponse, processBlockComponents, RequestsTypeOK, LoopFits, Requesting, link
  <2> QED
    BY <1>1, <2>1, <2>2, RequestFacts DEF FetchStep
<1>2. ASSUME NEW x \in Askers, AskerStep(x) PROVE RequestsTypeOK' /\ LoopFits'
  <2>1. Header(x) \in Requests
    BY RequestFacts
  <2>2. CASE AskerRegisters(x)
    BY <2>1, <2>2, RegisterType DEF AskerRegisters, RequestsTypeOK, LoopFits, Requesting, link
  <2>3. CASE AskerSends(x)
    BY <2>1, <2>3, SendType DEF AskerSends, RequestsTypeOK, LoopFits, Requesting, link
  <2> QED
    BY <1>2, <2>2, <2>3 DEF AskerStep
<1>3. CASE PeerStep
  <2>1. ASSUME NEW p \in Packets[version], Announce(p) PROVE RequestsTypeOK' /\ LoopFits'
    <3>1. [blocks |-> p] \in Messages
      BY AnnouncementFacts DEF RequestsTypeOK, Messages
    <3>2. inbox' \in Seq(Messages)
      BY <2>1, <3>1, QueueFacts DEF Announce, RequestsTypeOK, Messages
    <3> QED
      BY <2>1, <3>2 DEF Announce, RequestsTypeOK, LoopFits, Requesting, link, Messages
  <2>2. CASE Answer
    <3>1. Head(wire) \in Requests /\ wire' \in Seq(Requests)
      BY <2>2, QueueFacts DEF Answer, RequestsTypeOK
    <3>2. \A found \in BOOLEAN : [request |-> Head(wire), found |-> found] \in Messages
      BY <3>1 DEF Messages, Responses
    <3>3. inbox' \in Seq(Messages)
      BY <2>2, <3>2, QueueFacts DEF Answer, RequestsTypeOK, Messages
    <3> QED
      BY <2>2, <3>1, <3>3 DEF Answer, RequestsTypeOK, LoopFits, Requesting, link, Messages
  <2>3. CASE ConnectionLost
    BY <2>3 DEF ConnectionLost, RequestsTypeOK, LoopFits, Requesting, link
  <2> QED
    BY <1>3, <2>1, <2>2, <2>3 DEF PeerStep
<1> QED
  BY <1>1, <1>2, <1>3
-----------------------------------------------------------------------------
(* Order.  An ETH65 peer answers in the order of the requests, and they    *)
(* are sent in the order in which their channels were registered: the      *)
(* responses in inbox, then the requests on the wire, are what             *)
(* responseQueue begins with.                                              *)

\* The responses in box answer the requests at the places n[1], n[2], ... of queue, behind
\* the first ones, which are being handled; an announcement has no place of its own.  The
\* requests on the wire, out, are at the places that follow.  There is a place for each of
\* them in any case; it is its own as long as no request overtook another (straight).
InOrder(n, queue, box, out, first, straight) ==
    /\ n \in [0..Len(box) -> Nat] /\ n[0] = first
    /\ \A i, j \in 0..Len(box) : i <= j => n[i] <= n[j]
    /\ \A i \in 1..Len(box) :
          /\ n[i] = n[i - 1] + (IF box[i] \in Responses THEN 1 ELSE 0)
          /\ box[i] \in Responses => /\ n[i] <= Len(queue)
                                     /\ straight => queue[n[i]] = box[i].request
    /\ n[Len(box)] + Len(out) <= Len(queue)
    /\ straight => \A k \in 1..Len(out) : queue[n[Len(box)] + k] = out[k]

\* The place of the last message is a number.
LEMMA OrderEnd ==
    ASSUME NEW box \in Seq(Messages), NEW n \in [0..Len(box) -> Nat]
    PROVE  Len(box) \in Nat /\ n[Len(box)] \in Nat
<1>1. Len(box) \in Nat
  OBVIOUS
<1>2. Len(box) \in 0..Len(box)
  BY <1>1
<1> QED
  BY <1>1, <1>2

\* Registering adds a place at the end.
LEMMA OrderRegister ==
    ASSUME NEW queue \in Seq(Requests), NEW box \in Seq(Messages), NEW out \in Seq(Requests),
           NEW straight \in BOOLEAN,
           NEW first \in Nat, NEW n, InOrder(n, queue, box, out, first, straight), NEW r \in Requests
    PROVE  InOrder(n, Append(queue, r), box, out, first, straight)
<1> DEFINE q == Append(queue, r)
<1>1. /\ Len(queue) \in Nat /\ Len(box) \in Nat /\ Len(out) \in Nat /\ Len(q) = Len(queue) + 1
      /\ \A i \in 1..Len(queue) : q[i] = queue[i]
  BY QueueFacts
<1> HIDE DEF q
<1>2. n \in [0..Len(box) -> Nat] /\ n[Len(box)] \in Nat
  BY <1>1 DEF InOrder
<1>3. ASSUME NEW i \in 1..Len(box), box[i] \in Responses
      PROVE  n[i] <= Len(q) /\ (straight => q[n[i]] = box[i].request)
  <2>0. i - 1 \in 0..Len(box) /\ n[i] = n[i - 1] + (IF box[i] \in Responses THEN 1 ELSE 0)
    BY <1>1 DEF InOrder
  <2>1. n[i - 1] \in Nat /\ n[i] = n[i - 1] + 1
    BY <2>0, <1>2, <1>3
  <2>2. n[i] <= Len(queue) /\ (straight => queue[n[i]] = box[i].request)
    BY <1>3 DEF InOrder
  <2>3. n[i] \in 1..Len(queue)
    BY <2>1, <2>2, <1>1
  <2> QED
    BY <2>2, <2>3, <1>1
<1>4. ASSUME straight, NEW k \in 1..Len(out) PROVE q[n[Len(box)] + k] = out[k]
  <2>1. n[Len(box)] + k \in 1..Len(queue)
    BY <1>1, <1>2 DEF InOrder
  <2> QED
    BY <2>1, <1>1, <1>4 DEF InOrder
<1>5. n[Len(box)] + Len(out) <= Len(q)
  BY <1>1, <1>2 DEF InOrder
<1> QED
  BY <1>3, <1>4, <1>5 DEF InOrder, q

\* Reading the next message moves every place by one message; a response that was read
\* is the one that the first channel waits for.
LEMMA OrderRead ==
    ASSUME NEW queue \in Seq(Requests), NEW box \in Seq(Messages), NEW out \in Seq(Requests),
           NEW straight \in BOOLEAN,
           box # <<>>, NEW n, InOrder(n, queue, box, out, 0, straight),
           NEW first, first = IF Head(box) \in Responses THEN 1 ELSE 0
    PROVE  \E m : /\ InOrder(m, queue, Tail(box), out, first, straight)
                  /\ m[Len(Tail(box))] = n[Len(box)]
                  /\ straight /\ Head(box) \in Responses => queue[1] = Head(box).request
<1> DEFINE t == Tail(box)
           m == [i \in 0..(Len(box) - 1) |-> n[i + 1]]
<1>1. /\ Len(queue) \in Nat /\ Len(box) \in Nat /\ Len(box) > 0 /\ Len(t) = Len(box) - 1
      /\ Head(box) = box[1] /\ \A i \in 1..(Len(box) - 1) : t[i] = box[i + 1]
  BY QueueFacts
<1>2. n \in [0..Len(box) -> Nat] /\ n[0] = 0 /\ \A i \in 1..Len(box) : i \in 0..Len(box)
  BY <1>1 DEF InOrder
<1>3. n[1] = first
  <2>1. 1 \in 1..Len(box) /\ 1 - 1 = 0
    BY <1>1
  <2> QED
    BY <2>1, <1>1, <1>2 DEF InOrder
<1>4. straight /\ Head(box) \in Responses => queue[1] = Head(box).request
  BY <1>1, <1>3 DEF InOrder
<1>5. m \in [0..Len(t) -> Nat] /\ m[0] = first /\ m[Len(t)] = n[Len(box)]
  BY <1>1, <1>2, <1>3
<1>6. ASSUME NEW i \in 1..Len(t)
      PROVE  /\ m[i] = m[i - 1] + (IF t[i] \in Responses THEN 1 ELSE 0)
             /\ t[i] \in Responses => m[i] <= Len(queue) /\ (straight => queue[m[i]] = t[i].request)
  <2> DEFINE j == i + 1
  <2>1. j \in 1..Len(box) /\ m[i] = n[j] /\ m[i - 1] = n[j - 1] /\ t[i] = box[j]
    BY <1>1
  <2> HIDE DEF j
  <2>2. /\ n[j] = n[j - 1] + (IF box[j] \in Responses THEN 1 ELSE 0)
        /\ box[j] \in Responses => n[j] <= Len(queue) /\ (straight => queue[n[j]] = box[j].request)
    BY <2>1 DEF InOrder
  <2> QED
    BY <2>1, <2>2
<1>8. ASSUME NEW i \in 0..Len(t), NEW j \in 0..Len(t), i <= j PROVE m[i] <= m[j]
  <2>1. /\ i + 1 \in 0..Len(box) /\ j + 1 \in 0..Len(box) /\ i + 1 <= j + 1
        /\ m[i] = n[i + 1] /\ m[j] = n[j + 1]
    BY <1>1, <1>8
  <2> QED
    BY <2>1 DEF InOrder
<1> HIDE DEF m, t
<1>7. /\ m[Len(t)] + Len(out) <= Len(queue)
      /\ straight => \A k \in 1..Len(out) : queue[m[Len(t)] + k] = out[k]
  BY <1>5 DEF InOrder
<1> QED
  <2>1. InOrder(m, queue, t, out, first, straight)
    BY <1>5, <1>6, <1>7, <1>8 DEF InOrder
  <2> QED
    BY <2>1, <1>4, <1>5 DEF t
\* Taking the first channel leaves one place less in front of all others.
LEMMA OrderNotify ==
    ASSUME NEW queue \in Seq(Requests), NEW box \in Seq(Messages), NEW out \in Seq(Requests),
           NEW straight \in BOOLEAN,
           NEW n, InOrder(n, queue, box, out, 1, straight)
    PROVE  LET m == [i \in 0..Len(box) |-> n[i] - 1]
           IN  /\ queue # <<>>
               /\ InOrder(m, Tail(queue), box, out, 0, straight)
               /\ m[Len(box)] = n[Len(box)] - 1
<1> DEFINE m == [i \in 0..Len(box) |-> n[i] - 1]
           q == Tail(queue)
<1>1. /\ Len(queue) \in Nat /\ Len(box) \in Nat /\ Len(out) \in Nat
      /\ 0 \in 0..Len(box) /\ Len(box) \in 0..Len(box)
  BY QueueFacts
<1>2. n \in [0..Len(box) -> Nat] /\ n[0] = 1
  BY DEF InOrder
<1>3. \A i \in 0..Len(box) : n[i] \in Nat /\ n[i] >= 1
  <2> SUFFICES ASSUME NEW i \in 0..Len(box) PROVE n[i] \in Nat /\ n[i] >= 1
    OBVIOUS
  <2>1. n[0] <= n[i]
    BY <1>1 DEF InOrder
  <2> QED
    BY <2>1, <1>2
<1>4. queue # <<>>
  <2>1. n[Len(box)] + Len(out) <= Len(queue)
    BY DEF InOrder
  <2>2. Len(queue) > 0
    BY <2>1, <1>1, <1>3
  <2> QED
    BY <2>2
<1>5. Len(q) = Len(queue) - 1 /\ \A i \in 1..(Len(queue) - 1) : q[i] = queue[i + 1]
  BY <1>4, QueueFacts
<1> HIDE DEF q
<1>6. m \in [0..Len(box) -> Nat] /\ m[0] = 0 /\ m[Len(box)] = n[Len(box)] - 1
  BY <1>1, <1>2, <1>3
<1>7. \A i, j \in 0..Len(box) : i <= j => m[i] <= m[j]
  <2> SUFFICES ASSUME NEW i \in 0..Len(box), NEW j \in 0..Len(box), i <= j PROVE m[i] <= m[j]
    OBVIOUS
  <2>1. n[i] <= n[j]
    BY DEF InOrder
  <2> QED
    BY <2>1, <1>3
<1>8. ASSUME NEW i \in 1..Len(box)
      PROVE  /\ m[i] = m[i - 1] + (IF box[i] \in Responses THEN 1 ELSE 0)
             /\ box[i] \in Responses => m[i] <= Len(q) /\ (straight => q[m[i]] = box[i].request)
  <2>1. i \in 0..Len(box) /\ i - 1 \in 0..Len(box)
    BY <1>1
  <2>2. m[i] = n[i] - 1 /\ m[i - 1] = n[i - 1] - 1 /\ n[i] \in Nat /\ n[i - 1] \in Nat /\ n[i - 1] >= 1
    BY <2>1, <1>3
  <2>3. n[i] = n[i - 1] + (IF box[i] \in Responses THEN 1 ELSE 0)
    BY DEF InOrder
  <2>4. ASSUME box[i] \in Responses PROVE m[i] <= Len(q) /\ (straight => q[m[i]] = box[i].request)
    <3>1. n[i] <= Len(queue) /\ (straight => queue[n[i]] = box[i].request)
      BY <2>4 DEF InOrder
    <3>2. m[i] \in 1..(Len(queue) - 1) /\ m[i] + 1 = n[i]
      BY <2>2, <2>3, <2>4, <3>1, <1>1
    <3> HIDE DEF m
    <3> QED
      BY <3>1, <3>2, <1>5, <1>1
  <2> HIDE DEF m
  <2> QED
    BY <2>2, <2>3, <2>4
<1> HIDE DEF m
<1>9. /\ m[Len(box)] + Len(out) <= Len(q)
      /\ straight => \A k \in 1..Len(out) : q[m[Len(box)] + k] = out[k]
  <2> DEFINE e == m[Len(box)]
  <2>1. e \in Nat /\ n[Len(box)] = e + 1
    BY <1>1, <1>3, <1>6
  <2> HIDE DEF e
  <2>2. (e + 1) + Len(out) <= Len(queue)
    BY <2>1 DEF InOrder
  <2>3. ASSUME straight, NEW k \in 1..Len(out) PROVE q[e + k] = out[k]
    <3>1. queue[(e + 1) + k] = out[k]
      BY <2>1, <2>3 DEF InOrder
    <3>2. e + k \in 1..(Len(queue) - 1) /\ (e + 1) + k = (e + k) + 1
      BY <2>1, <2>2, <1>1
    <3> QED
      BY <3>1, <3>2, <1>5
  <2> QED
    BY <2>1, <2>2, <2>3, <1>1, <1>5 DEF e
<1> QED
  BY <1>4, <1>6, <1>7, <1>8, <1>9 DEF InOrder, m, q

\* Another message from the peer: an announcement takes no place, an answer the place of
\* the first request on the wire.
LEMMA OrderArrive ==
    ASSUME NEW queue \in Seq(Requests), NEW box \in Seq(Messages), NEW out \in Seq(Requests),
           NEW straight \in BOOLEAN,
           NEW first \in Nat, NEW n, InOrder(n, queue, box, out, first, straight),
           NEW msg \in Messages, NEW rest \in Seq(Requests),
           msg \in Responses => out # <<>> /\ msg.request = Head(out) /\ rest = Tail(out),
           msg \notin Responses => rest = out
    PROVE  \E m : /\ InOrder(m, queue, Append(box, msg), rest, first, straight)
                  /\ m[Len(Append(box, msg))] + Len(rest) = n[Len(box)] + Len(out)
<1> DEFINE add == IF msg \in Responses THEN 1 ELSE 0
           m == [i \in 0..(Len(box) + 1) |-> IF i <= Len(box) THEN n[i] ELSE n[Len(box)] + add]
           t == Append(box, msg)
           l == Len(box)
<1>1. /\ Len(queue) \in Nat /\ l \in Nat /\ Len(out) \in Nat /\ Len(t) = l + 1
      /\ \A i \in 1..l : t[i] = box[i]
      /\ t[l + 1] = msg
  BY QueueFacts
<1>2. n \in [0..l -> Nat] /\ n[0] = first /\ add \in Nat /\ n[l] \in Nat
  BY <1>1 DEF InOrder
<1>3. m \in [0..Len(t) -> Nat] /\ m[0] = first /\ m[l + 1] = n[l] + add /\ m[l] = n[l]
  BY <1>1, <1>2
<1>4. \A i \in 0..l : m[i] = n[i]
  BY <1>1
<1>5. /\ n[l] + Len(out) <= Len(queue)
      /\ straight => \A k \in 1..Len(out) : queue[n[l] + k] = out[k]
      /\ \A i, j \in 0..l : i <= j => n[i] <= n[j]
  BY DEF InOrder
<1> HIDE DEF m, t
<1>6. ASSUME NEW i \in 0..Len(t), NEW j \in 0..Len(t), i <= j PROVE m[i] <= m[j]
  <2>1. CASE j <= l
    BY SMTT(20), <2>1, <1>1, <1>4, <1>5, <1>6
  <2>2. CASE j > l /\ i <= l
    <3>0. i \in 0..l /\ l \in 0..l /\ i <= l
      BY <2>2, <1>1
    <3>1. j = l + 1 /\ n[i] <= n[l] /\ n[i] \in Nat
      <4>1. n[i] <= n[l]
        BY <3>0, <1>5
      <4>2. j = l + 1
        BY <2>2, <1>1
      <4> QED
        BY <3>0, <4>1, <4>2, <1>2
    <3> QED
      BY <3>0, <3>1, <1>2, <1>3, <1>4
  <2>3. CASE i > l
    <3>1. i = l + 1 /\ j = l + 1 /\ m[l + 1] \in Nat
      BY <2>3, <1>1, <1>2, <1>3, <1>6
    <3> QED
      BY <3>1
  <2> QED
    BY <2>1, <2>2, <2>3, <1>1
<1>7. CASE msg \in Responses
  <2>1. /\ add = 1 /\ out # <<>> /\ msg.request = out[1] /\ Len(rest) = Len(out) - 1 /\ Len(out) > 0
        /\ \A k \in 1..(Len(out) - 1) : rest[k] = out[k + 1]
    <3>1. out # <<>> /\ msg.request = Head(out) /\ rest = Tail(out) /\ add = 1
      BY <1>7
    <3> QED
      BY <3>1, QueueFacts
  <2>2. ASSUME NEW i \in 1..Len(t)
        PROVE  /\ m[i] = m[i - 1] + (IF t[i] \in Responses THEN 1 ELSE 0)
               /\ t[i] \in Responses => m[i] <= Len(queue) /\ (straight => queue[m[i]] = t[i].request)
    <3>1. CASE i <= l
      <4>1. i \in 1..l /\ i - 1 \in 0..l /\ m[i] = n[i] /\ m[i - 1] = n[i - 1] /\ t[i] = box[i]
        BY <3>1, <1>1, <1>4
      <4> QED
        BY <4>1 DEF InOrder
    <3>2. CASE i > l
      <4>1. i = l + 1 /\ i - 1 = l /\ t[i] = msg
        BY <3>2, <1>1
      <4>2. m[i] = n[l] + 1 /\ m[i - 1] = n[l]
        BY <4>1, <2>1, <1>3
      <4>3. n[l] + 1 <= Len(queue) /\ (straight => queue[n[l] + 1] = out[1])
        BY <2>1, <1>1, <1>2, <1>5
      <4> QED
        BY <4>1, <4>2, <4>3, <2>1, <1>7
    <3> QED
      BY <3>1, <3>2, <1>1
  <2>3. m[Len(t)] = n[l] + 1
    BY <2>1, <1>1, <1>3
  <2>4. m[Len(t)] + Len(rest) = n[l] + Len(out)
    BY <2>1, <2>3, <1>1, <1>2
  <2>5. ASSUME straight, NEW k \in 1..Len(rest) PROVE queue[m[Len(t)] + k] = rest[k]
    <3> HIDE DEF l, add
    <3>0. k \in 1..(Len(out) - 1) /\ k \in Nat
      BY <2>1, <1>1
    <3>1. rest[k] = out[k + 1]
      BY <3>0, <2>1
    <3>2. k + 1 \in 1..Len(out)
      BY <3>0, <1>1
    <3>3. (n[l] + 1) + k = n[l] + (k + 1)
      <4>1. \A x, y \in Nat : (x + 1) + y = x + (y + 1)
        OBVIOUS
      <4>2. n[l] \in Nat
        BY <1>2
      <4> QED
        BY <3>0, <4>1, <4>2
    <3>4. queue[n[l] + (k + 1)] = out[k + 1]
      BY <3>2, <1>5, <2>5
    <3> QED
      BY <3>1, <3>3, <3>4, <2>3
  <2>6. InOrder(m, queue, t, rest, first, straight)
    BY <2>2, <2>4, <2>5, <1>3, <1>5, <1>6, <1>1 DEF InOrder
  <2> QED
    BY <2>4, <2>6 DEF t
<1>8. CASE msg \notin Responses
  <2>1. add = 0 /\ rest = out
    BY <1>8
  <2>2. ASSUME NEW i \in 1..Len(t)
        PROVE  /\ m[i] = m[i - 1] + (IF t[i] \in Responses THEN 1 ELSE 0)
               /\ t[i] \in Responses => m[i] <= Len(queue) /\ (straight => queue[m[i]] = t[i].request)
    <3>1. CASE i <= l
      <4>1. i \in 1..l /\ i - 1 \in 0..l /\ m[i] = n[i] /\ m[i - 1] = n[i - 1] /\ t[i] = box[i]
        BY <3>1, <1>1, <1>4
      <4> QED
        BY <4>1 DEF InOrder
    <3>2. CASE i > l
      <4>1. i = l + 1 /\ i - 1 = l /\ t[i] = msg
        BY <3>2, <1>1
      <4>2. m[i] = n[l] /\ m[i - 1] = n[l]
        BY <4>1, <2>1, <1>2, <1>3
      <4> QED
        BY <4>1, <4>2, <1>2, <1>8
    <3> QED
      BY <3>1, <3>2, <1>1
  <2>3. m[Len(t)] = n[l]
    BY <2>1, <1>1, <1>2, <1>3
  <2>4. InOrder(m, queue, t, rest, first, straight)
    BY <2>1, <2>2, <2>3, <1>3, <1>5, <1>6, <1>1 DEF InOrder
  <2> QED
    BY <2>1, <2>3, <2>4 DEF t
<1> QED
  BY <1>7, <1>8

\* Sending the request that is next in the queue.
LEMMA OrderSend ==
    ASSUME NEW queue \in Seq(Requests), NEW box \in Seq(Messages), NEW out \in Seq(Requests),
           NEW straight \in BOOLEAN,
           NEW first \in Nat, NEW n, InOrder(n, queue, box, out, first, straight),
           n[Len(box)] + Len(out) < Len(queue),
           NEW r \in Requests, straight => queue[n[Len(box)] + Len(out) + 1] = r
    PROVE  InOrder(n, queue, box, Append(out, r), first, straight)
<1> DEFINE w == Append(out, r)
           e == n[Len(box)]
<1>1. /\ Len(queue) \in Nat /\ Len(box) \in Nat /\ Len(out) \in Nat /\ Len(w) = Len(out) + 1
      /\ \A i \in 1..Len(out) : w[i] = out[i]
      /\ w[Len(out) + 1] = r
  BY QueueFacts
<1>2. e \in Nat
  BY <1>1 DEF InOrder
<1>3. straight => \A k \in 1..Len(out) : queue[e + k] = out[k]
  BY DEF InOrder
<1> HIDE DEF w, e
<1>4. ASSUME straight, NEW k \in 1..Len(w) PROVE queue[e + k] = w[k]
  <2>1. CASE k <= Len(out)
    BY <2>1, <1>1, <1>3, <1>4
  <2>2. CASE k > Len(out)
    <3>1. k = Len(out) + 1
      BY <2>2, <1>1
    <3>2. e + (Len(out) + 1) = e + Len(out) + 1
      BY <1>1, <1>2
    <3> QED
      BY <3>1, <3>2, <1>1, <1>4 DEF e
  <2> QED
    BY <2>1, <2>2, <1>1
<1>5. e + Len(w) <= Len(queue)
  BY <1>1, <1>2 DEF e
<1> QED
  BY <1>4, <1>5 DEF InOrder, w, e
\* The message loop is handling a response whose channel is still registered.
First == IF loop = "match" THEN 1 ELSE 0

\* What the loop and the other goroutines have registered and not sent is in unsent.
PendingUnsent ==
    /\ loop \in {"registerBodies", "sendHeaders"} => Within(Header(todo[1]), unsent)
    /\ loop \in {"sendHeaders", "sendBodies"} => Within(Body(todo[1]), unsent)
    /\ \A x \in Askers : asker[x] = "send" => Within(Header(x), unsent)

\* While the connection lasts the queue ends with the requests that are not sent; what is
\* sent later is lost.
Placed(n) ==
    /\ InOrder(n, responseQueue, inbox, wire, First, ~crossed)
    /\ connected =>
          /\ n[Len(inbox)] + Len(wire) + Len(unsent) = Len(responseQueue)
          /\ ~crossed => \A k \in 1..Len(unsent) :
                            responseQueue[n[Len(inbox)] + Len(wire) + k] = unsent[k]

\* The order of requests and responses at an ETH65 peer.
OrderKept ==
    /\ connected => ~disconnected
    /\ loop = "match" /\ ~crossed => responseQueue[1] = held.request
    /\ PendingUnsent
    /\ \E n : Placed(n)

\* The sequences that the order is about, and the place of the last message.
LEMMA OrderTypes ==
    ASSUME RequestsTypeOK
    PROVE  /\ responseQueue \in Seq(Requests) /\ inbox \in Seq(Messages) /\ wire \in Seq(Requests)
           /\ unsent \in Seq(Requests) /\ crossed \in BOOLEAN /\ First \in Nat
           /\ Len(responseQueue) \in Nat /\ Len(inbox) \in Nat /\ Len(wire) \in Nat
           /\ Len(unsent) \in Nat
           /\ \A n : Placed(n) => n[Len(inbox)] \in Nat
<1>1. /\ responseQueue \in Seq(Requests) /\ inbox \in Seq(Messages) /\ wire \in Seq(Requests)
      /\ unsent \in Seq(Requests) /\ crossed \in BOOLEAN /\ First \in Nat
      /\ Len(responseQueue) \in Nat /\ Len(inbox) \in Nat /\ Len(wire) \in Nat
      /\ Len(unsent) \in Nat
  BY DEF RequestsTypeOK, Messages, First
<1>2. ASSUME NEW n, Placed(n) PROVE n[Len(inbox)] \in Nat
  BY <1>1, <1>2, OrderEnd DEF Placed, InOrder
<1> QED
  BY <1>1, <1>2

\* Registering a request adds it to the queue and to what is not sent.
LEMMA PlacedRegister ==
    ASSUME RequestsTypeOK, version = 65, NEW n, Placed(n), NEW r \in Requests,
           registerForResponse(r), UNCHANGED <<inbox, wire, connected>>, First' = First
    PROVE  /\ Placed(n)' /\ crossed' = crossed
           /\ \A i \in 1..Len(responseQueue) : responseQueue'[i] = responseQueue[i]
           /\ \A q : Within(q, unsent) => Within(q, unsent')
           /\ Within(r, unsent')
<1>1. /\ responseQueue \in Seq(Requests) /\ inbox \in Seq(Messages) /\ wire \in Seq(Requests)
      /\ unsent \in Seq(Requests) /\ crossed \in BOOLEAN /\ First \in Nat
      /\ Len(responseQueue) \in Nat /\ Len(inbox) \in Nat /\ Len(wire) \in Nat
      /\ Len(unsent) \in Nat /\ n[Len(inbox)] \in Nat
  BY OrderTypes
<1>2. /\ responseQueue' = Append(responseQueue, r) /\ unsent' = Append(unsent, r)
      /\ crossed' = crossed
  BY DEF registerForResponse
<1>3. /\ Len(responseQueue') = Len(responseQueue) + 1
      /\ \A i \in 1..Len(responseQueue) : responseQueue'[i] = responseQueue[i]
      /\ responseQueue'[Len(responseQueue) + 1] = r
  BY <1>1, <1>2, QueueFacts
<1>4. /\ Len(unsent') = Len(unsent) + 1
      /\ \A i \in 1..Len(unsent) : unsent'[i] = unsent[i]
      /\ unsent'[Len(unsent) + 1] = r
  BY <1>1, <1>2, QueueFacts
<1>5. Within(r, unsent') /\ \A q : Within(q, unsent) => Within(q, unsent')
  <2>1. /\ Len(unsent) + 1 \in 1..Len(unsent')
        /\ \A i \in 1..Len(unsent) : i \in 1..Len(unsent')
    BY <1>1, <1>4
  <2> QED
    BY <1>4, <2>1 DEF Within
<1>6. InOrder(n, responseQueue', inbox', wire', First', ~crossed')
  <2>1. InOrder(n, responseQueue, inbox, wire, First, ~crossed)
    BY DEF Placed
  <2>2. PICK s \in BOOLEAN : s = ~crossed
    BY <1>1
  <2>3. InOrder(n, Append(responseQueue, r), inbox, wire, First, s)
    BY <1>1, <2>1, <2>2, OrderRegister
  <2> QED
    BY <1>2, <2>2, <2>3
<1>7. ASSUME connected
      PROVE  /\ n[Len(inbox)] + Len(wire) + Len(unsent') = Len(responseQueue')
             /\ ~crossed => \A k \in 1..Len(unsent') :
                               responseQueue'[n[Len(inbox)] + Len(wire) + k] = unsent'[k]
  <2>1. PICK e \in Nat : e = n[Len(inbox)] + Len(wire)
    BY <1>1
  <2>2. /\ e + Len(unsent) = Len(responseQueue)
        /\ ~crossed => \A k \in 1..Len(unsent) : responseQueue[e + k] = unsent[k]
    BY <1>7, <2>1 DEF Placed
  <2>3. ASSUME ~crossed, NEW k \in 1..Len(unsent') PROVE responseQueue'[e + k] = unsent'[k]
    <3>1. CASE k \in 1..Len(unsent)
      <4>1. e + k \in 1..Len(responseQueue)
        BY <1>1, <2>2, <3>1
      <4> QED
        BY <1>3, <1>4, <2>2, <2>3, <3>1, <4>1
    <3>2. CASE k = Len(unsent) + 1
      <4>1. e + k = Len(responseQueue) + 1
        BY <1>1, <2>2, <3>2
      <4> QED
        BY <1>3, <1>4, <3>2, <4>1
    <3> QED
      BY <1>1, <1>4, <3>1, <3>2
  <2>4. e + Len(unsent') = Len(responseQueue')
    BY <1>1, <1>3, <1>4, <2>2
  <2> QED
    BY <2>1, <2>3, <2>4
<1>8. Placed(n)'
  BY <1>2, <1>6, <1>7 DEF Placed
<1> QED
  BY <1>2, <1>3, <1>5, <1>8

\* The order is asked for less once a request overtook another.
LEMMA OrderWeaker ==
    ASSUME NEW n, NEW queue, NEW box, NEW out, NEW first, NEW s, NEW t,
           InOrder(n, queue, box, out, first, s), t => s
    PROVE  InOrder(n, queue, box, out, first, t)
BY DEF InOrder

\* Sending a request that was registered.  It is lost when the connection is.
LEMMA PlacedSend ==
    ASSUME RequestsTypeOK, connected => ~disconnected, NEW n, Placed(n),
           NEW r \in Requests, Within(r, unsent), send(r),
           UNCHANGED <<responseQueue, inbox, connected>>, First' = First
    PROVE  Placed(n)' /\ (crossed => crossed')
<1>1. /\ responseQueue \in Seq(Requests) /\ inbox \in Seq(Messages) /\ wire \in Seq(Requests)
      /\ unsent \in Seq(Requests) /\ First \in Nat
      /\ Len(responseQueue) \in Nat /\ Len(inbox) \in Nat /\ Len(wire) \in Nat
      /\ Len(unsent) \in Nat /\ n[Len(inbox)] \in Nat
  BY OrderTypes
<1>2. /\ crossed' \in BOOLEAN /\ (crossed => crossed')
      /\ Len(unsent) > 0 /\ Len(unsent') = Len(unsent) - 1
      /\ connected /\ ~crossed' =>
           /\ unsent[1] = r
           /\ \A i \in 1..(Len(unsent) - 1) : unsent'[i] = unsent[i + 1]
  BY NoteSentFacts DEF send
<1>3. PICK s \in BOOLEAN : s = ~crossed'
  BY <1>2
<1>4. InOrder(n, responseQueue, inbox, wire, First, s)
  BY <1>2, <1>3, OrderWeaker DEF Placed
<1>5. CASE ~connected
  <2>1. wire' = wire
    BY <1>5 DEF send
  <2> QED
    BY <1>2, <1>3, <1>4, <1>5, <2>1 DEF Placed
<1>6. CASE connected
  <2>1. wire' = Append(wire, r) /\ Len(wire') = Len(wire) + 1
    BY <1>1, <1>6, QueueFacts DEF send
  <2>2. PICK e \in Nat : e = n[Len(inbox)]
    BY <1>1
  <2>3. /\ e + Len(wire) + Len(unsent) = Len(responseQueue)
        /\ s => \A k \in 1..Len(unsent) : responseQueue[e + Len(wire) + k] = unsent[k]
    BY <1>2, <1>3, <1>6, <2>2 DEF Placed
  <2>4. s => responseQueue[e + Len(wire) + 1] = r
    <3>1. 1 \in 1..Len(unsent)
      BY <1>1, <1>2
    <3> QED
      BY <1>2, <1>3, <1>6, <2>3, <3>1
  <2>5. e + Len(wire) < Len(responseQueue)
    BY <1>1, <1>2, <2>3
  <2>6. InOrder(n, responseQueue, inbox, Append(wire, r), First, s)
    BY <1>1, <1>4, <2>2, <2>4, <2>5, OrderSend
  <2>7. e + Len(wire') + Len(unsent') = Len(responseQueue)
    <3>1. \A x, y, z \in Nat : z > 0 => x + (y + 1) + (z - 1) = x + y + z
      OBVIOUS
    <3>2. e + (Len(wire) + 1) + (Len(unsent) - 1) = e + Len(wire) + Len(unsent)
      BY <1>1, <1>2, <3>1
    <3> QED
      BY <1>2, <2>1, <2>3, <3>2
  <2>8. ASSUME s, NEW k \in 1..Len(unsent') PROVE responseQueue[e + Len(wire') + k] = unsent'[k]
    <3>1. /\ k \in 1..(Len(unsent) - 1) /\ k + 1 \in 1..Len(unsent)
          /\ e + Len(wire') + k = e + Len(wire) + (k + 1)
      BY <1>1, <1>2, <2>1
    <3>2. responseQueue[e + Len(wire) + (k + 1)] = unsent[k + 1]
      BY <2>3, <2>8, <3>1
    <3>3. unsent'[k] = unsent[k + 1]
      BY <1>2, <1>3, <1>6, <2>8, <3>1
    <3> QED
      BY <3>1, <3>2, <3>3
  <2> QED
    BY <1>2, <1>3, <2>1, <2>2, <2>6, <2>7, <2>8 DEF Placed
<1> QED
  BY <1>2, <1>5, <1>6

\* Registering the next request of a block.
LEMMA OrderKeptRegister ==
    ASSUME RequestsTypeOK, LoopFits, OrderKept, version = 65, RegisterHeaders \/ RegisterBodies
    PROVE  OrderKept'
<1> USE DEF goroutines, link
<1>1. PICK n : Placed(n)
  BY DEF OrderKept
<1>2. /\ todo # <<>> /\ Header(todo[1]) \in Requests /\ Body(todo[1]) \in Requests
  BY CurrentBlock DEF RegisterHeaders, RegisterBodies, Requesting
<1>3. PICK r \in Requests :
        /\ registerForResponse(r)
        /\ \/ loop = "registerHeaders" /\ loop' = "registerBodies" /\ r = Header(todo[1])
           \/ loop = "registerBodies" /\ loop' = "sendHeaders" /\ r = Body(todo[1])
        /\ UNCHANGED <<todo, inbox, wire, asker, connected, disconnected>>
  BY <1>2 DEF RegisterHeaders, RegisterBodies
<1>4. First' = First /\ loop' # "match"
  BY <1>3 DEF First
<1>5. /\ Placed(n)'
      /\ \A q : Within(q, unsent) => Within(q, unsent')
      /\ Within(r, unsent')
  BY <1>1, <1>3, <1>4, PlacedRegister
<1>6. PendingUnsent'
  <2>1. PendingUnsent
    BY DEF OrderKept
  <2> QED
    BY <1>3, <1>5, <2>1 DEF PendingUnsent
<1> QED
  BY <1>3, <1>4, <1>5, <1>6 DEF OrderKept

\* Sending it.
LEMMA OrderKeptSend ==
    ASSUME RequestsTypeOK, LoopFits, OrderKept, version = 65, SendHeaders \/ SendBodies
    PROVE  OrderKept'
<1> USE DEF goroutines, link, queues
<1>1. PICK n : Placed(n)
  BY DEF OrderKept
<1>2. /\ todo # <<>> /\ todo[1] \in Announced
      /\ Header(todo[1]) \in Requests /\ Body(todo[1]) \in Requests
  BY CurrentBlock DEF SendHeaders, SendBodies, Requesting
<1>3. PICK r \in Requests :
        /\ send(r)
        /\ \/ loop = "sendHeaders" /\ r = Header(todo[1]) /\ todo' = todo
              /\ loop' \in {"returned", "sendBodies"}
           \/ loop = "sendBodies" /\ r = Body(todo[1]) /\ loop' \in {"returned", "announce"}
        /\ UNCHANGED <<responseQueue, inbox, asker, connected, disconnected>>
  BY <1>2 DEF SendHeaders, SendBodies
<1>4. First' = First /\ loop' # "match" /\ PendingUnsent
  BY <1>3 DEF First, OrderKept
<1>5. Within(r, unsent)
  BY <1>3, <1>4 DEF PendingUnsent
<1>6. Placed(n)'
  BY <1>1, <1>3, <1>4, <1>5, PlacedSend DEF OrderKept
<1>7. \A q : Within(q, unsent) /\ q # r => Within(q, unsent')
  BY <1>3, NoteSentFacts DEF send
<1>8. \A x \in Askers : Header(x) # r
  BY <1>2, <1>3, RequestFacts, RequestsAssumption DEF Askers
<1>9. PendingUnsent'
  BY <1>3, <1>4, <1>7, <1>8, RequestFacts DEF PendingUnsent
<1> QED
  BY <1>3, <1>4, <1>6, <1>9 DEF OrderKept

\* A goroutine other than the loop registers or sends its request.
LEMMA OrderKeptAsker ==
    ASSUME RequestsTypeOK, LoopFits, OrderKept, version = 65, NEW x \in Askers, AskerStep(x)
    PROVE  OrderKept'
<1> USE DEF goroutines, link, queues
<1>1. PICK n : Placed(n)
  BY DEF OrderKept
<1>2. /\ Header(x) \in Requests /\ PendingUnsent /\ asker \in [Askers -> {"idle", "send", "done"}]
      /\ \A y \in Askers : Header(y) = Header(x) => y = x
  BY RequestFacts DEF OrderKept, RequestsTypeOK
<1>3. CASE AskerRegisters(x)
  <2>1. /\ registerForResponse(Header(x)) /\ asker' = [asker EXCEPT ![x] = "send"]
        /\ UNCHANGED <<loop, todo, held, inbox, wire, connected, disconnected>>
    BY <1>3 DEF AskerRegisters
  <2>2. First' = First
    BY <2>1 DEF First
  <2>3. /\ Placed(n)' /\ crossed' = crossed
        /\ \A i \in 1..Len(responseQueue) : responseQueue'[i] = responseQueue[i]
        /\ \A q : Within(q, unsent) => Within(q, unsent')
        /\ Within(Header(x), unsent')
    BY <1>1, <1>2, <2>1, <2>2, PlacedRegister
  <2>4. loop = "match" => responseQueue'[1] = responseQueue[1]
    <3> SUFFICES ASSUME loop = "match" PROVE 1 \in 1..Len(responseQueue)
      BY <2>3
    <3>1. PICK s \in BOOLEAN : InOrder(n, responseQueue, inbox, wire, 1, s)
      BY <1>1, OrderTypes DEF Placed, First
    <3>2. responseQueue # <<>>
      BY <3>1, OrderTypes, OrderNotify
    <3> QED
      BY <3>2, OrderTypes
  <2>5. PendingUnsent'
    BY <1>2, <2>1, <2>3 DEF PendingUnsent
  <2> QED
    BY <2>1, <2>3, <2>4, <2>5 DEF OrderKept
<1>4. CASE AskerSends(x)
  <2>1. /\ send(Header(x)) /\ asker[x] = "send" /\ asker' = [asker EXCEPT ![x] = "done"]
        /\ UNCHANGED <<loop, todo, held, responseQueue, inbox, connected, disconnected>>
    BY <1>4 DEF AskerSends
  <2>2. First' = First /\ Within(Header(x), unsent)
    BY <1>2, <2>1 DEF First, PendingUnsent
  <2>3. Placed(n)' /\ (crossed => crossed')
    BY <1>1, <1>2, <2>1, <2>2, PlacedSend DEF OrderKept
  <2>4. \A q : Within(q, unsent) /\ q # Header(x) => Within(q, unsent')
    BY <1>2, <2>1, NoteSentFacts DEF send
  <2>5. /\ loop \in {"registerBodies", "sendHeaders"} => Header(todo[1]) # Header(x)
        /\ Body(todo[1]) # Header(x)
    <3>1. loop \in {"registerBodies", "sendHeaders"} => todo[1] \in Announced /\ x \notin Announced
      BY CurrentBlock, RequestsAssumption DEF Requesting, Askers
    <3> QED
      BY <3>1, RequestFacts
  <2>6. PendingUnsent'
    BY <1>2, <2>1, <2>4, <2>5 DEF PendingUnsent
  <2> QED
    BY <2>1, <2>3, <2>6 DEF OrderKept
<1> QED
  BY <1>3, <1>4 DEF AskerStep

\* Reading a message: a response that is being handled is the one that the first channel
\* of responseQueue waits for.
LEMMA OrderKeptRead ==
    ASSUME RequestsTypeOK, LoopFits, OrderKept, version = 65, HandleAnnouncement \/ HandleResponse
    PROVE  OrderKept'
<1> USE DEF goroutines, link, queues, order
<1>1. PICK n : Placed(n)
  BY DEF OrderKept
<1>2. /\ responseQueue \in Seq(Requests) /\ inbox \in Seq(Messages) /\ wire \in Seq(Requests)
  BY OrderTypes
<1>3. /\ loop = "read" /\ inbox # <<>> /\ inbox' = Tail(inbox)
      /\ UNCHANGED <<responseQueue, wire, asker, connected, disconnected, unsent, crossed>>
      /\ \/ Head(inbox) \notin Responses /\ loop' = "announce"
         \/ Head(inbox) \in Responses /\ loop' = "match" /\ held' = Head(inbox)
  BY AnnouncementFacts DEF HandleAnnouncement, HandleResponse
<1>4. First = 0 /\ First' = IF Head(inbox) \in Responses THEN 1 ELSE 0
  BY <1>3 DEF First
<1>5. PICK s \in BOOLEAN : s = ~crossed
  BY OrderTypes
<1>6. InOrder(n, responseQueue, inbox, wire, 0, s)
  BY <1>1, <1>4, <1>5 DEF Placed
<1>7. PICK m :
        /\ InOrder(m, responseQueue, Tail(inbox), wire,
                   IF Head(inbox) \in Responses THEN 1 ELSE 0, s)
        /\ m[Len(Tail(inbox))] = n[Len(inbox)]
        /\ s /\ Head(inbox) \in Responses => responseQueue[1] = Head(inbox).request
  <2>1. PICK f : f = IF Head(inbox) \in Responses THEN 1 ELSE 0
    OBVIOUS
  <2> QED
    BY <1>2, <1>3, <1>6, <2>1, OrderRead
<1>8. Placed(m)'
  BY <1>1, <1>3, <1>4, <1>5, <1>7 DEF Placed
<1>9. PendingUnsent'
  BY <1>3 DEF PendingUnsent, OrderKept
<1>10. loop' = "match" /\ ~crossed' => responseQueue'[1] = held'.request
  BY <1>3, <1>5, <1>7
<1> QED
  BY <1>3, <1>8, <1>9, <1>10 DEF OrderKept

\* The message loop keeps the order, and a response goes to its own request.
LEMMA OrderKeptLoop ==
    ASSUME RequestsTypeOK, LoopFits, OrderKept, version = 65, LoopStep
    PROVE  /\ OrderKept'
           /\ NotifyResponse /\ ~crossed => Head(responseQueue) = held.request
<1> USE DEF goroutines, link, queues, order
<1>1. PICK n : Placed(n)
  BY DEF OrderKept
<1>2. /\ responseQueue \in Seq(Requests) /\ inbox \in Seq(Messages) /\ wire \in Seq(Requests)
      /\ Len(responseQueue) \in Nat /\ Len(inbox) \in Nat /\ Len(wire) \in Nat
      /\ Len(unsent) \in Nat /\ n[Len(inbox)] \in Nat /\ PendingUnsent
  BY <1>1, OrderTypes DEF OrderKept
<1>3. ASSUME processBlockAnnouncement \/ Deliver \/ ReadFails PROVE OrderKept'
  <2>1. /\ loop \in {"announce", "deliver", "read"}
        /\ loop' \in {"announce", "read", "registerHeaders", "returned"}
        /\ UNCHANGED <<responseQueue, inbox, wire, asker, connected, disconnected, unsent, crossed>>
    BY <1>3 DEF processBlockAnnouncement, Deliver, ReadFails
  <2>2. First = 0 /\ First' = 0 /\ loop' # "match"
    BY <2>1 DEF First
  <2>3. PendingUnsent'
    BY <1>2, <2>1 DEF PendingUnsent
  <2>4. Placed(n)'
    BY <1>1, <2>1, <2>2 DEF Placed
  <2> QED
    BY <2>1, <2>2, <2>3, <2>4 DEF OrderKept
<1>4. ASSUME NotifyResponse
      PROVE  OrderKept' /\ (~crossed => Head(responseQueue) = held.request)
  <2>1. /\ loop = "match" /\ responseQueue # <<>> /\ responseQueue' = Tail(responseQueue)
        /\ UNCHANGED <<inbox, wire, asker, connected, disconnected, unsent, crossed>>
        /\ loop' \in {"deliver", "read"}
    BY <1>4 DEF NotifyResponse, Matched
  <2>2. ~crossed => Head(responseQueue) = held.request
    BY <2>1, <1>2, QueueFacts DEF OrderKept
  <2>3. First = 1 /\ First' = 0
    BY <2>1 DEF First
  <2>4. PICK s \in BOOLEAN : s = ~crossed
    BY OrderTypes
  <2>5. PICK m : /\ InOrder(m, Tail(responseQueue), inbox, wire, 0, s)
                 /\ m[Len(inbox)] = n[Len(inbox)] - 1
    <3>1. InOrder(n, responseQueue, inbox, wire, 1, s)
      BY <1>1, <2>3, <2>4 DEF Placed
    <3> DEFINE g == [i \in 0..Len(inbox) |-> n[i] - 1]
    <3>2. InOrder(g, Tail(responseQueue), inbox, wire, 0, s) /\ g[Len(inbox)] = n[Len(inbox)] - 1
      BY <3>1, <1>2, OrderNotify
    <3> HIDE DEF g
    <3> QED
      BY <3>2
  <2>6. /\ Len(responseQueue') = Len(responseQueue) - 1
        /\ \A i \in 1..(Len(responseQueue) - 1) : responseQueue'[i] = responseQueue[i + 1]
    BY <2>1, <1>2, QueueFacts
  <2>7. m[Len(inbox)] \in Nat
    BY <1>2, <2>5, OrderEnd DEF InOrder
  <2>8. PICK e \in Nat : e = m[Len(inbox)] + Len(wire)
    BY <1>2, <2>7
  <2>9. n[Len(inbox)] + Len(wire) = e + 1
    BY <1>2, <2>5, <2>7, <2>8
  <2>10. ASSUME connected
         PROVE  /\ e + Len(unsent) = Len(responseQueue')
                /\ ~crossed => \A k \in 1..Len(unsent) : responseQueue'[e + k] = unsent[k]
    <3>1. /\ (e + 1) + Len(unsent) = Len(responseQueue)
          /\ ~crossed => \A k \in 1..Len(unsent) : responseQueue[(e + 1) + k] = unsent[k]
      BY <1>1, <2>9, <2>10 DEF Placed
    <3>2. ASSUME NEW k \in 1..Len(unsent)
          PROVE  e + k \in 1..(Len(responseQueue) - 1) /\ (e + 1) + k = (e + k) + 1
      BY <1>2, <3>1
    <3>3. e + Len(unsent) = Len(responseQueue')
      BY <1>2, <2>6, <3>1
    <3> QED
      BY <2>6, <3>1, <3>2, <3>3
  <2>11. Placed(m)'
    BY <2>1, <2>3, <2>4, <2>5, <2>8, <2>10 DEF Placed
  <2>12. PendingUnsent'
    BY <1>2, <2>1 DEF PendingUnsent
  <2> QED
    BY <2>1, <2>2, <2>11, <2>12 DEF OrderKept
<1>5. ~NotifyResponse66
  BY DEF NotifyResponse66
<1>6. NotifyResponse => ~(HandleAnnouncement \/ HandleResponse \/ RegisterHeaders \/ RegisterBodies
                          \/ SendHeaders \/ SendBodies)
  BY DEF NotifyResponse, HandleAnnouncement, HandleResponse, RegisterHeaders, RegisterBodies,
         SendHeaders, SendBodies
<1> QED
  BY <1>3, <1>4, <1>5, <1>6, OrderKeptRegister, OrderKeptSend, OrderKeptRead DEF LoopStep

\* So do the other goroutines and the peer, which answers in order.
LEMMA OrderKeptOther ==
    ASSUME RequestsTypeOK, LoopFits, OrderKept, version = 65,
           \/ \E b \in Announced : FetchStep(b)
           \/ \E x \in Askers : AskerStep(x)
           \/ PeerStep
           \/ UNCHANGED requestVars
    PROVE  OrderKept'
<1> USE DEF goroutines, link, queues, order
<1>1. PICK n : Placed(n)
  BY DEF OrderKept
<1>2. /\ responseQueue \in Seq(Requests) /\ inbox \in Seq(Messages) /\ wire \in Seq(Requests)
      /\ Len(responseQueue) \in Nat /\ Len(inbox) \in Nat /\ Len(wire) \in Nat
  BY OrderTypes
<1>3. ASSUME UNCHANGED <<loop, todo, held, responseQueue, inbox, wire, asker, unsent, crossed>>,
             \/ connected' = FALSE
             \/ connected' = connected /\ disconnected' = disconnected
      PROVE  OrderKept'
  <2>1. Placed(n)'
    BY <1>1, <1>3 DEF Placed, First
  <2>2. PendingUnsent'
    BY <1>3 DEF PendingUnsent, OrderKept
  <2> QED
    BY <2>1, <2>2, <1>3 DEF OrderKept
<1>4. ASSUME NEW b \in Announced, FetchStep(b) PROVE OrderKept'
  BY <1>3, <1>4 DEF FetchStep, Timeout, awaitBlockResponse
<1>5. ASSUME NEW x \in Askers, AskerStep(x) PROVE OrderKept'
  BY <1>5, OrderKeptAsker
<1>6. ASSUME NEW msg \in Messages, NEW rest \in Seq(Requests),
             msg \in Responses => wire # <<>> /\ msg.request = Head(wire) /\ rest = Tail(wire),
             msg \notin Responses => rest = wire,
             inbox' = Append(inbox, msg), wire' = rest,
             UNCHANGED <<loop, todo, held, responseQueue, asker, connected, disconnected, unsent,
                         crossed>>
      PROVE  OrderKept'
  <2>1. PICK s \in BOOLEAN : s = ~crossed
    BY OrderTypes
  <2>2. InOrder(n, responseQueue, inbox, wire, First, s) /\ First \in Nat
    BY <1>1, <2>1, OrderTypes DEF Placed
  <2>3. PICK m : /\ InOrder(m, responseQueue, Append(inbox, msg), rest, First, s)
                 /\ m[Len(Append(inbox, msg))] + Len(rest) = n[Len(inbox)] + Len(wire)
    BY <2>2, <1>2, <1>6, OrderArrive
  <2>4. First' = First /\ PendingUnsent'
    BY <1>6 DEF First, PendingUnsent, OrderKept
  <2>5. Placed(m)'
    BY <1>1, <1>6, <2>1, <2>3, <2>4 DEF Placed
  <2> QED
    BY <2>4, <2>5, <1>6 DEF OrderKept
<1>7. ASSUME NEW p \in Packets[version], Announce(p) PROVE OrderKept'
  <2>1. [blocks |-> p] \in Messages /\ [blocks |-> p] \notin Responses
    BY AnnouncementFacts DEF Messages, RequestsTypeOK
  <2> QED
    BY <2>1, <1>2, <1>6, <1>7 DEF Announce
<1>8. CASE Answer
  <2>1. PICK found \in BOOLEAN : inbox' = Append(inbox, [request |-> Head(wire), found |-> found])
    BY <1>8 DEF Answer
  <2> DEFINE msg == [request |-> Head(wire), found |-> found]
  <2>2. wire # <<>> /\ Head(wire) \in Requests /\ Tail(wire) \in Seq(Requests) /\ wire' = Tail(wire)
    BY <1>2, <1>8, QueueFacts DEF Answer
  <2>3. msg \in Responses /\ msg \in Messages /\ msg.request = Head(wire)
    BY <2>2 DEF Responses, Messages
  <2> HIDE DEF msg
  <2>4. inbox' = Append(inbox, msg)
    BY <2>1 DEF msg
  <2> QED
    BY <2>2, <2>3, <2>4, <1>6, <1>8 DEF Answer
<1>9. CASE ConnectionLost
  BY <1>3, <1>9 DEF ConnectionLost
<1>10. CASE UNCHANGED requestVars
  BY <1>3, <1>10 DEF requestVars
<1> QED
  BY <1>4, <1>5, <1>7, <1>8, <1>9, <1>10 DEF PeerStep
-----------------------------------------------------------------------------
(* Responses and their receivers.                                          *)

\* The channel that NotifyResponse took is the one of the request that was answered.
OwnChannel == loop = "deliver" => target = held.request

\* A receiver that has a response has the one to its request.
ReceivedFits ==
    \A r \in Requests : /\ received[r] # None => received[r].request = r
                        /\ waiting[r] = "got" => received[r] # None

\* A fetch that is done has received both parts.
FetchFits ==
    \A b \in Announced : fetch[b] = "done" =>
        received[Header(b)] # None /\ received[Body(b)] # None

\* Responses can be told apart: by their IDs, or by an order that no request left.
Straight == version = 66 \/ ~crossed

\* The inductive invariant behind FetchedOwnBlock.
ChannelsInv ==
    /\ RequestsTypeOK /\ LoopFits
    /\ version = 65 => OrderKept
    /\ Straight => OwnChannel /\ ReceivedFits /\ FetchFits

\* A request that overtook another is not forgotten, and the version stays.
LEMMA StraightKept ==
    ASSUME RequestsTypeOK, LoopFits, RequestsNext
    PROVE  version' = version /\ (crossed => crossed') /\ (Straight' => Straight)
<1> USE DEF queues, goroutines, link, order
<1>1. version' = version
  BY DEF RequestsNext, LoopStep, FetchStep, AskerStep, PeerStep, HandleAnnouncement,
         processBlockAnnouncement, RegisterHeaders, RegisterBodies, SendHeaders, SendBodies,
         HandleResponse, NotifyResponse, NotifyResponse66, Deliver, ReadFails, Timeout,
         awaitBlockResponse, AskerRegisters, AskerSends, Announce, Answer, ConnectionLost
<1>2. ASSUME NEW r \in Requests, send(r) PROVE crossed => crossed'
  BY <1>2, NoteSentFacts DEF send
<1>3. ASSUME NEW r \in Requests, registerForResponse(r) PROVE crossed => crossed'
  BY <1>3 DEF registerForResponse
<1>4. CASE LoopStep
  <2>1. ASSUME RegisterHeaders \/ RegisterBodies PROVE crossed => crossed'
    BY <1>3, <2>1, CurrentBlock DEF RegisterHeaders, RegisterBodies, Requesting
  <2>2. ASSUME SendHeaders \/ SendBodies PROVE crossed => crossed'
    BY <1>2, <2>2, CurrentBlock DEF SendHeaders, SendBodies, Requesting
  <2>3. ASSUME \/ HandleAnnouncement \/ processBlockAnnouncement \/ HandleResponse
               \/ NotifyResponse \/ NotifyResponse66 \/ Deliver \/ ReadFails
        PROVE  crossed => crossed'
    BY <2>3 DEF HandleAnnouncement, processBlockAnnouncement, HandleResponse, NotifyResponse,
                NotifyResponse66, Deliver, ReadFails
  <2> QED
    BY <1>1, <1>4, <2>1, <2>2, <2>3 DEF LoopStep, Straight
<1>5. ASSUME NEW x \in Askers, AskerStep(x) PROVE crossed => crossed'
  BY <1>2, <1>3, <1>5, RequestFacts DEF AskerStep, AskerRegisters, AskerSends
<1>6. ASSUME (\E b \in Announced : FetchStep(b)) \/ PeerStep PROVE crossed => crossed'
  <2>1. crossed' = crossed
    BY <1>6 DEF FetchStep, PeerStep, Timeout, awaitBlockResponse, Announce, Answer, ConnectionLost
  <2> QED
    BY <2>1
<1> QED
  BY <1>1, <1>4, <1>5, <1>6 DEF RequestsNext, Straight

\* Nothing has been requested at the start.
LEMMA InitChannels == RequestsInit => ChannelsInv
<1> SUFFICES ASSUME RequestsInit PROVE ChannelsInv
  OBVIOUS
<1>0. <<>> \in Seq(Announced) /\ <<>> \in Seq(Requests) /\ <<>> \in Seq(Messages)
      /\ Len(<<>>) <= ResponseQueueSize
  BY RequestsAssumption
<1>1. RequestsTypeOK /\ LoopFits
  BY <1>0 DEF RequestsInit, RequestsTypeOK, LoopFits, Requesting, link, Messages
<1>2. OwnChannel /\ ReceivedFits /\ FetchFits
  BY DEF RequestsInit, OwnChannel, ReceivedFits, FetchFits
<1>3. OrderKept
  <2> DEFINE n == [i \in 0..0 |-> 0]
  <2>1. /\ Len(inbox) = 0 /\ Len(wire) = 0 /\ Len(responseQueue) = 0 /\ Len(unsent) = 0
        /\ loop = "read" /\ First = 0
    BY DEF RequestsInit, First
  <2>2. n \in [0..0 -> Nat] /\ n[0] = 0
    OBVIOUS
  <2> HIDE DEF n
  <2>3. InOrder(n, responseQueue, inbox, wire, 0, ~crossed)
    BY <2>1, <2>2 DEF InOrder
  <2>4. Placed(n)
    BY <2>1, <2>2, <2>3 DEF Placed
  <2> QED
    BY <2>1, <2>4 DEF RequestsInit, OrderKept, PendingUnsent
<1> QED
  BY <1>1, <1>2, <1>3 DEF ChannelsInv

\* A step that neither receives nor matches a response, and completes no fetch, keeps what
\* the receivers have.
LEMMA ReceivedKept ==
    ASSUME OwnChannel, ReceivedFits, FetchFits, UNCHANGED received,
           \A r \in Requests : waiting'[r] = "got" => waiting[r] = "got",
           \A b \in Announced : fetch'[b] = "done" =>
               fetch[b] = "done" \/ (waiting[Header(b)] = "got" /\ waiting[Body(b)] = "got"),
           OwnChannel'
    PROVE  OwnChannel' /\ ReceivedFits' /\ FetchFits'
<1>1. \A b \in Announced : Header(b) \in Requests /\ Body(b) \in Requests
  BY RequestFacts
<1>2. ReceivedFits'
  BY DEF ReceivedFits
<1>3. FetchFits'
  BY <1>1 DEF ReceivedFits, FetchFits
<1> QED
  BY <1>2, <1>3

\* Every step keeps the receivers right.
LEMMA ReceivedStep ==
    ASSUME ChannelsInv, Straight, RequestsNext
    PROVE  OwnChannel' /\ ReceivedFits' /\ FetchFits'
<1> USE DEF goroutines, queues
<1>0. RequestsTypeOK /\ LoopFits /\ OwnChannel /\ ReceivedFits /\ FetchFits
  BY DEF ChannelsInv
<1>1. CASE HandleAnnouncement \/ processBlockAnnouncement \/ RegisterHeaders \/ RegisterBodies
           \/ SendHeaders \/ HandleResponse \/ ReadFails
  <2>1. loop' # "deliver" /\ UNCHANGED <<received, waiting, fetch>>
    BY <1>1 DEF HandleAnnouncement, processBlockAnnouncement, RegisterHeaders, RegisterBodies,
                SendHeaders, HandleResponse, ReadFails
  <2> QED
    BY <2>1, <1>0, ReceivedKept DEF OwnChannel
<1>2. CASE SendBodies
  <2>1. loop' # "deliver" /\ UNCHANGED received
    BY <1>2 DEF SendBodies
  <2>2. todo[1] \in Announced /\ Header(todo[1]) \in Requests /\ Body(todo[1]) \in Requests
    BY <1>0, <1>2, CurrentBlock DEF SendBodies, Requesting
  <2>3. \A r \in Requests : waiting'[r] = "got" => waiting[r] = "got"
    BY <1>0, <1>2, <2>2 DEF SendBodies, StartReceivers, RequestsTypeOK
  <2>4. \A b \in Announced : fetch'[b] = "done" => fetch[b] = "done"
    BY <1>0, <1>2, <2>2 DEF SendBodies, RequestsTypeOK
  <2> QED
    BY <2>1, <2>3, <2>4, <1>0, ReceivedKept DEF OwnChannel
<1>3. CASE LoopStep /\ (NotifyResponse \/ NotifyResponse66)
  <2>1. /\ UNCHANGED <<received, waiting, fetch>>
    BY <1>3 DEF NotifyResponse, NotifyResponse66
  <2>2. CASE NotifyResponse
    <3>1. Head(responseQueue) = held.request
      BY <1>0, <1>3, <2>2, OrderKeptLoop DEF ChannelsInv, NotifyResponse, Straight
    <3>2. OwnChannel'
      BY <2>2, <3>1 DEF NotifyResponse, Matched, OwnChannel
    <3> QED
      BY <2>1, <3>2, <1>0, ReceivedKept
  <2>3. CASE NotifyResponse66
    <3>1. OwnChannel'
      BY <2>3 DEF NotifyResponse66, Matched, OwnChannel
    <3> QED
      BY <2>1, <3>1, <1>0, ReceivedKept
  <2> QED
    BY <1>3, <2>2, <2>3
<1>4. CASE Deliver
  <2>1. /\ held \in Responses /\ target \in Requests /\ held.request = target /\ held # None
        /\ loop' # "deliver" /\ UNCHANGED fetch
        /\ received' = [received EXCEPT ![target] = held]
    BY <1>0, <1>4, RequestsAssumption DEF Deliver, LoopFits, OwnChannel
  <2> DEFINE w == [waiting EXCEPT ![target] =
                      IF held.request.kind = target.kind THEN "got" ELSE "invalid"]
  <2>2. \A r \in Requests : w[r] = "got" => waiting[r] = "got" \/ r = target
    BY <1>0, <2>1 DEF RequestsTypeOK
  <2>3. waiting' = NextReceiver(w, target) /\ w \in [Requests -> {"no", "yes", "got", "invalid", "timeout"}]
    BY <1>0, <1>4 DEF Deliver, RequestsTypeOK
  <2> HIDE DEF w
  <2>4. \A r \in Requests : waiting'[r] = "got" => w[r] = "got"
    BY <2>3, RequestFacts DEF NextReceiver
  <2>5. \A r \in Requests : received[r] # None => received'[r] # None
    BY <1>0, <2>1 DEF RequestsTypeOK
  <2>6. ReceivedFits'
    BY <1>0, <2>1, <2>2, <2>4 DEF ReceivedFits, RequestsTypeOK
  <2>7. FetchFits'
    BY <1>0, <2>1, <2>5, RequestFacts DEF FetchFits
  <2> QED
    BY <2>1, <2>6, <2>7 DEF OwnChannel
<1>5. ASSUME NEW b \in Announced, FetchStep(b) PROVE OwnChannel' /\ ReceivedFits' /\ FetchFits'
  <2>1. UNCHANGED <<loop, target, held, received>>
    BY <1>5 DEF FetchStep, Timeout, awaitBlockResponse
  <2>2. \A r \in Requests : waiting'[r] = "got" => waiting[r] = "got"
    BY <1>0, <1>5, RequestFacts DEF FetchStep, Timeout, awaitBlockResponse, RequestsTypeOK
  <2>3. \A x \in Announced : fetch'[x] = "done" =>
            fetch[x] = "done" \/ (waiting[Header(x)] = "got" /\ waiting[Body(x)] = "got")
    <3>1. CASE Timeout(Header(b)) \/ Timeout(Body(b))
      BY <3>1 DEF Timeout
    <3>2. CASE awaitBlockResponse(b)
      BY <1>0, <3>2 DEF awaitBlockResponse, processBlockComponents, RequestsTypeOK
    <3> QED
      BY <1>5, <3>1, <3>2 DEF FetchStep
  <2>4. OwnChannel'
    BY <1>0, <2>1 DEF OwnChannel
  <2> QED
    BY <2>1, <2>2, <2>3, <2>4, <1>0, ReceivedKept
<1>6. ASSUME NEW x \in Askers, AskerStep(x) PROVE OwnChannel' /\ ReceivedFits' /\ FetchFits'
  <2>1. UNCHANGED <<loop, target, held, received, fetch>>
    BY <1>6 DEF AskerStep, AskerRegisters, AskerSends
  <2>2. \A r \in Requests : waiting'[r] = "got" => waiting[r] = "got"
    BY <1>0, <1>6 DEF AskerStep, AskerRegisters, AskerSends, RequestsTypeOK
  <2>3. OwnChannel'
    BY <1>0, <2>1 DEF OwnChannel
  <2> QED
    BY <2>1, <2>2, <2>3, <1>0, ReceivedKept
<1>7. CASE PeerStep
  <2>1. UNCHANGED <<loop, target, held, received, fetch, waiting>>
    BY <1>7 DEF PeerStep, Announce, Answer, ConnectionLost
  <2>2. OwnChannel'
    BY <1>0, <2>1 DEF OwnChannel
  <2> QED
    BY <2>1, <2>2, <1>0, ReceivedKept
<1>8. CASE LoopStep
  BY <1>1, <1>2, <1>3, <1>4, <1>8 DEF LoopStep
<1> QED
  BY <1>5, <1>6, <1>7, <1>8 DEF RequestsNext

\* Every step keeps the invariant.
LEMMA ChannelsStep ==
    ASSUME ChannelsInv, [RequestsNext]_requestVars
    PROVE  ChannelsInv'
<1>0. RequestsTypeOK /\ LoopFits /\ (version = 65 => OrderKept)
  BY DEF ChannelsInv
<1>1. CASE UNCHANGED requestVars
  <2>1. UNCHANGED <<version, loop, todo, held, target, responseQueue, responseQueue66, wire, inbox,
                    waiting, received, fetch, asker, connected, disconnected, unsent, crossed>>
    BY <1>1 DEF requestVars, queues, goroutines, link, order
  <2>2. RequestsTypeOK' /\ LoopFits'
    BY <1>0, <2>1 DEF RequestsTypeOK, LoopFits, link
  <2>3. version' = 65 => OrderKept'
    BY <1>0, <1>1, <2>1, OrderKeptOther
  <2>4. Straight' => OwnChannel' /\ ReceivedFits' /\ FetchFits'
    BY <2>1 DEF ChannelsInv, OwnChannel, ReceivedFits, FetchFits, Straight
  <2> QED
    BY <2>2, <2>3, <2>4 DEF ChannelsInv
<1>2. CASE RequestsNext
  <2>1. version' = version /\ (Straight' => Straight)
    BY <1>0, <1>2, StraightKept
  <2>2. RequestsTypeOK' /\ LoopFits'
    BY <1>0, <1>2, LoopTypes, OtherTypes DEF RequestsNext
  <2>3. version' = 65 => OrderKept'
    BY <1>0, <1>2, <2>1, OrderKeptLoop, OrderKeptOther DEF RequestsNext
  <2>4. Straight' => OwnChannel' /\ ReceivedFits' /\ FetchFits'
    BY <1>2, <2>1, ReceivedStep
  <2> QED
    BY <2>2, <2>3, <2>4 DEF ChannelsInv
<1> QED
  BY <1>1, <1>2

\* The header and the body that a fetch ends with were requested for its block: at an ETH66
\* peer because of the request IDs, at an ETH65 peer because channels are taken in the order
\* of registration, until some goroutine sends its request out of that order.
THEOREM FetchesOwnBlock == RequestsSpec => []FetchedOwnBlock
<1>1. ChannelsInv /\ [RequestsNext]_requestVars => ChannelsInv'
  BY ChannelsStep
<1>2. ChannelsInv => FetchedOwnBlock
  BY RequestFacts DEF ChannelsInv, ReceivedFits, FetchFits, FetchedOwnBlock, Straight
<1> QED
  BY InitChannels, <1>1, <1>2, PTL DEF RequestsSpec
-----------------------------------------------------------------------------
(* Request IDs.  An ETH66 response finds its ID in responseQueue66 because *)
(* an ID is registered before its request is sent, is sent once, and is    *)
(* removed with its response.                                              *)

\* A block is announced once: requests are named by their block, so two requests for one
\* block, which have two IDs in the code, would have one name here.
AnnouncedOnce ==
    \A v \in Versions : \A p, q \in Packets[v] :
        \A i \in 1..Len(p), j \in 1..Len(q) : p[i] = q[j] => p = q /\ i = j

\* The requests on the wire out and those that the responses in box answer.
Flying(box, out) ==
    {out[k] : k \in 1..Len(out)}
    \cup {box[i].request : i \in {k \in 1..Len(box) : box[k] \in Responses}}

\* No request is there twice.
Apart(box, out) ==
    /\ \A i, j \in 1..Len(out) : out[i] = out[j] => i = j
    /\ \A i, j \in 1..Len(box) :
          box[i] \in Responses /\ box[j] \in Responses /\ box[i].request = box[j].request => i = j
    /\ \A i \in 1..Len(box), k \in 1..Len(out) : box[i] \in Responses => box[i].request # out[k]

\* Sending a request that is not under way.
LEMMA ApartSend ==
    ASSUME NEW box \in Seq(Messages), NEW out \in Seq(Requests), Apart(box, out),
           NEW r \in Requests, r \notin Flying(box, out)
    PROVE  /\ Apart(box, Append(out, r))
           /\ Flying(box, Append(out, r)) \subseteq Flying(box, out) \cup {r}
<1> DEFINE w == Append(out, r)
<1>1. /\ Len(out) \in Nat /\ Len(w) = Len(out) + 1 /\ Len(box) \in Nat
      /\ \A i \in 1..Len(out) : w[i] = out[i]
      /\ w[Len(out) + 1] = r
  BY QueueFacts
<1> HIDE DEF w
<1>2. \A k \in 1..Len(w) : k \in 1..Len(out) \/ k = Len(out) + 1
  BY <1>1
<1>3. /\ \A k \in 1..Len(out) : out[k] # r
      /\ \A i \in 1..Len(box) : box[i] \in Responses => box[i].request # r
  BY DEF Flying
<1>4. \A i, j \in 1..Len(w) : w[i] = w[j] => i = j
  BY <1>1, <1>2, <1>3 DEF Apart
<1>5. \A i \in 1..Len(box), k \in 1..Len(w) : box[i] \in Responses => box[i].request # w[k]
  BY <1>1, <1>2, <1>3 DEF Apart
<1>6. Flying(box, w) \subseteq Flying(box, out) \cup {r}
  BY <1>1, <1>2 DEF Flying
<1> QED
  BY <1>4, <1>5, <1>6 DEF Apart, w

\* A message from the peer: an announcement, or the answer to the first request.
LEMMA ApartArrive ==
    ASSUME NEW box \in Seq(Messages), NEW out \in Seq(Requests), Apart(box, out),
           NEW msg \in Messages, NEW rest \in Seq(Requests),
           msg \in Responses => out # <<>> /\ msg.request = Head(out) /\ rest = Tail(out),
           msg \notin Responses => rest = out
    PROVE  /\ Apart(Append(box, msg), rest)
           /\ Flying(Append(box, msg), rest) \subseteq Flying(box, out)
<1> DEFINE t == Append(box, msg)
<1>1. /\ Len(out) \in Nat /\ Len(t) = Len(box) + 1 /\ Len(box) \in Nat
      /\ \A i \in 1..Len(box) : t[i] = box[i]
      /\ t[Len(box) + 1] = msg
  BY QueueFacts
<1> HIDE DEF t
<1>2. \A k \in 1..Len(t) : k \in 1..Len(box) \/ k = Len(box) + 1
  BY <1>1
<1>3. CASE msg \notin Responses
  <2>1. rest = out
    BY <1>3
  <2>2. Apart(t, out)
    BY <1>1, <1>2, <1>3 DEF Apart
  <2>3. Flying(t, out) \subseteq Flying(box, out)
    BY <1>1, <1>2, <1>3 DEF Flying
  <2> QED
    BY <2>1, <2>2, <2>3 DEF t
<1>4. CASE msg \in Responses
  <2>1. /\ out # <<>> /\ msg.request = out[1] /\ Len(rest) = Len(out) - 1 /\ 1 \in 1..Len(out)
        /\ \A k \in 1..(Len(out) - 1) : rest[k] = out[k + 1]
    <3>1. out # <<>> /\ msg.request = Head(out) /\ rest = Tail(out)
      BY <1>4
    <3>2. /\ Len(out) > 0 /\ Head(out) = out[1] /\ Len(Tail(out)) = Len(out) - 1
          /\ \A k \in 1..(Len(out) - 1) : Tail(out)[k] = out[k + 1]
      BY <3>1, QueueFacts
    <3>3. 1 \in 1..Len(out)
      BY <3>2, <1>1
    <3> QED
      BY <3>1, <3>2, <3>3
  <2>2. \A k \in 1..Len(rest) : k + 1 \in 1..Len(out) /\ rest[k] = out[k + 1] /\ k + 1 # 1
    BY <2>1, <1>1
  <2>3. \A i, j \in 1..Len(rest) : rest[i] = rest[j] => i = j
    <3> SUFFICES ASSUME NEW i \in 1..Len(rest), NEW j \in 1..Len(rest), rest[i] = rest[j]
                 PROVE  i = j
      OBVIOUS
    <3>1. out[i + 1] = out[j + 1]
      BY <2>2
    <3>2. i + 1 = j + 1
      BY <2>2, <3>1 DEF Apart
    <3> QED
      BY <3>2, <2>1, <1>1
  <2>4. \A k \in 1..Len(rest) : rest[k] # msg.request
    BY <2>1, <2>2 DEF Apart
  <2>5. \A i \in 1..Len(box) : box[i] \in Responses => box[i].request # msg.request
    BY <2>1 DEF Apart
  <2>6. \A i, j \in 1..Len(t) :
          t[i] \in Responses /\ t[j] \in Responses /\ t[i].request = t[j].request => i = j
    BY <2>5, <1>1, <1>2 DEF Apart
  <2>7. \A i \in 1..Len(box), k \in 1..Len(rest) : box[i] \in Responses => box[i].request # rest[k]
    BY <2>2 DEF Apart
  <2>8. \A i \in 1..Len(t), k \in 1..Len(rest) : t[i] \in Responses => t[i].request # rest[k]
    BY <2>4, <2>7, <1>1, <1>2
  <2>9. Flying(t, rest) \subseteq Flying(box, out)
    <3> SUFFICES ASSUME NEW r \in Flying(t, rest) PROVE r \in Flying(box, out)
      OBVIOUS
    <3>1. ASSUME NEW k \in 1..Len(rest), r = rest[k] PROVE r \in Flying(box, out)
      BY <2>2, <3>1 DEF Flying
    <3>2. ASSUME NEW i \in 1..Len(t), t[i] \in Responses, r = t[i].request
          PROVE  r \in Flying(box, out)
      BY <2>1, <3>2, <1>1, <1>2 DEF Flying
    <3> QED
      BY <3>1, <3>2 DEF Flying
  <2> QED
    BY <2>3, <2>6, <2>8, <2>9 DEF Apart, t
<1> QED
  BY <1>3, <1>4

\* Reading a message.  The request of a response that was read is no longer under way.
LEMMA ApartRead ==
    ASSUME NEW box \in Seq(Messages), NEW out \in Seq(Requests), Apart(box, out), box # <<>>
    PROVE  /\ Apart(Tail(box), out)
           /\ Flying(Tail(box), out) \subseteq Flying(box, out)
           /\ Head(box) \in Responses =>
                 Head(box).request \in Flying(box, out) \ Flying(Tail(box), out)
<1> DEFINE t == Tail(box)
<1>1. /\ Len(box) \in Nat /\ Len(box) > 0 /\ Len(t) = Len(box) - 1 /\ Head(box) = box[1]
      /\ \A i \in 1..(Len(box) - 1) : t[i] = box[i + 1]
  BY QueueFacts
<1> HIDE DEF t
<1>2. \A i \in 1..Len(t) : i + 1 \in 1..Len(box) /\ t[i] = box[i + 1] /\ i + 1 # 1 /\ i \in Nat
  BY <1>1
<1>3. 1 \in 1..Len(box)
  BY <1>1
<1>4. \A i, j \in 1..Len(t) :
        t[i] \in Responses /\ t[j] \in Responses /\ t[i].request = t[j].request => i = j
  <2> SUFFICES ASSUME NEW i \in 1..Len(t), NEW j \in 1..Len(t), t[i] \in Responses,
                      t[j] \in Responses, t[i].request = t[j].request
               PROVE  i = j
    OBVIOUS
  <2>1. i + 1 = j + 1
    BY <1>2 DEF Apart
  <2> QED
    BY <2>1, <1>2
<1>5. \A i \in 1..Len(t), k \in 1..Len(out) : t[i] \in Responses => t[i].request # out[k]
  BY <1>2 DEF Apart
<1>6. Apart(t, out)
  BY <1>4, <1>5 DEF Apart
<1>7. Flying(t, out) \subseteq Flying(box, out)
  BY <1>2 DEF Flying
<1>8. ASSUME box[1] \in Responses
      PROVE  box[1].request \in Flying(box, out) /\ box[1].request \notin Flying(t, out)
  <2>1. box[1].request \in Flying(box, out)
    BY <1>3, <1>8 DEF Flying
  <2>2. \A k \in 1..Len(out) : out[k] # box[1].request
    BY <1>3, <1>8 DEF Apart
  <2>3. \A i \in 1..Len(t) : t[i] \in Responses => t[i].request # box[1].request
    BY <1>2, <1>3, <1>8 DEF Apart
  <2> QED
    BY <2>1, <2>2, <2>3 DEF Flying
<1> QED
  BY <1>1, <1>6, <1>7, <1>8 DEF t
\* The request whose response the loop is about to match.
Handled == IF loop = "match" THEN {held.request} ELSE {}

\* r was sent, or never will be.
Sent(r) ==
    \/ r.by \in Askers /\ asker[r.by] = "done"
    \/ r.by \in Announced /\ (loop = "returned" \/ fetch[r.by] # "none")
    \/ r.kind = "headers" /\ loop = "sendBodies" /\ r.by = todo[1]

\* A request that is under way is registered and is not sent again.
FlightFits ==
    /\ Apart(inbox, wire)
    /\ \A r \in Flying(inbox, wire) \cup Handled : r \in responseQueue66 /\ Sent(r)
    /\ Handled \cap Flying(inbox, wire) = {}

\* A request is registered before it is sent.
RegisteredFirst ==
    /\ \A x \in Askers : asker[x] = "send" => Header(x) \in responseQueue66
    /\ loop \in {"registerBodies", "sendHeaders"} => Header(todo[1]) \in responseQueue66
    /\ loop \in {"sendHeaders", "sendBodies"} => Body(todo[1]) \in responseQueue66

\* A block that is announced, or still to be looked at, was not requested, and is
\* announced once.
NotYetFetched ==
    /\ \A i \in 1..Len(todo) :
          /\ fetch[todo[i]] = "none"
          /\ \A j \in 1..Len(todo) : todo[i] = todo[j] => i = j
    /\ \A i \in 1..Len(inbox) : inbox[i] \in Announcements =>
          /\ inbox[i].blocks \in Packets[version]
          /\ \A k \in 1..Len(inbox[i].blocks) :
                /\ fetch[inbox[i].blocks[k]] = "none"
                /\ \A j \in 1..Len(todo) : todo[j] # inbox[i].blocks[k]
          /\ \A j \in 1..Len(inbox) : inbox[j] = inbox[i] => i = j

\* The invariant behind ResponseExpected at an ETH66 peer.
IDsInv == FlightFits /\ RegisteredFirst /\ NotYetFetched

\* A step that lets no block be fetched and changes no announcement.
LEMMA NotYetKept ==
    ASSUME RequestsTypeOK, NotYetFetched, UNCHANGED <<version, inbox, todo>>,
           \A b \in Announced : fetch[b] = "none" => fetch'[b] = "none"
    PROVE  NotYetFetched'
<1>1. \A i \in 1..Len(todo) : todo[i] \in Announced
  BY DEF RequestsTypeOK
<1>2. \A i \in 1..Len(inbox) : inbox[i] \in Announcements =>
        \A k \in 1..Len(inbox[i].blocks) : inbox[i].blocks[k] \in Announced
  BY AnnouncementFacts
<1> QED
  BY <1>1, <1>2 DEF NotYetFetched

\* Sending request r, which the loop or a query has registered.
LEMMA FlightSend ==
    ASSUME RequestsTypeOK, FlightFits, NEW r \in Requests, ~Sent(r), send(r),
           r \in responseQueue66, UNCHANGED <<inbox, responseQueue66>>, Handled' = Handled,
           \A q \in Requests : Sent(q) => Sent(q)',
           wire' # wire => Sent(r)',
           held \in Responses \/ loop # "match"
    PROVE  FlightFits'
<1>1. inbox \in Seq(Messages) /\ wire \in Seq(Requests)
  BY DEF RequestsTypeOK, Messages
<1>2. r \notin Flying(inbox, wire) \cup Handled
  BY DEF FlightFits
<1>3. Flying(inbox, wire) \cup Handled \subseteq Requests
  <2>1. Handled \subseteq Requests
    BY AnnouncementFacts DEF Handled
  <2>2. Flying(inbox, wire) \subseteq Requests
    BY <1>1, AnnouncementFacts DEF Flying
  <2> QED
    BY <2>1, <2>2
<1>4. CASE wire' = wire
  BY <1>3, <1>4 DEF FlightFits
<1>5. CASE wire' # wire
  <2>1. wire' = Append(wire, r)
    BY <1>5 DEF send
  <2>2. Apart(inbox, wire') /\ Flying(inbox, wire') \subseteq Flying(inbox, wire) \cup {r}
    BY <2>1, <1>1, <1>2, ApartSend DEF FlightFits
  <2>3. ASSUME NEW q \in Flying(inbox', wire') \cup Handled'
        PROVE  q \in responseQueue66' /\ Sent(q)'
    <3>1. q = r \/ q \in Flying(inbox, wire) \cup Handled
      BY <2>2, <2>3
    <3>2. CASE q = r
      BY <3>2, <1>5
    <3>3. CASE q \in Flying(inbox, wire) \cup Handled
      BY <3>3, <1>3 DEF FlightFits
    <3> QED
      BY <3>1, <3>2, <3>3
  <2>4. Handled' \cap Flying(inbox', wire') = {}
    BY <2>2, <1>2 DEF FlightFits
  <2> QED
    BY <2>2, <2>3, <2>4 DEF FlightFits
<1> QED
  BY <1>4, <1>5
\* A step that sends nothing.  What is being handled afterwards was handled or under way
\* before, and no longer is.
LEMMA FlightKept ==
    ASSUME RequestsTypeOK, LoopFits, FlightFits,
           Apart(inbox, wire)', Flying(inbox, wire)' \subseteq Flying(inbox, wire),
           Handled' \subseteq Handled \cup Flying(inbox, wire),
           Handled' \cap Flying(inbox, wire)' = {},
           \A q \in Flying(inbox, wire)' \cup Handled' : q \in responseQueue66 => q \in responseQueue66',
           \A q \in Requests : Sent(q) => Sent(q)'
    PROVE  FlightFits'
<1>1. inbox \in Seq(Messages) /\ wire \in Seq(Requests)
  BY DEF RequestsTypeOK, Messages
<1>2. Flying(inbox, wire) \cup Handled \subseteq Requests
  BY <1>1, AnnouncementFacts DEF Flying, Handled, LoopFits
<1>3. ASSUME NEW q \in Flying(inbox, wire)' \cup Handled'
      PROVE  q \in responseQueue66' /\ Sent(q)'
  <2>1. q \in Flying(inbox, wire) \cup Handled
    BY <1>3
  <2>2. q \in responseQueue66 /\ Sent(q)
    BY <2>1 DEF FlightFits
  <2> QED
    BY <2>1, <2>2, <1>2, <1>3
<1> QED
  BY <1>3 DEF FlightFits

\* A step of the loop that leaves messages and IDs alone and handles no response.
LEMMA FlightQuiet ==
    ASSUME RequestsTypeOK, LoopFits, FlightFits, UNCHANGED <<inbox, wire>>,
           responseQueue66 \subseteq responseQueue66', loop' # "match",
           \A q \in Requests : Sent(q) => Sent(q)'
    PROVE  FlightFits'
<1>1. Handled' = {}
  BY DEF Handled
<1>2. Apart(inbox, wire)' /\ Flying(inbox, wire)' = Flying(inbox, wire)
  BY DEF FlightFits
<1> QED
  BY <1>1, <1>2, FlightKept

\* What was sent stays sent, except that a block's requests have to be taken over by its
\* fetch when the loop leaves RequestBlock.
LEMMA SentKept ==
    ASSUME RequestsTypeOK, UNCHANGED <<asker, fetch>>, loop # "sendBodies", loop # "returned"
    PROVE  \A q \in Requests : Sent(q) => Sent(q)'
BY DEF Sent

\* Reading a message.
LEMMA IDsRead ==
    ASSUME AnnouncedOnce, RequestsTypeOK, LoopFits, IDsInv, version = 66,
           HandleAnnouncement \/ HandleResponse
    PROVE  IDsInv'
<1> USE DEF queues, goroutines, link
<1>0. FlightFits /\ RegisteredFirst /\ NotYetFetched
  BY DEF IDsInv
<1>1. inbox \in Seq(Messages) /\ wire \in Seq(Requests)
  BY DEF RequestsTypeOK, Messages
<1>2. /\ loop = "read" /\ inbox # <<>> /\ inbox' = Tail(inbox)
      /\ UNCHANGED <<version, responseQueue66, wire, asker, fetch>>
      /\ \/ /\ Head(inbox) \in Announcements /\ Head(inbox) \notin Responses
            /\ loop' = "announce" /\ todo' = Head(inbox).blocks
         \/ Head(inbox) \in Responses /\ loop' = "match" /\ held' = Head(inbox) /\ todo' = todo
  BY AnnouncementFacts DEF HandleAnnouncement, HandleResponse
<1>3. /\ Apart(Tail(inbox), wire)
      /\ Flying(Tail(inbox), wire) \subseteq Flying(inbox, wire)
      /\ Head(inbox) \in Responses =>
            Head(inbox).request \in Flying(inbox, wire) \ Flying(Tail(inbox), wire)
  BY <1>0, <1>1, <1>2, ApartRead DEF FlightFits
<1>4. Handled = {} /\ Handled' = IF Head(inbox) \in Responses THEN {Head(inbox).request} ELSE {}
  BY <1>2 DEF Handled
<1>5. \A q \in Requests : Sent(q) => Sent(q)'
  BY <1>2, SentKept
<1>6. /\ Handled' \subseteq Flying(inbox, wire)
      /\ Handled' \cap Flying(Tail(inbox), wire) = {}
  BY <1>3, <1>4
<1>7. FlightFits'
  BY <1>0, <1>2, <1>3, <1>5, <1>6, FlightKept
<1>8. RegisteredFirst'
  BY <1>0, <1>2 DEF RegisteredFirst
<1>9. NotYetFetched'
  <2>1. /\ Len(inbox) \in Nat /\ Len(inbox) > 0 /\ Head(inbox) = inbox[1]
        /\ Len(inbox') = Len(inbox) - 1
        /\ \A i \in 1..(Len(inbox) - 1) : inbox'[i] = inbox[i + 1]
    BY <1>1, <1>2, QueueFacts
  <2>2. \A i \in 1..Len(inbox') : /\ i + 1 \in 1..Len(inbox) /\ inbox'[i] = inbox[i + 1]
                                  /\ i + 1 # 1 /\ i \in Nat
    BY <2>1
  <2>3. 1 \in 1..Len(inbox) /\ \A i, j \in Nat : i + 1 = j + 1 => i = j
    BY <2>1
  <2>4. ASSUME NEW i \in 1..Len(inbox'), inbox'[i] \in Announcements
        PROVE  /\ inbox'[i].blocks \in Packets[version]
               /\ \A k \in 1..Len(inbox'[i].blocks) : fetch[inbox'[i].blocks[k]] = "none"
               /\ \A j \in 1..Len(inbox') : inbox'[j] = inbox'[i] => i = j
    <3>1. \A j \in 1..Len(inbox) : inbox[j] = inbox[i + 1] => i + 1 = j
      BY <1>0, <2>2, <2>4 DEF NotYetFetched
    <3>2. \A j \in 1..Len(inbox') : inbox'[j] = inbox'[i] => i = j
      BY <2>2, <2>3, <3>1
    <3> QED
      BY <1>0, <2>2, <2>4, <3>2 DEF NotYetFetched
  <2>5. CASE Head(inbox) \in Responses
    <3>1. todo' = todo
      BY <1>2, <2>5, AnnouncementFacts
    <3>2. ASSUME NEW i \in 1..Len(inbox'), inbox'[i] \in Announcements
          PROVE  \A k \in 1..Len(inbox'[i].blocks) :
                    \A j \in 1..Len(todo) : todo[j] # inbox'[i].blocks[k]
      BY <1>0, <2>2, <3>2 DEF NotYetFetched
    <3> QED
      BY <1>0, <1>2, <2>4, <3>1, <3>2 DEF NotYetFetched
  <2>6. CASE Head(inbox) \in Announcements
    <3> DEFINE p == inbox[1].blocks
    <3>1. todo' = p /\ inbox[1] \in Announcements
      BY <1>2, <2>1, <2>6, AnnouncementFacts
    <3>2. /\ p \in Packets[version] /\ \A k \in 1..Len(p) : fetch[p[k]] = "none"
          /\ \A j \in 1..Len(inbox) : inbox[j] = inbox[1] => 1 = j
      BY <1>0, <2>3, <3>1 DEF NotYetFetched
    <3>3. \A i, j \in 1..Len(p) : p[i] = p[j] => i = j
      BY <3>2 DEF AnnouncedOnce, RequestsTypeOK
    <3>4. ASSUME NEW i \in 1..Len(inbox'), inbox'[i] \in Announcements
          PROVE  \A k \in 1..Len(inbox'[i].blocks) :
                    \A j \in 1..Len(p) : p[j] # inbox'[i].blocks[k]
      <4> SUFFICES ASSUME NEW k \in 1..Len(inbox'[i].blocks), NEW j \in 1..Len(p),
                          p[j] = inbox'[i].blocks[k]
                   PROVE  FALSE
        OBVIOUS
      <4>1. inbox'[i].blocks \in Packets[version]
        BY <2>4, <3>4
      <4>2. inbox'[i].blocks = p
        BY SMTT(20), <3>2, <4>1 DEF AnnouncedOnce, RequestsTypeOK
      <4>3. inbox'[i] = inbox[1]
        BY <3>1, <3>4, <4>2 DEF Announcements
      <4> QED
        BY <2>2, <3>2, <4>3
    <3> HIDE DEF p
    <3> QED
      BY <1>2, <2>4, <3>1, <3>2, <3>3, <3>4 DEF NotYetFetched
  <2> QED
    BY <1>2, <2>5, <2>6
<1> QED
  BY <1>7, <1>8, <1>9 DEF IDsInv

\* The stages of RequestBlock.
LEMMA IDsRequest ==
    ASSUME RequestsTypeOK, LoopFits, IDsInv, version = 66,
           processBlockAnnouncement \/ RegisterHeaders \/ RegisterBodies \/ SendHeaders \/ SendBodies
    PROVE  IDsInv'
<1> USE DEF queues, goroutines, link
<1>0. FlightFits /\ RegisteredFirst /\ NotYetFetched
  BY DEF IDsInv
<1>1. todo \in Seq(Announced) /\ fetch \in [Announced -> {"none", "running", "done", "failed", "panic"}]
  BY DEF RequestsTypeOK
<1>2. todo # <<>> => /\ Len(todo) \in Nat /\ Len(Tail(todo)) = Len(todo) - 1
                     /\ \A i \in 1..(Len(todo) - 1) : Tail(todo)[i] = todo[i + 1]
                     /\ Len(todo) > 0
  BY <1>1, QueueFacts
<1>3. ASSUME todo # <<>>
      PROVE  /\ \A i \in 1..Len(Tail(todo)) :
                   /\ i + 1 \in 1..Len(todo) /\ Tail(todo)[i] = todo[i + 1] /\ i \in Nat /\ i + 1 # 1
             /\ 1 \in 1..Len(todo)
             /\ \A i, j \in 1..Len(Tail(todo)) : Tail(todo)[i] = Tail(todo)[j] => i = j
  <2>1. \A i \in 1..Len(Tail(todo)) :
          i + 1 \in 1..Len(todo) /\ Tail(todo)[i] = todo[i + 1] /\ i \in Nat /\ i + 1 # 1
    BY <1>2, <1>3
  <2>2. \A i, j \in 1..Len(Tail(todo)) : Tail(todo)[i] = Tail(todo)[j] => i + 1 = j + 1
    BY <1>0, <2>1 DEF NotYetFetched
  <2>3. \A i, j \in Nat : i + 1 = j + 1 => i = j
    OBVIOUS
  <2>4. 1 \in 1..Len(todo)
    BY <1>2, <1>3
  <2> QED
    BY <2>1, <2>2, <2>3, <2>4
<1>4. CASE processBlockAnnouncement
  <2>1. /\ loop = "announce" /\ loop' \in {"read", "announce", "registerHeaders"}
        /\ todo' = todo \/ (todo # <<>> /\ todo' = Tail(todo))
        /\ UNCHANGED <<version, responseQueue66, wire, inbox, asker, fetch>>
    BY <1>4 DEF processBlockAnnouncement
  <2>2. FlightFits'
    <3>1. \A q \in Requests : Sent(q) => Sent(q)'
      BY <2>1, SentKept
    <3> QED
      BY <1>0, <2>1, <3>1, FlightQuiet
  <2>3. RegisteredFirst'
    BY <1>0, <2>1 DEF RegisteredFirst
  <2>4. NotYetFetched'
    <3>1. CASE todo' = todo
      BY <1>0, <2>1, <3>1 DEF NotYetFetched
    <3>2. CASE todo # <<>> /\ todo' = Tail(todo)
      BY <1>0, <1>3, <2>1, <3>2 DEF NotYetFetched
    <3> QED
      BY <2>1, <3>1, <3>2
  <2> QED
    BY <2>2, <2>3, <2>4 DEF IDsInv
<1>5. CASE RegisterHeaders \/ RegisterBodies
  <2>1. /\ responseQueue66 \subseteq responseQueue66'
        /\ \/ loop = "registerHeaders" /\ loop' = "registerBodies"
              /\ responseQueue66' = responseQueue66 \cup {Header(todo[1])}
           \/ loop = "registerBodies" /\ loop' = "sendHeaders"
              /\ responseQueue66' = responseQueue66 \cup {Body(todo[1])}
        /\ UNCHANGED <<version, todo, wire, inbox, asker, fetch>>
    BY <1>5 DEF RegisterHeaders, RegisterBodies, registerForResponse
  <2>2. FlightFits'
    <3>1. \A q \in Requests : Sent(q) => Sent(q)'
      BY <2>1, SentKept
    <3> QED
      BY <1>0, <2>1, <3>1, FlightQuiet
  <2>3. RegisteredFirst'
    BY <1>0, <2>1 DEF RegisteredFirst
  <2>4. NotYetFetched'
    BY <1>0, <2>1, NotYetKept
  <2> QED
    BY <2>2, <2>3, <2>4 DEF IDsInv
<1>6. CASE SendHeaders
  <2>1. /\ todo # <<>> /\ todo[1] \in Announced /\ Header(todo[1]) \in Requests
        /\ Header(todo[1]).by = todo[1] /\ todo[1] \notin Askers
    BY <1>6, CurrentBlock, RequestFacts, RequestsAssumption DEF SendHeaders, Requesting, Askers
  <2>2. /\ loop = "sendHeaders" /\ loop' = (IF SendFails THEN "returned" ELSE "sendBodies")
        /\ send(Header(todo[1]))
        /\ UNCHANGED <<version, todo, responseQueue66, inbox, asker, fetch>>
    BY <1>6 DEF SendHeaders
  <2>3. ~Sent(Header(todo[1])) /\ Header(todo[1]) \in responseQueue66
    BY <1>0, <1>3, <2>1, <2>2 DEF Sent, RegisteredFirst, NotYetFetched
  <2>4. \A q \in Requests : Sent(q) => Sent(q)'
    BY <2>2, SentKept
  <2>5. wire' # wire => Sent(Header(todo[1]))'
    BY <2>1, <2>2 DEF send, SendFails, Sent, Header
  <2>6. Handled = {} /\ Handled' = {}
    BY <2>2 DEF Handled
  <2>7. FlightFits'
    <3> DEFINE r == Header(todo[1])
    <3>1. PICK c : c = r
      OBVIOUS
    <3>2. Sent(c)' = Sent(r)'
      BY <2>2, <3>1 DEF Sent, Header
    <3>3. c \in Requests /\ ~Sent(c) /\ c \in responseQueue66 /\ send(c) /\ (wire' # wire => Sent(c)')
      BY <2>1, <2>2, <2>3, <2>5, <3>1, <3>2
    <3> QED
      BY <1>0, <2>2, <2>4, <2>6, <3>3, FlightSend
  <2>8. RegisteredFirst'
    BY <1>0, <2>2 DEF RegisteredFirst
  <2>9. NotYetFetched'
    BY <1>0, <2>2, NotYetKept
  <2> QED
    BY <2>7, <2>8, <2>9 DEF IDsInv
<1>7. CASE SendBodies
  <2>1. /\ todo # <<>> /\ todo[1] \in Announced /\ Body(todo[1]) \in Requests
        /\ Body(todo[1]).by = todo[1] /\ todo[1] \notin Askers
    BY <1>7, CurrentBlock, RequestFacts, RequestsAssumption DEF SendBodies, Requesting, Askers
  <2>2. /\ loop = "sendBodies"
        /\ \/ SendFails /\ loop' = "returned" /\ UNCHANGED <<todo, fetch>>
           \/ /\ ~SendFails /\ loop' = "announce" /\ todo' = Tail(todo)
              /\ fetch' = [fetch EXCEPT ![todo[1]] = "running"]
        /\ send(Body(todo[1]))
        /\ UNCHANGED <<version, responseQueue66, inbox, asker>>
    BY <1>7 DEF SendBodies
  <2>3. ~Sent(Body(todo[1])) /\ Body(todo[1]) \in responseQueue66
    BY <1>0, <1>3, <2>1, <2>2 DEF Sent, RegisteredFirst, NotYetFetched, Body
  <2>4. \A q \in Requests : Sent(q) => Sent(q)'
    BY <1>1, <2>1, <2>2 DEF Sent
  <2>5. Handled = {} /\ Handled' = {}
    BY <2>2 DEF Handled
  <2>6. FlightFits'
    <3>1. PICK c : c = Body(todo[1])
      OBVIOUS
    <3>2. wire' # wire => Sent(c)'
      BY <1>1, <2>1, <2>2, <3>1 DEF Sent, send, SendFails
    <3>3. c \in Requests /\ ~Sent(c) /\ c \in responseQueue66 /\ send(c)
      BY <2>1, <2>2, <2>3, <3>1
    <3> QED
      BY <1>0, <2>2, <2>4, <2>5, <3>2, <3>3, FlightSend
  <2>7. RegisteredFirst'
    BY <1>0, <2>2 DEF RegisteredFirst
  <2>8. NotYetFetched'
    <3>1. CASE UNCHANGED <<todo, fetch>>
      BY <1>0, <2>2, <3>1, NotYetKept
    <3>2. CASE todo' = Tail(todo) /\ fetch' = [fetch EXCEPT ![todo[1]] = "running"]
      <4>1. \A i \in 1..Len(todo') :
              /\ fetch'[todo'[i]] = "none"
              /\ \A j \in 1..Len(todo') : todo'[i] = todo'[j] => i = j
        <5> SUFFICES ASSUME NEW i \in 1..Len(todo') PROVE fetch'[todo'[i]] = "none"
          BY <1>3, <2>1, <3>2
        <5>1. i + 1 \in 1..Len(todo) /\ todo'[i] = todo[i + 1] /\ i + 1 # 1 /\ 1 \in 1..Len(todo)
          BY <1>3, <2>1, <3>2
        <5>2. todo[i + 1] # todo[1] /\ fetch[todo[i + 1]] = "none" /\ todo[i + 1] \in Announced
          BY <1>0, <1>1, <5>1 DEF NotYetFetched
        <5> QED
          BY <1>1, <3>2, <5>1, <5>2
      <4>2. ASSUME NEW i \in 1..Len(inbox), inbox[i] \in Announcements,
                   NEW k \in 1..Len(inbox[i].blocks)
            PROVE  /\ fetch'[inbox[i].blocks[k]] = "none"
                   /\ \A j \in 1..Len(todo') : todo'[j] # inbox[i].blocks[k]
        <5>1. /\ fetch[inbox[i].blocks[k]] = "none"
              /\ \A j \in 1..Len(todo) : todo[j] # inbox[i].blocks[k]
          BY <1>0, <4>2 DEF NotYetFetched
        <5>2. inbox[i].blocks[k] \in Announced
          BY <4>2, AnnouncementFacts
        <5>3. todo[1] # inbox[i].blocks[k]
          BY <1>3, <2>1, <5>1
        <5> QED
          BY <1>1, <1>3, <2>1, <3>2, <5>1, <5>2, <5>3
      <4> QED
        BY <1>0, <2>2, <4>1, <4>2 DEF NotYetFetched
    <3> QED
      BY <2>2, <3>1, <3>2
  <2> QED
    BY <2>6, <2>7, <2>8 DEF IDsInv
<1> QED
  BY <1>4, <1>5, <1>6, <1>7
\* Matching and delivering a response: its ID is removed, and no other response that is
\* under way has it.
LEMMA IDsMatch ==
    ASSUME RequestsTypeOK, LoopFits, IDsInv, version = 66,
           NotifyResponse66 \/ Deliver \/ ReadFails
    PROVE  IDsInv'
<1> USE DEF queues, goroutines, link
<1>0. FlightFits /\ RegisteredFirst /\ NotYetFetched
  BY DEF IDsInv
<1>1. /\ loop \in {"match", "deliver", "read"} /\ loop' \in {"deliver", "read", "returned"}
      /\ UNCHANGED <<version, todo, wire, inbox, fetch, asker>>
      /\ responseQueue66' = responseQueue66 \ Handled
  BY DEF NotifyResponse66, Matched, Deliver, ReadFails, Handled
<1>2. \A q \in Requests : Sent(q) => Sent(q)'
  BY <1>1, SentKept
<1>3. Handled' = {} /\ Apart(inbox, wire)' /\ Flying(inbox, wire)' = Flying(inbox, wire)
  BY <1>0, <1>1 DEF Handled, FlightFits
<1>4. \A q \in Flying(inbox, wire) : q \in responseQueue66 => q \in responseQueue66'
  BY <1>0, <1>1 DEF FlightFits
<1>5. FlightFits'
  BY <1>0, <1>2, <1>3, <1>4, FlightKept
<1>6. RegisteredFirst'
  <2> SUFFICES ASSUME NEW x \in Askers, asker[x] = "send" PROVE Header(x) \notin Handled
    BY <1>0, <1>1 DEF RegisteredFirst
  <2>1. Header(x).by = x /\ Header(x).kind = "headers" /\ x \notin Announced
    BY RequestsAssumption DEF Header, Askers
  <2>2. ~Sent(Header(x)) \/ loop = "sendBodies"
    BY <2>1 DEF Sent
  <2>3. ~Sent(Header(x))
    BY <1>1, <2>2
  <2> QED
    BY <1>0, <2>3 DEF FlightFits
<1>7. NotYetFetched'
  BY <1>0, <1>1, NotYetKept
<1> QED
  BY <1>5, <1>6, <1>7 DEF IDsInv

\* The goroutines that wait or ask, and the peer.
LEMMA IDsOther ==
    ASSUME AnnouncedOnce, RequestsTypeOK, LoopFits, IDsInv, version = 66,
           \/ \E b \in Announced : FetchStep(b)
           \/ \E x \in Askers : AskerStep(x)
           \/ PeerStep
           \/ UNCHANGED requestVars
    PROVE  IDsInv'
<1> USE DEF queues, goroutines
<1>0. FlightFits /\ RegisteredFirst /\ NotYetFetched
  BY DEF IDsInv
<1>1. /\ inbox \in Seq(Messages) /\ wire \in Seq(Requests)
      /\ fetch \in [Announced -> {"none", "running", "done", "failed", "panic"}]
      /\ asker \in [Askers -> {"idle", "send", "done"}]
  BY DEF RequestsTypeOK, Messages
<1>2. ASSUME UNCHANGED <<version, loop, todo, held, responseQueue66, wire, inbox, asker>>,
             \A b \in Announced : fetch'[b] = fetch[b] \/ (fetch[b] # "none" /\ fetch'[b] # "none")
      PROVE  IDsInv'
  <2>1. \A q \in Requests : Sent(q) => Sent(q)'
    BY <1>2 DEF Sent
  <2>2. Handled' = Handled
    BY <1>2 DEF Handled
  <2>3. FlightFits'
    BY <1>0, <1>2, <2>1, <2>2, FlightKept DEF FlightFits
  <2>4. RegisteredFirst'
    BY <1>0, <1>2 DEF RegisteredFirst
  <2>5. NotYetFetched'
    BY <1>0, <1>2, NotYetKept
  <2> QED
    BY <2>3, <2>4, <2>5 DEF IDsInv
<1>3. ASSUME NEW b \in Announced, FetchStep(b) PROVE IDsInv'
  <2>1. UNCHANGED <<version, loop, todo, held, responseQueue66, wire, inbox, asker>>
    BY <1>3 DEF FetchStep, Timeout, awaitBlockResponse
  <2>2. \A x \in Announced : fetch'[x] = fetch[x] \/ (fetch[x] # "none" /\ fetch'[x] # "none")
    <3>1. CASE Timeout(Header(b)) \/ Timeout(Body(b))
      BY <3>1 DEF Timeout
    <3>2. CASE awaitBlockResponse(b)
      <4>1. PICK e \in {"done", "panic", "failed"} : fetch' = [fetch EXCEPT ![b] = e]
        BY <3>2 DEF awaitBlockResponse, processBlockComponents
      <4> QED
        BY <1>1, <3>2, <4>1 DEF awaitBlockResponse
    <3> QED
      BY <1>3, <3>1, <3>2 DEF FetchStep
  <2> QED
    BY <1>2, <2>1, <2>2
<1>4. ASSUME NEW x \in Askers, AskerStep(x) PROVE IDsInv'
  <2>1. Header(x) \in Requests /\ Header(x).by = x /\ Header(x).kind = "headers" /\ x \notin Announced
    BY RequestFacts, RequestsAssumption DEF Header, Askers
  <2>2. CASE AskerRegisters(x)
    <3>1. /\ responseQueue66' = responseQueue66 \cup {Header(x)} /\ asker[x] = "idle"
          /\ asker' = [asker EXCEPT ![x] = "send"]
          /\ UNCHANGED <<version, loop, todo, held, wire, inbox, fetch>>
      BY <2>2 DEF AskerRegisters, registerForResponse
    <3>2. \A q \in Requests : Sent(q) => Sent(q)'
      BY <1>1, <3>1 DEF Sent
    <3>3. Handled' = Handled
      BY <3>1 DEF Handled
    <3>4. FlightFits'
      BY <1>0, <3>1, <3>2, <3>3, FlightKept DEF FlightFits
    <3>5. RegisteredFirst'
      BY <1>0, <1>1, <3>1 DEF RegisteredFirst
    <3>6. NotYetFetched'
      BY <1>0, <3>1, NotYetKept
    <3> QED
      BY <3>4, <3>5, <3>6 DEF IDsInv
  <2>3. CASE AskerSends(x)
    <3>1. /\ send(Header(x)) /\ asker[x] = "send" /\ asker' = [asker EXCEPT ![x] = "done"]
          /\ UNCHANGED <<version, loop, todo, held, responseQueue66, inbox, fetch>>
      BY <2>3 DEF AskerSends
    <3>2. \A q \in Requests : Sent(q) => Sent(q)'
      BY <1>1, <3>1 DEF Sent
    <3>3. Handled' = Handled
      BY <3>1 DEF Handled
    <3>4. Sent(Header(x))' /\ Header(x) \in responseQueue66
      BY <1>0, <1>1, <2>1, <3>1 DEF Sent, RegisteredFirst
    <3>5. ~Sent(Header(x))
      <4>1. loop = "sendBodies" => todo[1] \in Announced
        BY CurrentBlock DEF Requesting
      <4> QED
        BY <2>1, <3>1, <4>1 DEF Sent
    <3>6. held \in Responses \/ loop # "match"
      BY DEF LoopFits
    <3>7. FlightFits'
      BY <1>0, <2>1, <3>1, <3>2, <3>3, <3>4, <3>5, <3>6, FlightSend
    <3>8. RegisteredFirst'
      BY <1>0, <1>1, <3>1 DEF RegisteredFirst
    <3>9. NotYetFetched'
      BY <1>0, <3>1, NotYetKept
    <3> QED
      BY <3>7, <3>8, <3>9 DEF IDsInv
  <2> QED
    BY <1>4, <2>2, <2>3 DEF AskerStep
<1>5. ASSUME NEW msg \in Messages, NEW rest \in Seq(Requests),
             msg \in Responses => wire # <<>> /\ msg.request = Head(wire) /\ rest = Tail(wire),
             msg \notin Responses => rest = wire,
             inbox' = Append(inbox, msg), wire' = rest,
             UNCHANGED <<version, loop, todo, held, responseQueue66, asker, fetch>>,
             msg \in Announcements =>
                /\ msg.blocks \in Packets[version]
                /\ \A k \in 1..Len(msg.blocks) :
                      /\ fetch[msg.blocks[k]] = "none"
                      /\ \A j \in 1..Len(todo) : todo[j] # msg.blocks[k]
                /\ \A j \in 1..Len(inbox) : inbox[j] # msg
      PROVE  IDsInv'
  <2>1. /\ Apart(Append(inbox, msg), rest)
        /\ Flying(Append(inbox, msg), rest) \subseteq Flying(inbox, wire)
    BY <1>0, <1>1, <1>5, ApartArrive DEF FlightFits
  <2>2. \A q \in Requests : Sent(q) => Sent(q)'
    BY <1>5 DEF Sent
  <2>3. Handled' = Handled
    BY <1>5 DEF Handled
  <2>4. Handled' \cap Flying(inbox', wire') = {}
    BY <1>0, <1>5, <2>1, <2>3 DEF FlightFits
  <2>5. FlightFits'
    BY <1>0, <1>5, <2>1, <2>2, <2>3, <2>4, FlightKept
  <2>6. RegisteredFirst'
    BY <1>0, <1>5 DEF RegisteredFirst
  <2>7. NotYetFetched'
    <3>1. /\ Len(inbox) \in Nat /\ Len(inbox') = Len(inbox) + 1
          /\ \A i \in 1..Len(inbox) : inbox'[i] = inbox[i]
          /\ inbox'[Len(inbox) + 1] = msg
      BY <1>1, <1>5, QueueFacts
    <3>2. \A i \in 1..Len(inbox') : i \in 1..Len(inbox) \/ i = Len(inbox) + 1
      BY <3>1
    <3>3. ASSUME NEW i \in 1..Len(inbox'), inbox'[i] \in Announcements
          PROVE  /\ inbox'[i].blocks \in Packets[version]
                 /\ \A k \in 1..Len(inbox'[i].blocks) :
                       /\ fetch[inbox'[i].blocks[k]] = "none"
                       /\ \A j \in 1..Len(todo) : todo[j] # inbox'[i].blocks[k]
                 /\ \A j \in 1..Len(inbox') : inbox'[j] = inbox'[i] => i = j
      <4>1. CASE i \in 1..Len(inbox)
        <5>1. inbox'[i] = inbox[i]
          BY <3>1, <4>1
        <5>2. \A j \in 1..Len(inbox) : inbox[j] = inbox[i] => i = j
          BY <1>0, <3>3, <4>1, <5>1 DEF NotYetFetched
        <5>3. inbox[i] # msg
          BY <1>5, <3>3, <4>1, <5>1
        <5> QED
          BY <1>0, <3>1, <3>2, <3>3, <4>1, <5>1, <5>2, <5>3 DEF NotYetFetched
      <4>2. CASE i = Len(inbox) + 1
        BY <1>5, <3>1, <3>2, <3>3, <4>2
      <4> QED
        BY <3>2, <4>1, <4>2
    <3> QED
      BY <1>0, <1>5, <3>3 DEF NotYetFetched
  <2> QED
    BY <2>5, <2>6, <2>7 DEF IDsInv
<1>6. ASSUME NEW p \in Packets[version], Announce(p) PROVE IDsInv'
  <2> DEFINE msg == [blocks |-> p]
  <2>1. msg \in Announcements /\ msg \in Messages /\ msg \notin Responses /\ msg.blocks = p
    BY AnnouncementFacts DEF Messages, RequestsTypeOK
  <2>2. /\ inbox' = Append(inbox, msg) /\ wire' = wire
        /\ \A j \in 1..Len(inbox) : inbox[j] # msg
        /\ \A k \in 1..Len(p) : /\ fetch[p[k]] = "none"
                                /\ \A j \in 1..Len(todo) : todo[j] # p[k]
        /\ UNCHANGED <<version, loop, todo, held, responseQueue66, asker, fetch>>
    BY <1>6 DEF Announce
  <2> HIDE DEF msg
  <2> QED
    BY <1>1, <1>5, <2>1, <2>2
<1>7. CASE Answer
  <2>1. PICK found \in BOOLEAN : inbox' = Append(inbox, [request |-> Head(wire), found |-> found])
    BY <1>7 DEF Answer
  <2> DEFINE msg == [request |-> Head(wire), found |-> found]
  <2>2. wire # <<>> /\ Head(wire) \in Requests /\ Tail(wire) \in Seq(Requests) /\ wire' = Tail(wire)
    BY <1>1, <1>7, QueueFacts DEF Answer
  <2>3. msg \in Responses /\ msg \in Messages /\ msg.request = Head(wire) /\ msg \notin Announcements
    <3>1. msg \in Responses /\ msg.request = Head(wire)
      BY <2>2 DEF Responses
    <3> QED
      BY <3>1, AnnouncementFacts DEF Messages
  <2> HIDE DEF msg
  <2>4. /\ inbox' = Append(inbox, msg)
        /\ UNCHANGED <<version, loop, todo, held, responseQueue66, asker, fetch>>
    BY <1>7, <2>1 DEF Answer, msg
  <2> QED
    BY <1>5, <2>2, <2>3, <2>4
<1>8. CASE ConnectionLost
  BY <1>2, <1>8 DEF ConnectionLost
<1>9. CASE UNCHANGED requestVars
  BY <1>2, <1>9 DEF requestVars
<1> QED
  BY <1>3, <1>4, <1>6, <1>7, <1>8, <1>9 DEF PeerStep

\* The invariant of the queues: types, order at an ETH65 peer, IDs at an ETH66 peer.
QueuesInv == ChannelsInv /\ (version = 66 => IDsInv)

\* The loop never waits on an empty responseQueue, and a peer that answers what it was
\* asked never meets ErrUnknownRequestID; the queues stay within their capacity.
THEOREM ResponsesExpected ==
    ASSUME AnnouncedOnce
    PROVE  RequestsSpec => []RequestsInv
<1>1. RequestsInit => QueuesInv
  <2> SUFFICES ASSUME RequestsInit PROVE IDsInv
    BY InitChannels DEF QueuesInv
  <2>1. Len(todo) = 0 /\ Len(inbox) = 0 /\ Len(wire) = 0 /\ loop = "read" /\ Handled = {}
    BY DEF RequestsInit, Handled
  <2>2. Apart(inbox, wire) /\ Flying(inbox, wire) = {}
    BY <2>1 DEF Apart, Flying
  <2>3. FlightFits
    BY <2>1, <2>2 DEF FlightFits
  <2>4. RegisteredFirst /\ NotYetFetched
    BY <2>1 DEF RequestsInit, RegisteredFirst, NotYetFetched
  <2> QED
    BY <2>3, <2>4 DEF IDsInv
<1>2. QueuesInv /\ [RequestsNext]_requestVars => QueuesInv'
  <2> SUFFICES ASSUME QueuesInv, [RequestsNext]_requestVars PROVE QueuesInv'
    OBVIOUS
  <2>1. ChannelsInv' /\ RequestsTypeOK /\ LoopFits
    BY ChannelsStep DEF QueuesInv, ChannelsInv
  <2>2. version' = version
    BY DEF RequestsNext, LoopStep, FetchStep, AskerStep, PeerStep, HandleAnnouncement,
           processBlockAnnouncement, RegisterHeaders, RegisterBodies, SendHeaders, SendBodies,
           HandleResponse, NotifyResponse, NotifyResponse66, Deliver, ReadFails, Timeout,
           awaitBlockResponse, AskerRegisters, AskerSends, Announce, Answer, ConnectionLost,
           requestVars
  <2>3. ASSUME version = 66 PROVE IDsInv'
    <3>1. IDsInv /\ ~NotifyResponse
      BY <2>3 DEF QueuesInv, NotifyResponse
    <3>2. CASE LoopStep
      BY <2>1, <2>3, <3>1, <3>2, IDsRead, IDsRequest, IDsMatch DEF LoopStep
    <3> QED
      BY <2>1, <2>3, <3>1, <3>2, IDsOther DEF RequestsNext
  <2> QED
    BY <2>1, <2>2, <2>3 DEF QueuesInv
<1>3. QueuesInv => RequestsInv
  <2> SUFFICES ASSUME QueuesInv, loop = "match" PROVE ResponseExpected
    BY DEF QueuesInv, ChannelsInv, RequestsInv, ResponseExpected
  <2>1. RequestsTypeOK /\ version \in {65, 66}
    BY RequestsAssumption DEF QueuesInv, ChannelsInv, RequestsTypeOK
  <2>2. CASE version = 66
    BY <2>2 DEF QueuesInv, IDsInv, FlightFits, Handled, ResponseExpected
  <2>3. CASE version = 65
    <3>1. PICK n : Placed(n)
      BY <2>3 DEF QueuesInv, ChannelsInv, OrderKept
    <3>2. PICK s \in BOOLEAN : InOrder(n, responseQueue, inbox, wire, 1, s)
      BY <2>1, <3>1, OrderTypes DEF Placed, First
    <3>3. responseQueue # <<>>
      BY <2>1, <3>2, OrderTypes, OrderNotify
    <3> QED
      BY <2>3, <3>3 DEF ResponseExpected
  <2> QED
    BY <2>1, <2>2, <2>3
<1> QED
  BY <1>1, <1>2, <1>3, PTL DEF RequestsSpec
===============================================================================
