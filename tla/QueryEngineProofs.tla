------------------------- MODULE QueryEngineProofs -------------------------
(* Theorems of QueryEngine, for all clients, requests and capacities. *)
EXTENDS QueryEngine, FiniteSetTheorems, TLAPS

-----------------------------------------------------------------------------
(* Counting the holders of permits                                          *)

\* The queries that own a permit when their places are f.
Holders(f) == {q \in Queries : f[q] \in Working}

\* There are finitely many of them.
LEMMA HoldersFinite ==
  ASSUME NEW f
  PROVE  IsFiniteSet(Holders(f)) /\ Cardinality(Holders(f)) \in Nat
<1>1. IsFiniteSet(Queries)
  BY FS_Interval, QueryAssumption DEF QueryAssumption, Queries
<1>2. Holders(f) \in SUBSET Queries
  BY DEF Holders
<1>3. IsFiniteSet(Holders(f))
  BY <1>1, <1>2, FS_Subset
<1>4. QED
  BY <1>3, FS_CardinalityType

\* A query that goes to a place with a permit is one holder more.
LEMMA HolderEnters ==
  ASSUME NEW f \in [Queries -> Places], NEW q \in Queries, NEW place \in Working,
         f[q] \notin Working
  PROVE  Cardinality(Holders([f EXCEPT ![q] = place])) = Cardinality(Holders(f)) + 1
<1>1. Holders([f EXCEPT ![q] = place]) = Holders(f) \cup {q} /\ q \notin Holders(f)
  BY DEF Holders
<1>2. QED
  BY <1>1, HoldersFinite, FS_AddElement

\* A query that goes to a place without a permit is one holder less.
LEMMA HolderLeaves ==
  ASSUME NEW f \in [Queries -> Places], NEW q \in Queries, NEW place \in Places \ Working,
         f[q] \in Working
  PROVE  Cardinality(Holders([f EXCEPT ![q] = place])) = Cardinality(Holders(f)) - 1
<1>1. Holders([f EXCEPT ![q] = place]) = Holders(f) \ {q} /\ q \in Holders(f)
  BY DEF Holders
<1>2. QED
  BY <1>1, HoldersFinite, FS_RemoveElement

\* A query that moves on either side of the line changes nothing.
LEMMA HolderStays ==
  ASSUME NEW f \in [Queries -> Places], NEW q \in Queries, NEW place \in Places,
         f[q] \in Working <=> place \in Working
  PROVE  Holders([f EXCEPT ![q] = place]) = Holders(f)
BY DEF Holders

-----------------------------------------------------------------------------
(* The inductive invariant                                                  *)

\* The semaphore, in terms of Holders.
PermitInv == permits \in Nat /\ permits + Cardinality(Holders(pc)) = Permits

\* A query that was started runs for a client's subscription.
JobInv == \A q \in Queries : pc[q] # "idle" => job[q] \in [client : Clients, sub : SubIds]

\* The shape of the state without the bound on permits, which follows from the
\* count of their holders.
ShapeInv ==
  /\ connected \subseteq Clients /\ panicked \subseteq Clients \ connected
  /\ subs \in [Clients -> [SubIds -> Requests \cup {NoRequest}]]
  /\ running \in [Clients -> [SubIds -> Queries \cup {0}]]
  /\ waiting \in [Clients -> Queries \cup {0}]
  /\ pc \in [Queries -> Places]
  /\ job \in [Queries -> [client : Clients, sub : SubIds] \cup {NoJob}]
  /\ todo \in [Queries -> Seq(SUBSET Events)]
  /\ rows \in [Queries -> SUBSET Events]
  /\ count \in [Queries -> 0..(CheckEvery - 1)]
  /\ cancel \in [Queries -> BOOLEAN]
  /\ why \in [Queries -> Reasons]
  /\ checkpoint \in {"off", "short", "long"}
  /\ db \subseteq Events /\ pending \subseteq db
  /\ lagged \subseteq Clients
  /\ received \in [Clients -> [SubIds -> SUBSET Events]]
  /\ answered \in [Clients -> [SubIds -> BOOLEAN]]

\* The channels are within their capacities.
ChannelInv ==
  /\ chan \in [Clients -> Seq(Messages)]
  /\ \A c \in Clients : Len(chan[c]) <= Cap
  /\ feed \in [Clients -> Seq(Events)]
  /\ \A c \in Clients : Len(feed[c]) <= BroadcastCap

\* A task awaits a permit for a query of its own that is queued.
WaitingInv ==
  \A c \in Clients : waiting[c] # 0 => /\ pc[waiting[c]] = "queued"
                                       /\ job[waiting[c]].client = c

IInv == ShapeInv /\ ChannelInv /\ WaitingInv /\ JobInv /\ PermitInv

\* The invariant has what the model states.
LEMMA InvImplies == IInv => TypeOK /\ PermitsConserved
<1> SUFFICES ASSUME IInv PROVE TypeOK /\ PermitsConserved
  OBVIOUS
<1>1. Cardinality(Holders(pc)) \in Nat
  BY HoldersFinite
<1>2. permits \in 0..Permits
  BY <1>1, QueryAssumption DEF IInv, PermitInv, QueryAssumption
<1>3. Holders(pc) = {q \in Queries : Holds(q)}
  BY DEF Holders, Holds
<1>4. PermitsConserved
  BY <1>3 DEF IInv, PermitInv, PermitsConserved
<1>5. QED
  BY <1>2, <1>4 DEF IInv, ShapeInv, ChannelInv, WaitingInv, TypeOK

LEMMA InitInv == Init => IInv
<1> SUFFICES ASSUME Init PROVE IInv
  OBVIOUS
<1>1. ShapeInv
  BY QueryAssumption DEF Init, ShapeInv, QueryAssumption, Places, Reasons, NoJob
<1>2. ChannelInv
  BY QueryAssumption DEF Init, ChannelInv, QueryAssumption
<1>3. WaitingInv /\ JobInv
  BY DEF Init, WaitingInv, JobInv
<1>4. Holders(pc) = {}
  BY DEF Init, Holders, Working
<1>5. PermitInv
  <2>1. Cardinality(Holders(pc)) = 0
    BY <1>4, FS_EmptySet
  <2>2. permits \in Nat /\ permits = Permits
    BY QueryAssumption DEF Init, QueryAssumption
  <2>3. QED
    BY <2>1, <2>2 DEF PermitInv
<1>6. QED
  BY <1>1, <1>2, <1>3, <1>5 DEF IInv

-----------------------------------------------------------------------------
(* The query thread                                                         *)

\* What every step of a thread has in common: the thread goes from one place to
\* another, and the free permits change as its holding does.
LEMMA ThreadMoves ==
  ASSUME IInv, NEW q \in Queries, NEW place \in Places \ {"idle", "queued"},
         pc[q] \notin {"idle", "queued"}, Goto(q, place),
         todo' \in [Queries -> Seq(SUBSET Events)], rows' \in [Queries -> SUBSET Events],
         count' \in [Queries -> 0..(CheckEvery - 1)], why' \in [Queries -> Reasons],
         ChannelInv',
         \/ pc[q] \in Working /\ place \notin Working /\ permits' = permits + 1
         \/ (pc[q] \in Working <=> place \in Working) /\ permits' = permits
  PROVE  IInv'
<1>1. pc \in [Queries -> Places] /\ pc' = [pc EXCEPT ![q] = place]
  BY DEF IInv, ShapeInv, Goto
<1>2. ShapeInv'
  BY <1>1 DEF IInv, ShapeInv, Goto, clientVars, storeVars, historyVars
<1>3. WaitingInv' /\ JobInv'
  BY <1>1 DEF IInv, ShapeInv, WaitingInv, JobInv, Goto, clientVars
<1>4. PermitInv'
  <2>1. permits \in Nat /\ permits + Cardinality(Holders(pc)) = Permits
    BY DEF IInv, PermitInv
  <2>2. Cardinality(Holders(pc)) \in Nat /\ Permits \in Nat
    BY HoldersFinite, QueryAssumption DEF QueryAssumption
  <2>3. CASE pc[q] \in Working /\ place \notin Working /\ permits' = permits + 1
    <3>1. Cardinality(Holders(pc')) = Cardinality(Holders(pc)) - 1
      BY <1>1, <2>3, HolderLeaves
    <3>2. QED
      BY <2>1, <2>2, <2>3, <3>1 DEF PermitInv
  <2>4. CASE (pc[q] \in Working <=> place \in Working) /\ permits' = permits
    <3>1. Holders(pc') = Holders(pc)
      BY <1>1, <2>4, HolderStays
    <3>2. QED
      BY <2>1, <2>4, <3>1 DEF PermitInv
  <2>5. QED
    BY <2>3, <2>4
<1>5. QED
  BY <1>2, <1>3, <1>4 DEF IInv

\* The thread leaves its query, by an early return or with an EOSE to send.
LEMMA LeaveInv ==
  ASSUME IInv, NEW q \in Queries, pc[q] \in Working, NEW reason \in Reasons,
         Return(q, reason) \/ Finish(q, reason)
  PROVE  IInv'
<1> PICK place \in {"done", "eose"} : Leave(q, place, reason) /\ permits' = permits + 1
  BY DEF Return, Finish
<1>1. pc[q] \notin {"idle", "queued"} /\ place \notin Working
      /\ place \in Places \ {"idle", "queued"}
  BY DEF Working, Places
<1>2. /\ todo' \in [Queries -> Seq(SUBSET Events)] /\ rows' \in [Queries -> SUBSET Events]
      /\ count' \in [Queries -> 0..(CheckEvery - 1)] /\ why' \in [Queries -> Reasons]
  BY QueryAssumption DEF IInv, ShapeInv, Leave, QueryAssumption
<1>3. ChannelInv'
  BY DEF IInv, ChannelInv, Leave, Goto
<1>4. Goto(q, place)
  BY DEF Leave
<1>5. QED
  BY <1>1, <1>2, <1>3, <1>4, ThreadMoves

\* A thread that keeps its permit and leaves the channels alone.
LEMMA WorkInv ==
  ASSUME IInv, NEW q \in Queries, pc[q] \in Working, NEW place \in Working,
         Goto(q, place), UNCHANGED <<permits, chan, why>>,
         todo' \in [Queries -> Seq(SUBSET Events)], rows' \in [Queries -> SUBSET Events],
         count' \in [Queries -> 0..(CheckEvery - 1)]
  PROVE  IInv'
<1>1. pc[q] \notin {"idle", "queued"} /\ place \in Places \ {"idle", "queued"}
  BY DEF Working, Places
<1>2. ChannelInv' /\ why' \in [Queries -> Reasons]
  BY DEF IInv, ShapeInv, ChannelInv, Goto
<1>3. QED
  BY <1>1, <1>2, ThreadMoves

LEMMA PassGateInv == ASSUME IInv, NEW q \in Queries, PassGate(q) PROVE IInv'
<1>1. pc[q] \in Working /\ "admit" \in Working
  BY DEF PassGate, Working
<1>2. Goto(q, "admit") /\ UNCHANGED <<permits, chan, why, todo, rows, count>>
  BY DEF PassGate
<1>3. QED
  BY <1>1, <1>2, WorkInv DEF IInv, ShapeInv

LEMMA AdmitInv == ASSUME IInv, NEW q \in Queries, Admit(q) PROVE IInv'
<1>1. /\ pc[q] \in Working /\ "open" \in Working
      /\ {"given up", "no connection"} \subseteq Reasons
  BY DEF Admit, Working, Reasons
<1>2. CASE Return(q, "given up") \/ Finish(q, "no connection")
  BY <1>1, <1>2, LeaveInv
<1>3. CASE Goto(q, "open") /\ UNCHANGED <<permits, todo, rows, count, why, chan>>
  BY <1>1, <1>3, WorkInv DEF IInv, ShapeInv
<1>4. QED
  BY <1>2, <1>3 DEF Admit

LEMMA OpenFilterInv == ASSUME IInv, NEW q \in Queries, OpenFilter(q) PROVE IInv'
<1>1. pc[q] \in Working /\ "fetch" \in Working /\ "complete" \in Reasons
  BY DEF OpenFilter, Working, Reasons
<1>2. CASE Finish(q, "complete")
  BY <1>1, <1>2, LeaveInv
<1>3. CASE /\ todo[q] # <<>>
           /\ rows' = [rows EXCEPT ![q] = db \cap Head(todo[q])]
           /\ todo' = [todo EXCEPT ![q] = Tail(@)]
           /\ Goto(q, "fetch")
           /\ UNCHANGED <<permits, count, why, chan>>
  <2>1. todo[q] \in Seq(SUBSET Events)
    BY DEF IInv, ShapeInv
  <2>2. Head(todo[q]) \in SUBSET Events /\ Tail(todo[q]) \in Seq(SUBSET Events)
    BY <1>3, <2>1
  <2>3. /\ todo' \in [Queries -> Seq(SUBSET Events)] /\ rows' \in [Queries -> SUBSET Events]
        /\ count' \in [Queries -> 0..(CheckEvery - 1)]
    BY <1>3, <2>2 DEF IInv, ShapeInv
  <2>4. QED
    BY <1>1, <1>3, <2>3, WorkInv
<1>4. QED
  BY <1>2, <1>3 DEF OpenFilter

LEMMA SqlErrorInv == ASSUME IInv, NEW q \in Queries, SqlError(q) PROVE IInv'
<1>1. pc[q] \in Working /\ "given up" \in Reasons
  BY DEF SqlError, Working, Reasons
<1>2. QED
  BY <1>1, LeaveInv DEF SqlError

LEMMA FetchInv == ASSUME IInv, NEW q \in Queries, Fetch(q) PROVE IInv'
<1>1. /\ pc[q] \in Working /\ {"open", "space"} \subseteq Working
      /\ {"given up", "checkpoint"} \subseteq Reasons
  BY DEF Fetch, Working, Reasons
<1>2. CASE Return(q, "checkpoint") \/ Return(q, "given up")
  BY <1>1, <1>2, LeaveInv
<1>3. CASE Goto(q, "open") /\ UNCHANGED <<permits, todo, rows, count, why, chan>>
  BY <1>1, <1>3, WorkInv DEF IInv, ShapeInv
<1>4. CASE /\ count' = [count EXCEPT ![q] = (@ + 1) % CheckEvery]
           /\ Goto(q, "space")
           /\ UNCHANGED <<permits, todo, rows, why, chan>>
  <2>1. count[q] \in Nat /\ CheckEvery \in Nat /\ CheckEvery > 0
    BY QueryAssumption DEF IInv, ShapeInv, QueryAssumption
  <2>2. (count[q] + 1) % CheckEvery \in 0..(CheckEvery - 1)
    BY <2>1
  <2>3. /\ todo' \in [Queries -> Seq(SUBSET Events)] /\ rows' \in [Queries -> SUBSET Events]
        /\ count' \in [Queries -> 0..(CheckEvery - 1)]
    BY <1>4, <2>2 DEF IInv, ShapeInv
  <2>4. QED
    BY <1>1, <1>4, <2>3, WorkInv
<1>5. QED
  BY <1>2, <1>3, <1>4 DEF Fetch

LEMMA FindSpaceInv == ASSUME IInv, NEW q \in Queries, FindSpace(q) PROVE IInv'
<1>1. /\ pc[q] \in Working /\ "send" \in Working
      /\ {"given up", "checkpoint"} \subseteq Reasons
  BY DEF FindSpace, Working, Reasons
<1>2. CASE Return(q, "checkpoint") \/ Return(q, "given up")
  BY <1>1, <1>2, LeaveInv
<1>3. CASE Goto(q, "send") /\ UNCHANGED <<permits, todo, rows, count, why, chan>>
  BY <1>1, <1>3, WorkInv DEF IInv, ShapeInv
<1>4. QED
  BY <1>2, <1>3 DEF FindSpace

\* A message for which there is room does not take a channel over its capacity.
LEMMA PutInv ==
  ASSUME IInv, NEW q \in Queries, pc[q] # "idle", NEW m \in Messages,
         Room(ClientOf(q)), Put(q, m), feed' = feed
  PROVE  ChannelInv'
<1> DEFINE c == ClientOf(q)
<1>1. c \in Clients
  BY DEF IInv, JobInv, ClientOf
<1>2. chan \in [Clients -> Seq(Messages)] /\ chan[c] \in Seq(Messages)
  BY <1>1 DEF IInv, ChannelInv
<1>3. \A d \in Clients : Len(chan[d]) <= Cap
  BY DEF IInv, ChannelInv
<1>4. CASE c \notin connected
  BY <1>4 DEF Put, IInv, ChannelInv
<1>5. CASE c \in connected
  <2>1. chan' = [chan EXCEPT ![c] = Append(chan[c], m)]
    BY <1>5 DEF Put
  <2>2. Len(chan[c]) < Cap
    BY <1>5 DEF Room
  <2>3. /\ Append(chan[c], m) \in Seq(Messages)
        /\ Len(Append(chan[c], m)) = Len(chan[c]) + 1
        /\ Len(chan[c]) \in Nat
    BY <1>2
  <2>4. Len(Append(chan[c], m)) <= Cap
    BY <2>2, <2>3, QueryAssumption DEF QueryAssumption
  <2>5. chan' \in [Clients -> Seq(Messages)]
    BY <1>2, <2>1, <2>3
  <2>6. \A d \in Clients : Len(chan'[d]) <= Cap
    BY <1>1, <1>2, <1>3, <2>1, <2>4
  <2>7. QED
    BY <2>5, <2>6 DEF ChannelInv, IInv
<1>6. QED
  BY <1>4, <1>5

LEMMA SendInv == ASSUME IInv, NEW q \in Queries, Send(q) PROVE IInv'
<1> PICK e \in rows[q] : Put(q, Row(q, e)) /\ rows' = [rows EXCEPT ![q] = @ \ {e}]
  BY DEF Send
<1>1. /\ pc[q] \in Working /\ pc[q] \notin {"idle", "queued"}
      /\ "fetch" \in Working /\ "fetch" \in Places \ {"idle", "queued"}
  BY DEF Send, Working, Places
<1>2. Row(q, e) \in Messages
  BY DEF Row, Messages, IInv, ShapeInv
<1>3. Goto(q, "fetch") /\ feed' = feed /\ Room(ClientOf(q))
  BY DEF Send, Goto
<1>4. ChannelInv'
  BY <1>1, <1>2, <1>3, PutInv
<1>5. /\ todo' \in [Queries -> Seq(SUBSET Events)] /\ rows' \in [Queries -> SUBSET Events]
      /\ count' \in [Queries -> 0..(CheckEvery - 1)] /\ why' \in [Queries -> Reasons]
      /\ permits' = permits
  BY DEF Send, IInv, ShapeInv
<1>6. QED
  BY <1>1, <1>3, <1>4, <1>5, ThreadMoves

LEMMA SendEoseInv == ASSUME IInv, NEW q \in Queries, SendEose(q) PROVE IInv'
<1>1. /\ pc[q] \notin Working /\ pc[q] \notin {"idle", "queued"}
      /\ "done" \notin Working /\ "done" \in Places \ {"idle", "queued"}
  BY DEF SendEose, Working, Places
<1>2. Eose(q) \in Messages
  BY DEF Eose, Messages
<1>3. Goto(q, "done") /\ feed' = feed /\ Room(ClientOf(q)) /\ Put(q, Eose(q))
  BY DEF SendEose, Goto
<1>4. ChannelInv'
  BY <1>1, <1>2, <1>3, PutInv
<1>5. /\ todo' \in [Queries -> Seq(SUBSET Events)] /\ rows' \in [Queries -> SUBSET Events]
      /\ count' \in [Queries -> 0..(CheckEvery - 1)] /\ why' \in [Queries -> Reasons]
      /\ permits' = permits
  BY DEF SendEose, IInv, ShapeInv
<1>6. QED
  BY <1>1, <1>3, <1>4, <1>5, ThreadMoves

-----------------------------------------------------------------------------
(* The client task                                                          *)

LEMMA CancelledType ==
  ASSUME IInv, NEW Q PROVE Cancelled(Q) \in [Queries -> BOOLEAN]
BY DEF Cancelled, IInv, ShapeInv

LEMMA RequestInv ==
  ASSUME IInv, NEW c \in Clients, NEW s \in SubIds, NEW r \in Requests, Request(c, s, r)
  PROVE  IInv'
<1>1. cancel' \in [Queries -> BOOLEAN]
  BY CancelledType DEF Request
<1>2. ChannelInv'
  BY DEF Request, IInv, ChannelInv
<1>3. CASE r \in LiveOnly /\ running' = [running EXCEPT ![c][s] = 0]
           /\ UNCHANGED <<waiting, pc, job, todo>>
  <2>1. ShapeInv'
    BY <1>1, <1>3 DEF Request, IInv, ShapeInv, storeVars
  <2>2. WaitingInv' /\ JobInv' /\ PermitInv'
    BY <1>3 DEF Request, IInv, WaitingInv, JobInv, PermitInv
  <2>3. QED
    BY <1>2, <2>1, <2>2 DEF IInv
<1>4. ASSUME NEW q \in Fresh,
             running' = [running EXCEPT ![c][s] = q],
             waiting' = [waiting EXCEPT ![c] = q],
             pc' = [pc EXCEPT ![q] = "queued"],
             job' = [job EXCEPT ![q] = [client |-> c, sub |-> s]],
             todo' = [todo EXCEPT ![q] = r]
      PROVE  IInv'
  <2>1. q \in Queries /\ pc[q] = "idle" /\ pc \in [Queries -> Places]
    BY DEF Fresh, IInv, ShapeInv
  <2>2. "queued" \in Places /\ "queued" \notin Working /\ "idle" \notin Working
    BY DEF Places, Working
  <2>3. r \in Seq(SUBSET Events)
    BY QueryAssumption DEF QueryAssumption
  <2>4. ShapeInv'
    <3>1. running' \in [Clients -> [SubIds -> Queries \cup {0}]]
          /\ waiting' \in [Clients -> Queries \cup {0}]
      BY <1>4, <2>1 DEF IInv, ShapeInv
    <3>2. pc' \in [Queries -> Places] /\ todo' \in [Queries -> Seq(SUBSET Events)]
      BY <1>4, <2>1, <2>2, <2>3 DEF IInv, ShapeInv
    <3>3. job' \in [Queries -> [client : Clients, sub : SubIds] \cup {NoJob}]
      BY <1>4, <2>1 DEF IInv, ShapeInv
    <3>4. QED
      BY <1>1, <3>1, <3>2, <3>3 DEF Request, IInv, ShapeInv, storeVars
  <2>5. WaitingInv'
    BY <1>4, <2>1 DEF IInv, ShapeInv, WaitingInv
  <2>6. JobInv'
    BY <1>4, <2>1 DEF IInv, ShapeInv, JobInv
  <2>7. Holders(pc') = Holders(pc)
    <3>1. pc[q] \in Working <=> "queued" \in Working
      BY <2>1, <2>2
    <3>2. Holders([pc EXCEPT ![q] = "queued"]) = Holders(pc)
      BY <2>1, <2>2, <3>1, HolderStays
    <3>3. QED
      BY <1>4, <3>2
  <2>8. PermitInv'
    BY <2>7 DEF Request, IInv, PermitInv
  <2>9. QED
    BY <1>2, <2>4, <2>5, <2>6, <2>8 DEF IInv
<1>5. QED
  BY <1>3, <1>4 DEF Request

LEMMA AcquireInv == ASSUME IInv, NEW c \in Clients, Acquire(c) PROVE IInv'
<1> DEFINE q == waiting[c]
<1>1. q \in Queries /\ pc[q] = "queued" /\ job[q].client = c /\ pc \in [Queries -> Places]
  BY DEF Acquire, IInv, ShapeInv, WaitingInv
<1>2. /\ "gate" \in Working /\ "gate" \in Places /\ "queued" \notin Working
      /\ pc' = [pc EXCEPT ![q] = "gate"] /\ permits' = permits - 1 /\ permits > 0
      /\ waiting' = [waiting EXCEPT ![c] = 0]
  BY DEF Acquire, Working, Places
<1>3. ShapeInv'
  BY <1>1, <1>2 DEF Acquire, IInv, ShapeInv, threadVars, storeVars, historyVars
<1>4. ChannelInv' /\ JobInv'
  BY <1>1, <1>2 DEF Acquire, IInv, ChannelInv, JobInv, ShapeInv, threadVars
<1>5. WaitingInv'
  BY <1>1, <1>2 DEF Acquire, IInv, WaitingInv, ShapeInv, threadVars
<1>6. PermitInv'
  <2>1. Cardinality(Holders(pc')) = Cardinality(Holders(pc)) + 1
    BY <1>1, <1>2, HolderEnters
  <2>2. /\ permits \in Nat /\ permits + Cardinality(Holders(pc)) = Permits
        /\ Cardinality(Holders(pc)) \in Nat /\ Permits \in Nat
    BY HoldersFinite, QueryAssumption DEF IInv, PermitInv, QueryAssumption
  <2>3. QED
    BY <1>2, <2>1, <2>2 DEF PermitInv
<1>7. QED
  BY <1>3, <1>4, <1>5, <1>6 DEF IInv

LEMMA CloseSubInv ==
  ASSUME IInv, NEW c \in Clients, NEW s \in SubIds, CloseSub(c, s) PROVE IInv'
<1>1. cancel' \in [Queries -> BOOLEAN]
  BY CancelledType DEF CloseSub
<1>2. ShapeInv'
  BY <1>1 DEF CloseSub, IInv, ShapeInv, threadVars, storeVars
<1>3. ChannelInv' /\ WaitingInv' /\ JobInv' /\ PermitInv'
  BY DEF CloseSub, IInv, ChannelInv, WaitingInv, JobInv, PermitInv, threadVars
<1>4. QED
  BY <1>2, <1>3 DEF IInv

\* The end of a client's task, in order or by a panic.
LEMMA TaskEndInv ==
  ASSUME IInv, NEW c \in Clients, Disconnect(c) \/ Panic(c)
  PROVE  IInv'
<1> TaskEnds(c)
  BY DEF Disconnect, Panic
<1>1. /\ cancel' \in [Queries -> BOOLEAN]
      /\ panicked' \subseteq Clients \ connected'
  <2>1. CASE Disconnect(c)
    BY <2>1, CancelledType DEF Disconnect, TaskEnds, IInv, ShapeInv
  <2>2. CASE Panic(c)
    BY <2>2 DEF Panic, TaskEnds, IInv, ShapeInv
  <2>3. QED
    BY <2>1, <2>2
<1>2. ShapeInv'
  <2>1. subs' \in [Clients -> [SubIds -> Requests \cup {NoRequest}]]
        /\ running' \in [Clients -> [SubIds -> Queries \cup {0}]]
    BY DEF TaskEnds, IInv, ShapeInv
  <2>2. received' \in [Clients -> [SubIds -> SUBSET Events]]
        /\ answered' \in [Clients -> [SubIds -> BOOLEAN]]
    BY DEF TaskEnds, IInv, ShapeInv
  <2>3. connected' \subseteq Clients
    BY DEF TaskEnds, IInv, ShapeInv
  <2>4. QED
    BY <1>1, <2>1, <2>2, <2>3 DEF TaskEnds, IInv, ShapeInv, threadVars, storeVars
<1>3. ChannelInv'
  <2>1. <<>> \in Seq(Messages) /\ <<>> \in Seq(Events) /\ Len(<<>>) = 0
    OBVIOUS
  <2>2. 0 <= Cap /\ 0 <= BroadcastCap
    BY QueryAssumption DEF QueryAssumption
  <2>3. QED
    BY <2>1, <2>2 DEF TaskEnds, IInv, ChannelInv
<1>4. WaitingInv' /\ JobInv' /\ PermitInv'
  BY DEF TaskEnds, IInv, WaitingInv, JobInv, PermitInv, threadVars
<1>5. QED
  BY <1>2, <1>3, <1>4 DEF IInv

\* Reading shortens a channel.
LEMMA TailShorter ==
  ASSUME NEW S, NEW n \in Nat, NEW t \in Seq(S), t # <<>>, Len(t) <= n
  PROVE  Head(t) \in S /\ Tail(t) \in Seq(S) /\ Len(Tail(t)) <= n
OBVIOUS

LEMMA DeliverInv == ASSUME IInv, NEW c \in Clients, Deliver(c) PROVE IInv'
<1> DEFINE m == Head(chan[c])
           s == job[m.query].sub
<1>1. /\ chan[c] \in Seq(Messages) /\ chan[c] # <<>> /\ Len(chan[c]) <= Cap
      /\ Cap \in Nat
  BY QueryAssumption DEF Deliver, IInv, ChannelInv, QueryAssumption
<1>2. m \in Messages /\ Tail(chan[c]) \in Seq(Messages) /\ Len(Tail(chan[c])) <= Cap
  BY <1>1, TailShorter
<1>3. ChannelInv'
  BY <1>1, <1>2 DEF Deliver, IInv, ChannelInv
<1>4. received' \in [Clients -> [SubIds -> SUBSET Events]]
  <2>1. m.event \in SUBSET Events
    BY <1>2 DEF Messages
  <2>2. \/ received' = received
        \/ received' = [received EXCEPT ![c][s] = @ \cup m.event]
    BY DEF Deliver
  <2>3. received \in [Clients -> [SubIds -> SUBSET Events]]
    BY DEF IInv, ShapeInv
  <2>4. [received[c] EXCEPT ![s] = @ \cup m.event] \in [SubIds -> SUBSET Events]
    BY <2>1, <2>3
  <2>5. QED
    BY <2>2, <2>3, <2>4
<1>5. answered' \in [Clients -> [SubIds -> BOOLEAN]]
  <2>1. answered' = [answered EXCEPT ![c][s] = @ \/ m = Eose(running[c][s])]
    BY DEF Deliver
  <2>2. QED
    BY <2>1 DEF IInv, ShapeInv
<1>6. ShapeInv'
  BY <1>4, <1>5 DEF Deliver, IInv, ShapeInv, clientVars, threadVars, storeVars
<1>7. WaitingInv' /\ JobInv' /\ PermitInv'
  BY DEF Deliver, IInv, WaitingInv, JobInv, PermitInv, clientVars, threadVars
<1>8. QED
  BY <1>3, <1>6, <1>7 DEF IInv

LEMMA HearInv == ASSUME IInv, NEW c \in Clients, Hear(c) PROVE IInv'
<1>1. /\ feed[c] \in Seq(Events) /\ feed[c] # <<>> /\ Len(feed[c]) <= BroadcastCap
      /\ BroadcastCap \in Nat
  BY QueryAssumption DEF Hear, IInv, ChannelInv, QueryAssumption
<1>2. Head(feed[c]) \in Events /\ Tail(feed[c]) \in Seq(Events)
      /\ Len(Tail(feed[c])) <= BroadcastCap
  BY <1>1, TailShorter
<1>3. ChannelInv'
  BY <1>1, <1>2 DEF Hear, IInv, ChannelInv
<1>4. received' \in [Clients -> [SubIds -> SUBSET Events]]
  BY <1>2 DEF Hear, IInv, ShapeInv
<1>5. ShapeInv'
  BY <1>4 DEF Hear, IInv, ShapeInv, clientVars, threadVars, storeVars
<1>6. WaitingInv' /\ JobInv' /\ PermitInv'
  BY DEF Hear, IInv, WaitingInv, JobInv, PermitInv, clientVars, threadVars
<1>7. QED
  BY <1>3, <1>5, <1>6 DEF IInv

-----------------------------------------------------------------------------
(* The checkpoint task and the writer                                       *)

LEMMA CheckpointInv == ASSUME IInv, StartCheckpoint \/ EndCheckpoint PROVE IInv'
<1>1. /\ UNCHANGED <<otherVars, storeVars, feed, historyVars>>
      /\ checkpoint' \in {"off", "short", "long"}
  BY DEF StartCheckpoint, EndCheckpoint
<1>2. ShapeInv'
  BY <1>1 DEF IInv, ShapeInv, otherVars, clientVars, threadVars, storeVars, historyVars
<1>3. ChannelInv' /\ WaitingInv' /\ JobInv' /\ PermitInv'
  BY <1>1 DEF IInv, ChannelInv, WaitingInv, JobInv, PermitInv, otherVars, clientVars, threadVars
<1>4. QED
  BY <1>2, <1>3 DEF IInv

LEMMA CommitInv == ASSUME IInv, NEW e \in Events, Commit(e) PROVE IInv'
<1>1. ShapeInv'
  BY DEF Commit, IInv, ShapeInv, otherVars, clientVars, threadVars, historyVars
<1>2. ChannelInv' /\ WaitingInv' /\ JobInv' /\ PermitInv'
  BY DEF Commit, IInv, ChannelInv, WaitingInv, JobInv, PermitInv, otherVars, clientVars, threadVars
<1>3. QED
  BY <1>1, <1>2 DEF IInv

\* Appending to a full receiver drops its oldest event.
LEMMA BroadcastInv == ASSUME IInv, Broadcast PROVE IInv'
<1>1. ShapeInv'
  BY DEF Broadcast, IInv, ShapeInv, otherVars, clientVars, threadVars
<1>2. ChannelInv'
  <2> PICK e \in pending : feed' = [c \in Clients |->
         IF c \notin connected THEN feed[c]
         ELSE IF Len(feed[c]) < BroadcastCap THEN Append(feed[c], e)
         ELSE Append(Tail(feed[c]), e)]
    BY DEF Broadcast
  <2>1. e \in Events /\ BroadcastCap \in Nat /\ BroadcastCap > 0
    BY QueryAssumption DEF IInv, ShapeInv, QueryAssumption
  <2>2. ASSUME NEW c \in Clients
        PROVE  feed'[c] \in Seq(Events) /\ Len(feed'[c]) <= BroadcastCap
    <3>1. feed[c] \in Seq(Events) /\ Len(feed[c]) <= BroadcastCap /\ Len(feed[c]) \in Nat
      BY DEF IInv, ChannelInv
    <3>2. CASE Len(feed[c]) < BroadcastCap
      <4>1. Append(feed[c], e) \in Seq(Events) /\ Len(Append(feed[c], e)) = Len(feed[c]) + 1
        BY <2>1, <3>1
      <4>2. QED
        BY <2>1, <3>1, <3>2, <4>1
    <3>3. CASE ~(Len(feed[c]) < BroadcastCap)
      <4>1. feed[c] # <<>>
        BY <2>1, <3>1, <3>3
      <4>2. Tail(feed[c]) \in Seq(Events) /\ Len(Tail(feed[c])) = Len(feed[c]) - 1
        BY <3>1, <4>1
      <4>3. /\ Append(Tail(feed[c]), e) \in Seq(Events)
            /\ Len(Append(Tail(feed[c]), e)) = Len(Tail(feed[c])) + 1
        BY <2>1, <4>2
      <4>4. QED
        BY <2>1, <3>1, <3>3, <4>2, <4>3
    <3>4. QED
      BY <3>2, <3>3
  <2>3. feed' \in [Clients -> Seq(Events)]
    BY <2>2
  <2>4. chan' = chan
    BY DEF Broadcast, otherVars
  <2>5. QED
    BY <2>2, <2>3, <2>4 DEF IInv, ChannelInv
<1>3. WaitingInv' /\ JobInv' /\ PermitInv'
  BY DEF Broadcast, IInv, WaitingInv, JobInv, PermitInv, otherVars, clientVars, threadVars
<1>4. QED
  BY <1>1, <1>2, <1>3 DEF IInv

LEMMA StutterInv == ASSUME IInv, UNCHANGED vars PROVE IInv'
<1>1. ShapeInv'
  BY DEF IInv, ShapeInv, vars, clientVars, threadVars, storeVars, historyVars
<1>2. ChannelInv' /\ WaitingInv' /\ JobInv' /\ PermitInv'
  BY DEF IInv, ChannelInv, WaitingInv, JobInv, PermitInv, vars, clientVars, threadVars
<1>3. QED
  BY <1>1, <1>2 DEF IInv

-----------------------------------------------------------------------------
(* The theorems                                                             *)

LEMMA StepInv == IInv /\ [Next]_vars => IInv'
<1> SUFFICES ASSUME IInv, [Next]_vars PROVE IInv'
  OBVIOUS
<1>1. ASSUME NEW c \in Clients, NEW s \in SubIds,
             (\E r \in Requests : Request(c, s, r)) \/ CloseSub(c, s)
      PROVE  IInv'
  BY <1>1, RequestInv, CloseSubInv
<1>2. ASSUME NEW c \in Clients,
               Acquire(c) \/ Disconnect(c) \/ Panic(c) \/ Deliver(c) \/ Hear(c)
      PROVE  IInv'
  BY <1>2, AcquireInv, TaskEndInv, DeliverInv, HearInv
<1>3. ASSUME NEW q \in Queries, PassGate(q) \/ QueryStep(q) \/ SqlError(q)
      PROVE  IInv'
  BY <1>3, PassGateInv, AdmitInv, OpenFilterInv, FetchInv, FindSpaceInv, SendInv,
     SendEoseInv, SqlErrorInv DEF QueryStep
<1>4. CASE StartCheckpoint \/ EndCheckpoint
  BY <1>4, CheckpointInv
<1>5. ASSUME NEW e \in Events, Commit(e) PROVE IInv'
  BY <1>5, CommitInv
<1>6. CASE Broadcast
  BY <1>6, BroadcastInv
<1>7. CASE UNCHANGED vars
  BY <1>7, StutterInv
<1>8. QED
  BY <1>1, <1>2, <1>3, <1>4, <1>5, <1>6, <1>7 DEF Next

LEMMA Invariance == Spec => []IInv
<1>1. QED
  BY InitInv, StepInv, PTL DEF Spec

\* For all clients, requests and capacities the channels stay within theirs and
\* a task awaits a permit only for a queued query of its own client.
THEOREM TypeCorrect == Spec => []TypeOK
<1>1. QED
  BY Invariance, InvImplies, PTL

\* Whatever way a query thread ends, early return, error or completion, it gives
\* back exactly the permit it took, for every number of clients and permits.
THEOREM NoPermitLost == Spec => []PermitsConserved
<1>1. QED
  BY Invariance, InvImplies, PTL

-----------------------------------------------------------------------------
(* No query runs for nobody                                                 *)

\* A step that leaves subscriptions, jobs and cancels alone, and moves no query
\* that is idle or done, starts no orphan.
LEMMA NoNewOrphan ==
  ASSUME OrphansCancelled, UNCHANGED <<panicked, running, job, cancel>>,
         \A q \in Queries : pc'[q] \notin {"idle", "done"} => pc[q] \notin {"idle", "done"}
  PROVE  OrphansCancelled'
BY DEF OrphansCancelled

LEMMA GotoOrphan ==
  ASSUME IInv, OrphansCancelled, NEW q \in Queries, NEW place, Goto(q, place),
         pc[q] \notin {"idle", "done"}
  PROVE  OrphansCancelled'
<1>1. pc' = [pc EXCEPT ![q] = place] /\ pc \in [Queries -> Places]
  BY DEF Goto, IInv, ShapeInv
<1>2. \A p \in Queries : pc'[p] \notin {"idle", "done"} => pc[p] \notin {"idle", "done"}
  BY <1>1
<1>3. UNCHANGED <<panicked, running, job, cancel>>
  BY DEF Goto, clientVars
<1>4. QED
  BY <1>2, <1>3, NoNewOrphan

LEMMA ThreadOrphan ==
  ASSUME IInv, OrphansCancelled, NEW q \in Queries,
         PassGate(q) \/ QueryStep(q) \/ SqlError(q)
  PROVE  OrphansCancelled'
<1>1. pc[q] \notin {"idle", "done"}
  BY DEF PassGate, QueryStep, SqlError, Admit, OpenFilter, Fetch, FindSpace, Send, SendEose
<1>2. \E place : Goto(q, place)
  <2>1. ASSUME NEW reason, Return(q, reason) \/ Finish(q, reason)
        PROVE  \E place : Goto(q, place)
    BY <2>1 DEF Return, Finish, Leave
  <2>2. CASE PassGate(q)
    BY <2>2 DEF PassGate
  <2>3. CASE Admit(q)
    BY <2>1, <2>3 DEF Admit
  <2>4. CASE OpenFilter(q)
    BY <2>1, <2>4 DEF OpenFilter
  <2>5. CASE Fetch(q)
    BY <2>1, <2>5 DEF Fetch
  <2>6. CASE FindSpace(q)
    BY <2>1, <2>6 DEF FindSpace
  <2>7. CASE Send(q) \/ SendEose(q)
    BY <2>7 DEF Send, SendEose
  <2>8. CASE SqlError(q)
    BY <2>1, <2>8 DEF SqlError
  <2>9. QED
    BY <2>2, <2>3, <2>4, <2>5, <2>6, <2>7, <2>8 DEF QueryStep
<1>3. QED
  BY <1>1, <1>2, GotoOrphan

\* What Cancelled does to a running query.
LEMMA CancelledHits ==
  ASSUME IInv, NEW Q, NEW q \in Queries, pc[q] # "done"
  PROVE  /\ q \in Q => Cancelled(Q)[q]
         /\ cancel[q] => Cancelled(Q)[q]
BY DEF Cancelled

\* REQ takes the id from the query that had it, and tells it.
LEMMA RequestOrphan ==
  ASSUME IInv, OrphansCancelled,
         NEW c \in Clients, NEW s \in SubIds, NEW r \in Requests, Request(c, s, r)
  PROVE  OrphansCancelled'
<1>1. PICK v \in Queries \cup {0} : running' = [running EXCEPT ![c][s] = v]
  BY DEF Request, Fresh
<1>2. running \in [Clients -> [SubIds -> Queries \cup {0}]] /\ pc \in [Queries -> Places]
      /\ job \in [Queries -> [client : Clients, sub : SubIds] \cup {NoJob}]
  BY DEF IInv, ShapeInv
<1>3. cancel' = Cancelled({running[c][s]}) /\ panicked' = panicked
  BY DEF Request
<1> SUFFICES ASSUME NEW q \in Queries, pc'[q] \notin {"idle", "done"}
             PROVE  \/ cancel'[q]
                    \/ running'[job'[q].client][job'[q].sub] = q
                    \/ job'[q].client \in panicked'
  BY DEF OrphansCancelled
<1>4. CASE pc[q] = "idle"
  <2>1. PICK p \in Fresh : /\ running' = [running EXCEPT ![c][s] = p]
                           /\ pc' = [pc EXCEPT ![p] = "queued"]
                           /\ job' = [job EXCEPT ![p] = [client |-> c, sub |-> s]]
    BY <1>4 DEF Request
  <2>2. p = q
    BY <1>2, <1>4, <2>1 DEF Fresh
  <2>3. job'[q] = [client |-> c, sub |-> s]
    BY <1>2, <2>1, <2>2
  <2>4. running'[c][s] = q
    BY <1>2, <2>1, <2>2
  <2>5. QED
    BY <2>3, <2>4
<1>5. CASE pc[q] # "idle"
  <2>1. pc[q] = pc'[q] /\ job'[q] = job[q]
    BY <1>2, <1>5 DEF Request, Fresh
  <2>2. \/ cancel[q]
        \/ running[job[q].client][job[q].sub] = q
        \/ job[q].client \in panicked
    BY <2>1, <1>5 DEF OrphansCancelled
  <2>3. job[q].client \in Clients /\ job[q].sub \in SubIds
    BY <1>5 DEF IInv, JobInv
  <2>4. CASE cancel[q] \/ running[c][s] = q
    BY <1>3, <2>1, <2>4, CancelledHits
  <2>6. CASE job[q].client \in panicked
    BY <1>3, <2>1, <2>6
  <2>5. CASE ~cancel[q] /\ running[c][s] # q /\ job[q].client \notin panicked
    <3>1. ~(job[q].client = c /\ job[q].sub = s)
      BY <2>2, <2>5
    <3>2. running'[job[q].client][job[q].sub] = running[job[q].client][job[q].sub]
      BY <1>1, <1>2, <2>3, <3>1
    <3>3. QED
      BY <2>1, <2>2, <2>5, <3>2
  <2>7. QED
    BY <2>4, <2>5, <2>6
<1>6. QED
  BY <1>4, <1>5

\* CLOSE and the ordered end of a connection tell every query they leave behind; a
\* panic tells none, and is the exception.
LEMMA EndOrphan ==
  ASSUME IInv, OrphansCancelled, NEW c \in Clients,
         (\E s \in SubIds : CloseSub(c, s)) \/ Disconnect(c) \/ Panic(c)
  PROVE  OrphansCancelled'
<1>1. running \in [Clients -> [SubIds -> Queries \cup {0}]]
  BY DEF IInv, ShapeInv
<1>2. pc' = pc /\ job' = job /\ panicked \subseteq panicked'
  BY DEF CloseSub, Disconnect, Panic, TaskEnds, threadVars
<1> SUFFICES ASSUME NEW q \in Queries, pc[q] \notin {"idle", "done"},
                    job[q].client \notin panicked'
             PROVE  cancel'[q] \/ running'[job[q].client][job[q].sub] = q
  BY <1>2 DEF OrphansCancelled
<1> DEFINE d == job[q].client
           t == job[q].sub
<1>3. d \in Clients /\ t \in SubIds
  BY DEF IInv, JobInv
<1>4. cancel[q] \/ running[d][t] = q
  BY <1>2 DEF OrphansCancelled
<1>5. ASSUME NEW s \in SubIds, CloseSub(c, s)
      PROVE  cancel'[q] \/ running'[d][t] = q
  <2>1. cancel' = Cancelled({running[c][s]}) /\ running' = [running EXCEPT ![c][s] = 0]
    BY <1>5 DEF CloseSub
  <2>2. CASE cancel[q] \/ running[c][s] = q
    BY <2>1, <2>2, CancelledHits
  <2>3. CASE ~cancel[q] /\ running[c][s] # q
    <3>1. ~(d = c /\ t = s)
      BY <1>4, <2>3
    <3>2. running'[d][t] = running[d][t]
      BY <1>1, <1>3, <2>1, <3>1
    <3>3. QED
      BY <1>4, <2>3, <3>2
  <2>4. QED
    BY <2>2, <2>3
<1>6. ASSUME running' = [running EXCEPT ![c] = [s \in SubIds |-> 0]], d # c,
             cancel[q] => cancel'[q]
      PROVE  cancel'[q] \/ running'[d][t] = q
  <2>1. running'[d] = running[d]
    BY <1>1, <1>3, <1>6
  <2>2. QED
    BY <1>4, <1>6, <2>1
<1>7. CASE Disconnect(c)
  <2>1. /\ cancel' = Cancelled({running[c][s] : s \in SubIds})
        /\ running' = [running EXCEPT ![c] = [s \in SubIds |-> 0]]
    BY <1>7 DEF Disconnect, TaskEnds
  <2>2. CASE cancel[q] \/ d = c
    <3>1. cancel[q] \/ q \in {running[c][s] : s \in SubIds}
      BY <1>3, <1>4, <2>2
    <3>2. QED
      BY <2>1, <3>1, CancelledHits
  <2>3. CASE ~cancel[q] /\ d # c
    BY <1>6, <2>1, <2>3
  <2>4. QED
    BY <2>2, <2>3
<1>8. CASE Panic(c)
  <2>1. /\ cancel' = cancel /\ panicked' = panicked \cup {c}
        /\ running' = [running EXCEPT ![c] = [s \in SubIds |-> 0]]
    BY <1>8 DEF Panic, TaskEnds
  <2>2. d # c
    BY <2>1
  <2>3. QED
    BY <1>6, <2>1, <2>2
<1>9. QED
  BY <1>5, <1>7, <1>8

\* Spawning a query's thread, and every step of the others.
LEMMA OtherOrphan ==
  ASSUME IInv, OrphansCancelled,
         \/ \E c \in Clients : Acquire(c) \/ Deliver(c) \/ Hear(c)
         \/ StartCheckpoint \/ EndCheckpoint \/ (\E e \in Events : Commit(e)) \/ Broadcast
         \/ UNCHANGED vars
  PROVE  OrphansCancelled'
<1>1. ASSUME NEW c \in Clients, Acquire(c) PROVE OrphansCancelled'
  <2>1. waiting[c] \in Queries /\ pc[waiting[c]] = "queued" /\ pc \in [Queries -> Places]
        /\ pc' = [pc EXCEPT ![waiting[c]] = "gate"]
    BY <1>1 DEF Acquire, IInv, ShapeInv, WaitingInv
  <2>2. UNCHANGED <<panicked, running, job, cancel>>
    BY <1>1 DEF Acquire, threadVars
  <2>3. QED
    BY <2>1, <2>2, NoNewOrphan
<1>2. ASSUME UNCHANGED <<panicked, running, job, cancel, pc>> PROVE OrphansCancelled'
  BY <1>2, NoNewOrphan
<1>3. ASSUME NEW c \in Clients, Deliver(c) \/ Hear(c) PROVE OrphansCancelled'
  BY <1>2, <1>3 DEF Deliver, Hear, clientVars, threadVars
<1>4. ASSUME NEW e \in Events, Commit(e) PROVE OrphansCancelled'
  BY <1>2, <1>4 DEF Commit, otherVars, clientVars, threadVars
<1>5. CASE StartCheckpoint \/ EndCheckpoint \/ Broadcast
  BY <1>2, <1>5 DEF StartCheckpoint, EndCheckpoint, Broadcast, otherVars, clientVars, threadVars
<1>6. CASE UNCHANGED vars
  BY <1>2, <1>6 DEF vars, clientVars, threadVars
<1>7. QED
  BY <1>1, <1>3, <1>4, <1>5, <1>6

\* A query whose id was closed or given to a new request, or whose client has gone
\* by any way out of the loop but a panic, has been told to stop, for all clients
\* and requests.
THEOREM NoOrphans == Spec => []OrphansCancelled
<1>1. Init => OrphansCancelled
  BY DEF Init, OrphansCancelled
<1>2. IInv /\ OrphansCancelled /\ [Next]_vars => OrphansCancelled'
  <2> SUFFICES ASSUME IInv, OrphansCancelled, [Next]_vars PROVE OrphansCancelled'
    OBVIOUS
  <2>1. ASSUME NEW c \in Clients, NEW s \in SubIds,
               (\E r \in Requests : Request(c, s, r)) \/ CloseSub(c, s)
        PROVE  OrphansCancelled'
    BY <2>1, RequestOrphan, EndOrphan
  <2>2. ASSUME NEW c \in Clients, Disconnect(c) \/ Panic(c) PROVE OrphansCancelled'
    BY <2>2, EndOrphan
  <2>3. ASSUME NEW q \in Queries, PassGate(q) \/ QueryStep(q) \/ SqlError(q)
        PROVE  OrphansCancelled'
    BY <2>3, ThreadOrphan
  <2>4. QED
    BY <2>1, <2>2, <2>3, OtherOrphan DEF Next
<1>3. QED
  BY <1>1, <1>2, Invariance, PTL DEF Spec

-----------------------------------------------------------------------------
(* Between stored and live events there is no gap                           *)

\* The event has been sent for the subscription, or its broadcast is under way.
Sent(c, s, e) ==
  \/ e \in received[c][s]
  \/ e \in pending
  \/ \E i \in DOMAIN feed[c] : feed[c][i] = e

\* Query q will still find the event, has found it, or has sent it to the task.
Underway(c, q, e) ==
  \/ e \in Matches(todo[q])
  \/ e \in rows[q]
  \/ \E i \in DOMAIN chan[c] : chan[c][i] = Row(q, e)

Counts(reason) == reason \in {"running", "complete"}

\* The reasons with which an EOSE is sent.
Ends == {"complete", "no connection"}

\* The query of an id was started for it, and the id has a subscription.
RunsForItsId ==
  \A c \in Clients, s \in SubIds, q \in Queries : running[c][s] = q =>
    /\ pc[q] # "idle"
    /\ job[q] = [client |-> c, sub |-> s]
    /\ subs[c][s] # NoRequest

\* Rows are held only within a filter, and none are left when a query ends.
LocalsInv ==
  \A q \in Queries :
    /\ pc[q] \notin {"fetch", "space", "send"} => rows[q] = {}
    /\ pc[q] \in {"eose", "done"} => todo[q] = <<>>
    /\ pc[q] \notin {"eose", "done"} => why[q] = "running"
    /\ pc[q] = "eose" => why[q] \in Ends

\* No message of a query follows its EOSE, and it was not given up.
EoseIsLast ==
  \A c \in Clients : \A i \in DOMAIN chan[c] : chan[c][i].event = {} =>
    /\ pc[chan[c][i].query] = "done" /\ why[chan[c][i].query] \in Ends
    /\ \A j \in DOMAIN chan[c] : j > i => chan[c][j].query # chan[c][i].query

\* While a query has not been given up, every stored event that matches has been
\* sent or is still to come, from the query or from the writer.
NothingSkipped ==
  \A c \in connected \ lagged, s \in SubIds, q \in Queries :
    running[c][s] = q /\ Counts(why[q]) =>
      \A e \in db \cap Matches(subs[c][s]) : Sent(c, s, e) \/ Underway(c, q, e)

\* The query whose EOSE has come is through.
AnsweredRuns ==
  \A c \in Clients, s \in SubIds : answered[c][s] =>
    running[c][s] \in Queries /\ pc[running[c][s]] = "done"

\* NoGap, in terms of Sent.
AnsweredSent ==
  \A c \in connected \ lagged, s \in SubIds : answered[c][s] /\ ~Unread(c, s) =>
    \A e \in db \cap Matches(subs[c][s]) : Sent(c, s, e)

\* The writer broadcasts one event at a time.
OnePending == \A e, f \in pending : e = f

StreamInv ==
  /\ OnePending
  /\ RunsForItsId /\ LocalsInv /\ EoseIsLast /\ NothingSkipped
  /\ AnsweredRuns /\ AnsweredSent

\* What sequences do when they grow and when they are read.
LEMMA AppendKeeps ==
  ASSUME NEW S, NEW t \in Seq(S), NEW m \in S
  PROVE  /\ DOMAIN Append(t, m) = DOMAIN t \cup {Len(t) + 1}
         /\ \A i \in DOMAIN t : i < Len(t) + 1 /\ Append(t, m)[i] = t[i]
         /\ Append(t, m)[Len(t) + 1] = m
OBVIOUS

LEMMA TailMoves ==
  ASSUME NEW S, NEW t \in Seq(S), t # <<>>
  PROVE  /\ 1 \in DOMAIN t /\ t[1] = Head(t)
         /\ \A i \in DOMAIN Tail(t) : i + 1 \in DOMAIN t /\ Tail(t)[i] = t[i + 1]
         /\ \A i \in DOMAIN t : i # 1 => i - 1 \in DOMAIN Tail(t) /\ Tail(t)[i - 1] = t[i]
         /\ DOMAIN t \subseteq Int /\ DOMAIN Tail(t) \subseteq Int
OBVIOUS

\* The filters of a request are the first one and the rest.
LEMMA MatchesHeadTail ==
  ASSUME NEW t \in Seq(SUBSET Events), t # <<>>, NEW e \in Matches(t)
  PROVE  e \in Head(t) \/ e \in Matches(Tail(t))
<1>1. PICK i \in DOMAIN t : e \in t[i]
  BY DEF Matches
<1>2. CASE i = 1
  BY <1>1, <1>2, TailMoves
<1>3. CASE i # 1
  <2>1. i - 1 \in DOMAIN Tail(t) /\ Tail(t)[i - 1] = t[i]
    BY <1>3, TailMoves
  <2>2. QED
    BY <1>1, <2>1 DEF Matches
<1>4. QED
  BY <1>2, <1>3

LEMMA NoFilterMatches == Matches(<<>>) = {}
BY DEF Matches

\* What a query has under way stays so while its locals do and no message is lost.
LEMMA UnderwayStays ==
  ASSUME NEW c, NEW p, NEW e, todo'[p] = todo[p], rows'[p] = rows[p],
         \A i \in DOMAIN chan[c] : \E j \in DOMAIN chan'[c] : chan'[c][j] = chan[c][i]
  PROVE  Underway(c, p, e) => Underway(c, p, e)'
<1>1. Matches(todo[p])' = Matches(todo[p]) /\ rows[p]' = rows[p]
  BY DEF Matches
<1>2. ASSUME NEW i \in DOMAIN chan[c], chan[c][i] = Row(p, e)
      PROVE  \E j \in DOMAIN chan'[c] : chan'[c][j] = Row(p, e)
  BY <1>2
<1>3. QED
  BY <1>1, <1>2 DEF Underway, Row

-----------------------------------------------------------------------------
(* The steps of a thread keep what is to come                               *)

\* A thread moves on: the other queries are not concerned, and what this one has
\* under way stays under way unless it is given up.
LEMMA ThreadStream ==
  ASSUME IInv, StreamInv, NEW q \in Queries, NEW place \in Places \ {"idle"}, Goto(q, place),
         pc[q] \notin {"idle", "done"},
         \A p \in Queries : p # q => /\ todo'[p] = todo[p] /\ rows'[p] = rows[p]
                                     /\ why'[p] = why[p],
         LocalsInv', EoseIsLast',
         \A c \in Clients : \A i \in DOMAIN chan[c] :
           \E j \in DOMAIN chan'[c] : chan'[c][j] = chan[c][i],
         Counts(why'[q]) =>
           /\ Counts(why[q])
           /\ ClientOf(q) \in connected =>
                \A e \in db : Underway(ClientOf(q), q, e) => Underway(ClientOf(q), q, e)'
  PROVE  StreamInv'
<1>1. /\ UNCHANGED <<connected, subs, running, job, db, pending, feed,
                     lagged, received, answered>>
      /\ pc' = [pc EXCEPT ![q] = place] /\ pc \in [Queries -> Places]
  BY DEF Goto, clientVars, storeVars, historyVars, IInv, ShapeInv
<1>2. \A c, s, e : Sent(c, s, e)' <=> Sent(c, s, e)
  BY <1>1 DEF Sent
<1>3. RunsForItsId'
  BY <1>1 DEF StreamInv, RunsForItsId
<1>4. AnsweredRuns' /\ AnsweredSent' /\ OnePending'
  <2>1. ASSUME NEW c \in Clients, NEW s \in SubIds, answered[c][s]
        PROVE  /\ running'[c][s] \in Queries /\ pc'[running'[c][s]] = "done"
               /\ Unread(c, s)' <=> Unread(c, s)
    <3>1. PICK p \in Queries : p = running[c][s] /\ pc[p] = "done"
      BY <2>1 DEF StreamInv, AnsweredRuns
    <3>2. p # q /\ running' = running
      BY <1>1, <3>1
    <3>3. pc'[p] = "done" /\ why'[p] = why[p]
      BY <1>1, <3>1, <3>2
    <3>4. QED
      BY <3>1, <3>2, <3>3 DEF Unread
  <2>2. AnsweredRuns' /\ OnePending'
    BY <1>1, <2>1 DEF StreamInv, AnsweredRuns, OnePending
  <2>3. connected \subseteq Clients
    BY DEF IInv, ShapeInv
  <2>4. AnsweredSent'
    BY <1>1, <1>2, <2>1, <2>3 DEF StreamInv, AnsweredSent
  <2>5. QED
    BY <2>2, <2>4
<1>5. ASSUME NEW c \in connected \ lagged, NEW s \in SubIds, NEW p \in Queries,
             running[c][s] = p, Counts(why'[p]), NEW e \in db \cap Matches(subs[c][s])
      PROVE  Sent(c, s, e) \/ Underway(c, p, e)'
  <2>1. c \in Clients /\ job[p] = [client |-> c, sub |-> s]
    <3>1. c \in Clients
      BY DEF IInv, ShapeInv
    <3>2. QED
      BY <1>5, <3>1 DEF StreamInv, RunsForItsId
  <2>2. Counts(why[p]) => Sent(c, s, e) \/ Underway(c, p, e)
    BY <1>5 DEF StreamInv, NothingSkipped
  <2>3. CASE p # q
    <3>1. /\ todo'[p] = todo[p] /\ rows'[p] = rows[p] /\ Counts(why[p])
          /\ \A i \in DOMAIN chan[c] : \E j \in DOMAIN chan'[c] : chan'[c][j] = chan[c][i]
      BY <1>5, <2>1, <2>3
    <3>2. Underway(c, p, e) => Underway(c, p, e)'
      BY <3>1, UnderwayStays
    <3>3. QED
      BY <2>2, <3>1, <3>2
  <2>4. CASE p = q
    <3>1. ClientOf(q) = c
      BY <2>1, <2>4 DEF ClientOf
    <3>2. Counts(why[q]) /\ (Underway(c, q, e) => Underway(c, q, e)')
      BY <1>1, <1>5, <2>4, <3>1 DEF ClientOf
    <3>3. QED
      BY <2>2, <2>4, <3>2
  <2>5. QED
    BY <2>3, <2>4
<1>6. NothingSkipped'
  BY <1>1, <1>2, <1>5 DEF NothingSkipped
<1>7. QED
  BY <1>3, <1>4, <1>6 DEF StreamInv

\* A thread that sends nothing leaves the EOSEs last.
LEMMA QuietEose ==
  ASSUME IInv, StreamInv, NEW q \in Queries, NEW place, Goto(q, place), pc[q] # "done",
         UNCHANGED chan, \A p \in Queries : p # q => why'[p] = why[p]
  PROVE  /\ EoseIsLast'
         /\ \A c \in Clients : \A i \in DOMAIN chan[c] :
              \E j \in DOMAIN chan'[c] : chan'[c][j] = chan[c][i]
<1>1. pc' = [pc EXCEPT ![q] = place] /\ pc \in [Queries -> Places] /\ chan' = chan
  BY DEF Goto, IInv, ShapeInv
<1>2. ASSUME NEW p \in Queries, pc[p] = "done" PROVE pc'[p] = "done" /\ why'[p] = why[p]
  BY <1>1, <1>2
<1>3. \A c \in Clients : \A i \in DOMAIN chan[c] : chan[c][i].query \in Queries
  <2> TAKE c \in Clients
  <2>1. chan[c] \in Seq(Messages)
    BY DEF IInv, ChannelInv
  <2> TAKE i \in DOMAIN chan[c]
  <2>2. chan[c][i] \in Messages
    BY <2>1
  <2>3. QED
    BY <2>2 DEF Messages
<1>4. QED
  BY <1>1, <1>2, <1>3 DEF StreamInv, EoseIsLast

\* A query that is over takes nothing along that counts: it was given up, or its
\* filters have all been through.
LEMMA LeaveStream ==
  ASSUME IInv, StreamInv, NEW q \in Queries, NEW place \in {"eose", "done"},
         NEW reason \in Reasons, Leave(q, place, reason), pc[q] \in Working,
         Counts(reason) => todo[q] = <<>> /\ rows[q] = {},
         place = "eose" => reason \in Ends
  PROVE  StreamInv'
<1>1. /\ Goto(q, place) /\ UNCHANGED chan /\ pc[q] \notin {"idle", "done"}
      /\ why' = [why EXCEPT ![q] = reason] /\ todo' = [todo EXCEPT ![q] = <<>>]
      /\ rows' = [rows EXCEPT ![q] = {}]
      /\ why \in [Queries -> Reasons] /\ todo \in [Queries -> Seq(SUBSET Events)]
      /\ rows \in [Queries -> SUBSET Events]
      /\ pc' = [pc EXCEPT ![q] = place] /\ pc \in [Queries -> Places]
  BY DEF Leave, Goto, Working, IInv, ShapeInv
<1>2. why'[q] = reason /\ todo'[q] = <<>> /\ rows'[q] = {}
  BY <1>1
<1>3. \A p \in Queries : p # q =>
        /\ todo'[p] = todo[p] /\ rows'[p] = rows[p] /\ why'[p] = why[p] /\ pc'[p] = pc[p]
  BY <1>1
<1>4. LocalsInv'
  BY <1>1, <1>2, <1>3 DEF StreamInv, LocalsInv
<1>5. Counts(why[q])
  BY <1>1 DEF Counts, StreamInv, LocalsInv, Working
<1>6. ASSUME Counts(why'[q]), NEW e \in db, Underway(ClientOf(q), q, e)
      PROVE  Underway(ClientOf(q), q, e)'
  <2>1. e \notin Matches(todo[q]) /\ e \notin rows[q]
    BY <1>2, <1>6, NoFilterMatches
  <2>2. PICK i \in DOMAIN chan[ClientOf(q)] : chan[ClientOf(q)][i] = Row(q, e)
    BY <1>6, <2>1 DEF Underway
  <2>3. job' = job /\ chan' = chan
    BY <1>1 DEF Goto
  <2>4. QED
    BY <2>2, <2>3 DEF Underway, Row, ClientOf
<1>7. place \in Places \ {"idle"}
  BY DEF Places
<1>8. QED
  BY <1>1, <1>3, <1>4, <1>5, <1>6, <1>7, QuietEose, ThreadStream

\* A thread that goes from place to place takes along what it has.
LEMMA MoveStream ==
  ASSUME IInv, StreamInv, NEW q \in Queries, NEW place \in Working, Goto(q, place),
         pc[q] \in Working, UNCHANGED <<todo, rows, why, chan>>,
         place \notin {"fetch", "space", "send"} => rows[q] = {}
  PROVE  StreamInv'
<1>1. /\ pc[q] \notin {"idle", "done"} /\ place \in Places \ {"idle"}
      /\ pc' = [pc EXCEPT ![q] = place] /\ pc \in [Queries -> Places]
      /\ todo' = todo /\ rows' = rows /\ why' = why /\ chan' = chan /\ job' = job
      /\ place \notin {"eose", "done"}
  BY DEF Goto, Working, Places, IInv, ShapeInv
<1>2. LocalsInv'
  BY <1>1 DEF StreamInv, LocalsInv, Working
<1>3. \A e \in db : Underway(ClientOf(q), q, e) => Underway(ClientOf(q), q, e)'
  BY <1>1 DEF Underway, Row, Matches, ClientOf
<1>4. QED
  BY <1>1, <1>2, <1>3, QuietEose, ThreadStream

LEMMA OpenFilterStream ==
  ASSUME IInv, StreamInv, NEW q \in Queries, OpenFilter(q)
  PROVE  StreamInv'
<1>1. pc[q] = "open" /\ pc[q] \in Working /\ rows[q] = {}
  BY DEF OpenFilter, Working, StreamInv, LocalsInv
<1>2. CASE todo[q] = <<>> /\ Finish(q, "complete")
  BY <1>1, <1>2, LeaveStream DEF Finish, Reasons, Ends
<1>3. CASE /\ todo[q] # <<>> /\ Goto(q, "fetch")
           /\ rows' = [rows EXCEPT ![q] = db \cap Head(todo[q])]
           /\ todo' = [todo EXCEPT ![q] = Tail(@)]
           /\ UNCHANGED <<why, chan>>
  <2>1. /\ pc[q] \notin {"idle", "done"} /\ "fetch" \in Places \ {"idle"}
        /\ pc' = [pc EXCEPT ![q] = "fetch"] /\ pc \in [Queries -> Places]
        /\ todo[q] \in Seq(SUBSET Events)
        /\ todo \in [Queries -> Seq(SUBSET Events)] /\ rows \in [Queries -> SUBSET Events]
        /\ why' = why /\ chan' = chan /\ job' = job
    BY <1>1, <1>3 DEF Goto, Working, Places, IInv, ShapeInv
  <2>2. \A p \in Queries : p # q => todo'[p] = todo[p] /\ rows'[p] = rows[p] /\ why'[p] = why[p]
    BY <1>3, <2>1
  <2>3. LocalsInv'
    BY <1>1, <2>1, <2>2 DEF StreamInv, LocalsInv
  <2>4. rows'[q] = db \cap Head(todo[q]) /\ todo'[q] = Tail(todo[q])
    BY <1>3, <2>1
  <2>5. ASSUME NEW e \in db, Underway(ClientOf(q), q, e)
        PROVE  Underway(ClientOf(q), q, e)'
    <3>1. CASE e \in Matches(todo[q])
      <4>1. e \in Head(todo[q]) \/ e \in Matches(Tail(todo[q]))
        BY <1>3, <2>1, <3>1, MatchesHeadTail
      <4>2. e \in rows'[q] \/ e \in Matches(todo'[q])
        BY <2>4, <4>1
      <4>3. QED
        BY <4>2 DEF Underway, Matches
    <3>2. CASE \E i \in DOMAIN chan[ClientOf(q)] : chan[ClientOf(q)][i] = Row(q, e)
      BY <2>1, <3>2 DEF Underway, Row, ClientOf
    <3>3. QED
      BY <1>1, <2>5, <3>1, <3>2 DEF Underway
  <2>6. Counts(why[q])
    BY <1>1 DEF Counts, StreamInv, LocalsInv
  <2>7. QED
    BY <1>3, <2>1, <2>2, <2>3, <2>5, <2>6, QuietEose, ThreadStream
<1>4. QED
  BY <1>2, <1>3 DEF OpenFilter

LEMMA QuietStream ==
  ASSUME IInv, StreamInv, NEW q \in Queries,
         PassGate(q) \/ Admit(q) \/ SqlError(q) \/ Fetch(q) \/ FindSpace(q)
  PROVE  StreamInv'
<1>1. /\ ~Counts("given up") /\ ~Counts("checkpoint") /\ ~Counts("no connection")
      /\ {"given up", "checkpoint", "no connection"} \subseteq Reasons
      /\ "no connection" \in Ends
  BY DEF Counts, Reasons, Ends
<1>2. ASSUME pc[q] \in Working, Return(q, "given up") \/ Finish(q, "no connection")
                                \/ Return(q, "checkpoint")
      PROVE  StreamInv'
  BY <1>1, <1>2, LeaveStream DEF Return, Finish
<1>3. pc[q] \in Working
  BY DEF PassGate, Admit, SqlError, Fetch, FindSpace, Working
<1>4. ASSUME NEW place \in Working, Goto(q, place), UNCHANGED <<todo, rows, why, chan>>,
             place \notin {"fetch", "space", "send"} => rows[q] = {}
      PROVE  StreamInv'
  BY <1>3, <1>4, MoveStream
<1>5. CASE PassGate(q)
  <2>1. rows[q] = {} /\ "admit" \in Working
    BY <1>5 DEF PassGate, StreamInv, LocalsInv, Working
  <2>2. QED
    BY <1>4, <1>5, <2>1 DEF PassGate
<1>6. CASE Admit(q)
  <2>1. rows[q] = {} /\ "open" \in Working
    BY <1>6 DEF Admit, StreamInv, LocalsInv, Working
  <2>2. QED
    BY <1>2, <1>3, <1>4, <1>6, <2>1 DEF Admit
<1>7. CASE SqlError(q)
  BY <1>2, <1>3, <1>7 DEF SqlError
<1>8. CASE Fetch(q)
  <2>1. "open" \in Working /\ "space" \in Working
    BY DEF Working
  <2>2. QED
    BY <1>2, <1>3, <1>4, <1>8, <2>1 DEF Fetch
<1>9. CASE FindSpace(q)
  <2>1. "send" \in Working
    BY DEF Working
  <2>2. QED
    BY <1>2, <1>3, <1>4, <1>9, <2>1 DEF FindSpace
<1>10. QED
  BY <1>5, <1>6, <1>7, <1>8, <1>9

\* What Put does: the messages that are there stay where they are, and only the
\* client's channel may have one more.
LEMMA PutAdds ==
  ASSUME IInv, NEW q \in Queries, pc[q] # "idle", NEW m \in Messages, Put(q, m)
  PROVE  /\ \A c \in Clients : \A i \in DOMAIN chan[c] :
              /\ i \in DOMAIN chan'[c] /\ chan'[c][i] = chan[c][i]
              /\ i \in Nat /\ i <= Len(chan[c])
         /\ \A c \in Clients : \A i \in DOMAIN chan'[c] : i \notin DOMAIN chan[c] =>
              chan'[c][i] = m /\ i = Len(chan[c]) + 1 /\ i \in Nat
         /\ ClientOf(q) \in connected =>
              \E i \in DOMAIN chan'[ClientOf(q)] : chan'[ClientOf(q)][i] = m
<1>1. ClientOf(q) \in Clients /\ chan \in [Clients -> Seq(Messages)]
  BY DEF ClientOf, IInv, JobInv, ShapeInv, ChannelInv
<1>2. CASE ClientOf(q) \notin connected
  <2>1. chan' = chan
    BY <1>2 DEF Put
  <2>2. \A c \in Clients : DOMAIN chan[c] = 1..Len(chan[c])
    BY <1>1
  <2>3. QED
    BY <1>2, <2>1, <2>2
<1>3. CASE ClientOf(q) \in connected
  <2>1. chan' = [chan EXCEPT ![ClientOf(q)] = Append(chan[ClientOf(q)], m)]
    BY <1>3 DEF Put
  <2>2. ASSUME NEW c \in Clients
        PROVE  /\ \A i \in DOMAIN chan[c] : /\ i \in DOMAIN chan'[c] /\ chan'[c][i] = chan[c][i]
                                            /\ i \in Nat /\ i <= Len(chan[c])
               /\ \A i \in DOMAIN chan'[c] : i \notin DOMAIN chan[c] =>
                    chan'[c][i] = m /\ i = Len(chan[c]) + 1 /\ i \in Nat
    <3>1. chan[c] \in Seq(Messages) /\ DOMAIN chan[c] = 1..Len(chan[c]) /\ Len(chan[c]) \in Nat
      BY <1>1
    <3>2. CASE c = ClientOf(q)
      <4>1. chan'[c] = Append(chan[c], m)
        BY <1>1, <2>1, <3>2
      <4>2. QED
        BY <3>1, <4>1, AppendKeeps
    <3>3. CASE c # ClientOf(q)
      <4>1. chan'[c] = chan[c]
        BY <1>1, <2>1, <3>3
      <4>2. QED
        BY <3>1, <4>1
    <3>4. QED
      BY <3>2, <3>3
  <2>3. \E i \in DOMAIN chan'[ClientOf(q)] : chan'[ClientOf(q)][i] = m
    <3>1. chan'[ClientOf(q)] = Append(chan[ClientOf(q)], m)
      BY <1>1, <2>1
    <3>2. chan[ClientOf(q)] \in Seq(Messages)
      BY <1>1
    <3>3. QED
      BY <3>1, <3>2, AppendKeeps
  <2>4. QED
    BY <2>2, <2>3
<1>4. QED
  BY <1>2, <1>3

\* The EOSE that is sent is the last message of its query, whose thread is done.
LEMMA PutEose ==
  ASSUME IInv, StreamInv, NEW q \in Queries, NEW place, Goto(q, place),
         pc[q] \notin {"idle", "done"}, NEW m \in Messages, Put(q, m),
         m.query = q, m.event = {} => place = "done" /\ why[q] \in Ends, why' = why
  PROVE  EoseIsLast'
<1>1. pc' = [pc EXCEPT ![q] = place] /\ pc \in [Queries -> Places]
  BY DEF Goto, IInv, ShapeInv
<1>2. \A p : pc[p] = "done" => p # q /\ pc'[p] = "done"
  BY <1>1
<1>3. ASSUME NEW c \in Clients, NEW i \in DOMAIN chan'[c], chan'[c][i].event = {}
      PROVE  /\ pc'[chan'[c][i].query] = "done" /\ why'[chan'[c][i].query] \in Ends
             /\ \A j \in DOMAIN chan'[c] : j > i => chan'[c][j].query # chan'[c][i].query
  <2>1. CASE i \in DOMAIN chan[c]
    <3>1. chan'[c][i] = chan[c][i]
      BY <2>1, PutAdds
    <3>2. /\ pc[chan[c][i].query] = "done" /\ why[chan[c][i].query] \in Ends
          /\ \A j \in DOMAIN chan[c] : j > i => chan[c][j].query # chan[c][i].query
      BY <1>3, <2>1, <3>1 DEF StreamInv, EoseIsLast
    <3>3. ASSUME NEW j \in DOMAIN chan'[c], j > i PROVE chan'[c][j].query # chan'[c][i].query
      <4>1. CASE j \in DOMAIN chan[c]
        <5>1. chan'[c][j] = chan[c][j]
          BY <4>1, PutAdds
        <5>2. QED
          BY <3>1, <3>2, <3>3, <4>1, <5>1
      <4>2. CASE j \notin DOMAIN chan[c]
        <5>1. chan'[c][j] = m
          BY <4>2, PutAdds
        <5>2. QED
          BY <1>2, <3>1, <3>2, <5>1
      <4>3. QED
        BY <4>1, <4>2
    <3>4. QED
      BY <1>2, <3>1, <3>2, <3>3
  <2>2. CASE i \notin DOMAIN chan[c]
    <3>1. chan'[c][i] = m /\ i = Len(chan[c]) + 1 /\ i \in Nat
      BY <2>2, PutAdds
    <3>2. pc'[q] = "done" /\ why'[q] \in Ends
      BY <1>1, <1>3, <3>1
    <3>3. ASSUME NEW j \in DOMAIN chan'[c], j > i PROVE FALSE
      <4>1. CASE j \in DOMAIN chan[c]
        <5>1. j \in Nat /\ j <= Len(chan[c])
          BY <4>1, PutAdds
        <5>2. Len(chan[c]) \in Nat
          BY DEF IInv, ChannelInv
        <5>3. QED
          BY <3>1, <3>3, <5>1, <5>2
      <4>2. CASE j \notin DOMAIN chan[c]
        <5>1. j = Len(chan[c]) + 1
          BY <4>2, PutAdds
        <5>2. QED
          BY <3>1, <3>3, <5>1
      <4>3. QED
        BY <4>1, <4>2
    <3>4. QED
      BY <3>1, <3>2, <3>3
  <2>3. QED
    BY <2>1, <2>2
<1>4. QED
  BY <1>3 DEF EoseIsLast

LEMMA SendEoseStream ==
  ASSUME IInv, StreamInv, NEW q \in Queries, SendEose(q)
  PROVE  StreamInv'
<1>1. /\ pc[q] = "eose" /\ Goto(q, "done") /\ Put(q, Eose(q))
      /\ todo' = todo /\ rows' = rows /\ why' = why /\ job' = job
      /\ pc' = [pc EXCEPT ![q] = "done"] /\ pc \in [Queries -> Places]
      /\ "done" \in Places \ {"idle"}
  BY DEF SendEose, Goto, IInv, ShapeInv, Places
<1>2. Eose(q) \in Messages /\ Eose(q).query = q
  BY DEF Eose, Messages
<1>3. EoseIsLast'
  <2>1. why[q] \in Ends
    BY <1>1 DEF StreamInv, LocalsInv
  <2>2. QED
    BY <1>1, <1>2, <2>1, PutEose
<1>4. LocalsInv'
  BY <1>1 DEF StreamInv, LocalsInv
<1>5. \A c \in Clients : \A i \in DOMAIN chan[c] : i \in DOMAIN chan'[c] /\ chan'[c][i] = chan[c][i]
  BY <1>1, <1>2, PutAdds
<1>6. ClientOf(q) \in Clients /\ ClientOf(q)' = ClientOf(q)
  BY <1>1 DEF ClientOf, IInv, JobInv
<1>7. \A e \in db : Underway(ClientOf(q), q, e) => Underway(ClientOf(q), q, e)'
  <2> TAKE e \in db
  <2>1. (\E i \in DOMAIN chan[ClientOf(q)] : chan[ClientOf(q)][i] = Row(q, e)) =>
          \E i \in DOMAIN chan'[ClientOf(q)] : chan'[ClientOf(q)][i] = Row(q, e)
    BY <1>5, <1>6
  <2>2. QED
    BY <1>1, <1>6, <2>1 DEF Underway, Row, Matches
<1>8. QED
  BY <1>1, <1>3, <1>4, <1>5, <1>7, ThreadStream

LEMMA SendStream ==
  ASSUME IInv, StreamInv, NEW q \in Queries, Send(q)
  PROVE  StreamInv'
<1>1. PICK f \in rows[q] : Put(q, Row(q, f)) /\ rows' = [rows EXCEPT ![q] = @ \ {f}]
  BY DEF Send
<1>2. /\ pc[q] = "send" /\ Goto(q, "fetch")
      /\ todo' = todo /\ why' = why /\ job' = job
      /\ pc' = [pc EXCEPT ![q] = "fetch"] /\ pc \in [Queries -> Places]
      /\ rows \in [Queries -> SUBSET Events] /\ "fetch" \in Places \ {"idle"}
  BY DEF Send, Goto, IInv, ShapeInv, Places, Working
<1>3. Row(q, f) \in Messages /\ Row(q, f).query = q /\ Row(q, f).event # {}
  BY <1>2 DEF Row, Messages
<1>4. EoseIsLast'
  BY <1>1, <1>2, <1>3, PutEose
<1>5. LocalsInv'
  BY <1>1, <1>2 DEF StreamInv, LocalsInv
<1>6. /\ \A c \in Clients : \A i \in DOMAIN chan[c] : i \in DOMAIN chan'[c] /\ chan'[c][i] = chan[c][i]
      /\ ClientOf(q) \in connected =>
           \E i \in DOMAIN chan'[ClientOf(q)] : chan'[ClientOf(q)][i] = Row(q, f)
  BY <1>1, <1>2, <1>3, PutAdds
<1>7. ClientOf(q) \in Clients /\ ClientOf(q)' = ClientOf(q)
  BY <1>2 DEF ClientOf, IInv, JobInv
<1>8. ASSUME ClientOf(q) \in connected, NEW e \in db, Underway(ClientOf(q), q, e)
      PROVE  Underway(ClientOf(q), q, e)'
  <2>1. rows'[q] = rows[q] \ {f}
    BY <1>1, <1>2
  <2>2. CASE e = f
    BY <1>6, <1>7, <1>8, <2>2 DEF Underway, Row
  <2>3. CASE e # f
    <3>1. e \in Matches(todo[q]) => e \in Matches(todo'[q])
      BY <1>2
    <3>2. e \in rows[q] => e \in rows'[q]
      BY <2>1, <2>3
    <3>3. (\E i \in DOMAIN chan[ClientOf(q)] : chan[ClientOf(q)][i] = Row(q, e)) =>
            \E i \in DOMAIN chan'[ClientOf(q)] : chan'[ClientOf(q)][i] = Row(q, e)
      BY <1>6, <1>7
    <3>4. QED
      BY <1>2, <1>7, <1>8, <3>1, <3>2, <3>3 DEF Underway, Row, Matches
  <2>4. QED
    BY <2>2, <2>3
<1>9. \A p \in Queries : p # q => todo'[p] = todo[p] /\ rows'[p] = rows[p] /\ why'[p] = why[p]
  BY <1>1, <1>2
<1>10. Counts(why[q]) /\ \A c \in Clients : \A i \in DOMAIN chan[c] :
          \E j \in DOMAIN chan'[c] : chan'[c][j] = chan[c][i]
  BY <1>2, <1>6 DEF Counts, StreamInv, LocalsInv
<1>11. QED
  BY <1>2, <1>4, <1>5, <1>8, <1>9, <1>10, ThreadStream

-----------------------------------------------------------------------------
(* The steps of the clients and of the writer, id by id                     *)

\* What an id is owed: the parts of StreamInv that are about ids.
Served(c, s) ==
  /\ \A q \in Queries : running[c][s] = q =>
       /\ pc[q] # "idle" /\ job[q] = [client |-> c, sub |-> s] /\ subs[c][s] # NoRequest
       /\ c \in connected \ lagged /\ Counts(why[q]) =>
            \A e \in db \cap Matches(subs[c][s]) : Sent(c, s, e) \/ Underway(c, q, e)
  /\ answered[c][s] =>
       /\ running[c][s] \in Queries /\ pc[running[c][s]] = "done"
       /\ c \in connected \ lagged /\ ~Unread(c, s) =>
            \A e \in db \cap Matches(subs[c][s]) : Sent(c, s, e)

LEMMA StreamServes ==
  ASSUME IInv, StreamInv, NEW c \in Clients, NEW s \in SubIds
  PROVE  Served(c, s)
BY DEF StreamInv, RunsForItsId, NothingSkipped, AnsweredRuns, AnsweredSent, Served

LEMMA ServedStream ==
  ASSUME IInv', LocalsInv', EoseIsLast', OnePending', \A c \in Clients, s \in SubIds : Served(c, s)'
  PROVE  StreamInv'
<1>1. connected' \subseteq Clients
  BY DEF IInv, ShapeInv
<1>2. RunsForItsId'
  BY DEF RunsForItsId, Served
<1>3. AnsweredRuns'
  BY DEF AnsweredRuns, Served
<1>4. NothingSkipped'
  BY <1>1 DEF NothingSkipped, Served
<1>5. AnsweredSent'
  BY <1>1 DEF AnsweredSent, Served
<1>6. QED
  BY <1>2, <1>3, <1>4, <1>5 DEF StreamInv

\* The EOSEs stay last while no channel grows and what is done stays done.
LEMMA EosesStay ==
  ASSUME StreamInv, why' = why, \A c \in Clients : chan'[c] = chan[c] \/ chan'[c] = <<>>,
         \A p : pc[p] = "done" => pc'[p] = "done"
  PROVE  EoseIsLast'
<1>1. ASSUME NEW c \in Clients, NEW i \in DOMAIN chan'[c], chan'[c][i].event = {}
      PROVE  /\ pc'[chan'[c][i].query] = "done" /\ why'[chan'[c][i].query] \in Ends
             /\ \A j \in DOMAIN chan'[c] : j > i => chan'[c][j].query # chan'[c][i].query
  <2>1. chan'[c] = chan[c]
    BY <1>1
  <2>2. QED
    BY <1>1, <2>1 DEF StreamInv, EoseIsLast
<1>2. QED
  BY <1>1 DEF EoseIsLast

\* An id that a step does not concern stays served.
LEMMA ServedStays ==
  ASSUME IInv, StreamInv, NEW c \in Clients, NEW s \in SubIds,
         subs'[c][s] = subs[c][s], running'[c][s] = running[c][s],
         answered'[c][s] = answered[c][s], received'[c][s] = received[c][s],
         feed'[c] = feed[c], chan'[c] = chan[c], db' = db, pending' = pending,
         lagged' = lagged, c \in connected' => c \in connected, why' = why, rows' = rows,
         \A q \in Queries : pc[q] # "idle" =>
           /\ pc'[q] # "idle" /\ job'[q] = job[q] /\ todo'[q] = todo[q]
           /\ pc[q] = "done" => pc'[q] = "done"
  PROVE  Served(c, s)'
<1>1. Served(c, s)
  BY StreamServes
<1>2. \A e : Sent(c, s, e) => Sent(c, s, e)'
  BY DEF Sent
<1>3. ASSUME NEW q \in Queries, pc[q] # "idle", NEW e PROVE Underway(c, q, e) => Underway(c, q, e)'
  <2>1. todo'[q] = todo[q] /\ rows'[q] = rows[q] /\ chan'[c] = chan[c]
    BY <1>3
  <2>2. QED
    BY <2>1, UnderwayStays
<1>4. /\ Unread(c, s)' <=> Unread(c, s)
      /\ running[c][s] \in Queries /\ pc[running[c][s]] = "done" =>
           running'[c][s] \in Queries /\ pc'[running'[c][s]] = "done"
  BY DEF Unread
<1>5. QED
  BY <1>1, <1>2, <1>3, <1>4 DEF Served

\* Only started queries are named; 0 is none.
LEMMA ZeroIsNone == 0 \notin Queries
BY QueryAssumption DEF Queries, QueryAssumption

\* An id without a query is owed nothing.
LEMMA NotOwed ==
  ASSUME NEW c, NEW s, running'[c][s] = 0, answered'[c][s] = FALSE PROVE Served(c, s)'
BY ZeroIsNone DEF Served

LEMMA RequestStream ==
  ASSUME IInv, IInv', StreamInv, NEW c \in Clients, NEW s \in SubIds, NEW r \in Requests,
         Request(c, s, r)
  PROVE  StreamInv'
<1>1. /\ subs' = [subs EXCEPT ![c][s] = r] /\ received' = [received EXCEPT ![c][s] = {}]
      /\ answered' = [answered EXCEPT ![c][s] = FALSE]
      /\ connected' = connected /\ rows' = rows /\ why' = why /\ chan' = chan
      /\ db' = db /\ pending' = pending /\ feed' = feed /\ lagged' = lagged
      /\ subs \in [Clients -> [SubIds -> Requests \cup {NoRequest}]]
      /\ running \in [Clients -> [SubIds -> Queries \cup {0}]]
      /\ received \in [Clients -> [SubIds -> SUBSET Events]]
      /\ answered \in [Clients -> [SubIds -> BOOLEAN]]
  BY DEF Request, storeVars, IInv, ShapeInv
<1>2. OnePending'
  BY <1>1 DEF StreamInv, OnePending
<1>3. answered'[c][s] = FALSE /\ received'[c][s] = {} /\ subs'[c][s] = r
  BY <1>1
<1>4. ASSUME NEW d \in Clients, NEW t \in SubIds, d # c \/ t # s
      PROVE  /\ subs'[d][t] = subs[d][t] /\ answered'[d][t] = answered[d][t]
             /\ received'[d][t] = received[d][t]
  BY <1>1, <1>4
<1>5. CASE running' = [running EXCEPT ![c][s] = 0] /\ UNCHANGED <<pc, job, todo>>
  <2>1. LocalsInv' /\ EoseIsLast'
    BY <1>1, <1>5, EosesStay DEF StreamInv, LocalsInv
  <2>2. ASSUME NEW d \in Clients, NEW t \in SubIds PROVE Served(d, t)'
    <3>1. CASE d = c /\ t = s
      <4>1. running'[c][s] = 0
        BY <1>1, <1>5
      <4>2. QED
        BY <1>3, <3>1, <4>1, NotOwed
    <3>2. CASE d # c \/ t # s
      <4>1. running'[d][t] = running[d][t]
        BY <1>1, <1>5, <3>2
      <4>2. QED
        BY <1>1, <1>4, <1>5, <3>2, <4>1, ServedStays
    <3>3. QED
      BY <3>1, <3>2
  <2>3. QED
    BY <1>2, <2>1, <2>2, ServedStream
<1>6. ASSUME NEW q \in Fresh,
             running' = [running EXCEPT ![c][s] = q], pc' = [pc EXCEPT ![q] = "queued"],
             job' = [job EXCEPT ![q] = [client |-> c, sub |-> s]],
             todo' = [todo EXCEPT ![q] = r]
      PROVE  StreamInv'
  <2>1. /\ q \in Queries /\ pc[q] = "idle" /\ pc \in [Queries -> Places]
        /\ job \in [Queries -> [client : Clients, sub : SubIds] \cup {NoJob}]
        /\ todo \in [Queries -> Seq(SUBSET Events)]
    BY DEF Fresh, IInv, ShapeInv
  <2>2. LocalsInv'
    BY <1>1, <1>6, <2>1 DEF StreamInv, LocalsInv
  <2>3. \A p : pc[p] = "done" => pc'[p] = "done"
    BY <1>6, <2>1
  <2>4. EoseIsLast'
    BY <1>1, <2>3, EosesStay
  <2>5. \A p \in Queries : pc[p] # "idle" =>
          /\ pc'[p] # "idle" /\ job'[p] = job[p] /\ todo'[p] = todo[p]
          /\ pc[p] = "done" => pc'[p] = "done"
    BY <1>6, <2>1
  <2>6. ASSUME NEW d \in Clients, NEW t \in SubIds PROVE Served(d, t)'
    <3>1. CASE d = c /\ t = s
      <4>1. running'[c][s] = q
        BY <1>1, <1>6
      <4>2. pc'[q] = "queued" /\ job'[q] = [client |-> c, sub |-> s] /\ todo'[q] = r
        BY <1>6, <2>1
      <4>3. r # NoRequest
        BY QueryAssumption DEF QueryAssumption
      <4>4. \A e : e \in Matches(subs[c][s])' => Underway(c, q, e)'
        BY <1>3, <4>2 DEF Underway, Matches
      <4>5. Served(c, s)'
        BY <1>3, <4>1, <4>2, <4>3, <4>4 DEF Served
      <4>6. QED
        BY <3>1, <4>5
    <3>2. CASE d # c \/ t # s
      <4>1. running'[d][t] = running[d][t]
        BY <1>1, <1>6, <3>2
      <4>2. QED
        BY <1>1, <1>4, <2>5, <3>2, <4>1, ServedStays
    <3>3. QED
      BY <3>1, <3>2
  <2>7. QED
    BY <1>2, <2>2, <2>4, <2>6, ServedStream
<1>7. QED
  BY <1>5, <1>6 DEF Request

LEMMA AcquireStream ==
  ASSUME IInv, IInv', StreamInv, NEW c \in Clients, Acquire(c)
  PROVE  StreamInv'
<1>1. PICK q \in Queries : q = waiting[c] /\ pc[q] = "queued"
  BY DEF Acquire, IInv, ShapeInv, WaitingInv
<1>2. /\ UNCHANGED <<connected, subs, running, job, todo, rows, why, chan, db, pending,
                     feed, lagged, received, answered>>
      /\ pc' = [pc EXCEPT ![q] = "gate"] /\ pc \in [Queries -> Places]
  BY <1>1 DEF Acquire, threadVars, storeVars, historyVars, IInv, ShapeInv
<1>3. OnePending'
  BY <1>2 DEF StreamInv, OnePending
<1>4. LocalsInv'
  BY <1>1, <1>2 DEF StreamInv, LocalsInv
<1>5. \A p : (pc[p] = "done" => pc'[p] = "done")
  BY <1>1, <1>2
<1>6. EoseIsLast'
  BY <1>2, <1>5, EosesStay
<1>7. \A p \in Queries : pc[p] # "idle" =>
        pc'[p] # "idle" /\ (pc[p] = "done" => pc'[p] = "done")
  BY <1>1, <1>2
<1>8. \A d \in Clients, t \in SubIds : Served(d, t)'
  BY <1>2, <1>7, ServedStays
<1>9. QED
  BY <1>3, <1>4, <1>6, <1>8, ServedStream

LEMMA CloseStream ==
  ASSUME IInv, IInv', StreamInv, NEW c \in Clients, NEW s \in SubIds, CloseSub(c, s)
  PROVE  StreamInv'
<1>1. /\ subs' = [subs EXCEPT ![c][s] = NoRequest] /\ running' = [running EXCEPT ![c][s] = 0]
      /\ received' = [received EXCEPT ![c][s] = {}]
      /\ answered' = [answered EXCEPT ![c][s] = FALSE]
      /\ UNCHANGED <<connected, pc, job, todo, rows, why, chan, db, pending, feed, lagged>>
      /\ subs \in [Clients -> [SubIds -> Requests \cup {NoRequest}]]
      /\ running \in [Clients -> [SubIds -> Queries \cup {0}]]
      /\ received \in [Clients -> [SubIds -> SUBSET Events]]
      /\ answered \in [Clients -> [SubIds -> BOOLEAN]]
  BY DEF CloseSub, threadVars, storeVars, IInv, ShapeInv
<1>2. OnePending' /\ LocalsInv' /\ EoseIsLast'
  BY <1>1, EosesStay DEF StreamInv, OnePending, LocalsInv
<1>3. ASSUME NEW d \in Clients, NEW t \in SubIds PROVE Served(d, t)'
  <2>1. CASE d = c /\ t = s
    <3>1. running'[c][s] = 0 /\ answered'[c][s] = FALSE
      BY <1>1
    <3>2. QED
      BY <2>1, <3>1, NotOwed
  <2>2. CASE d # c \/ t # s
    <3>1. /\ subs'[d][t] = subs[d][t] /\ running'[d][t] = running[d][t]
          /\ answered'[d][t] = answered[d][t] /\ received'[d][t] = received[d][t]
      BY <1>1, <2>2
    <3>2. QED
      BY <1>1, <3>1, ServedStays
  <2>3. QED
    BY <2>1, <2>2
<1>4. QED
  BY <1>2, <1>3, ServedStream

LEMMA TaskEndStream ==
  ASSUME IInv, IInv', StreamInv, NEW c \in Clients, Disconnect(c) \/ Panic(c)
  PROVE  StreamInv'
<1>1. /\ subs' = [subs EXCEPT ![c] = [s \in SubIds |-> NoRequest]]
      /\ running' = [running EXCEPT ![c] = [s \in SubIds |-> 0]]
      /\ received' = [received EXCEPT ![c] = [s \in SubIds |-> {}]]
      /\ answered' = [answered EXCEPT ![c] = [s \in SubIds |-> FALSE]]
      /\ chan' = [chan EXCEPT ![c] = <<>>] /\ feed' = [feed EXCEPT ![c] = <<>>]
      /\ connected' = connected \ {c}
      /\ UNCHANGED <<pc, job, todo, rows, why, db, pending, lagged>>
      /\ subs \in [Clients -> [SubIds -> Requests \cup {NoRequest}]]
      /\ running \in [Clients -> [SubIds -> Queries \cup {0}]]
      /\ received \in [Clients -> [SubIds -> SUBSET Events]]
      /\ answered \in [Clients -> [SubIds -> BOOLEAN]]
      /\ chan \in [Clients -> Seq(Messages)] /\ feed \in [Clients -> Seq(Events)]
  BY DEF Disconnect, Panic, TaskEnds, threadVars, storeVars, IInv, ShapeInv, ChannelInv
<1>2. OnePending' /\ LocalsInv'
  BY <1>1 DEF StreamInv, OnePending, LocalsInv
<1>3. EoseIsLast'
  <2>1. ASSUME NEW d \in Clients PROVE chan'[d] = <<>> \/ chan'[d] = chan[d]
    BY <1>1
  <2>2. QED
    BY <1>1, <2>1, EosesStay
<1>4. ASSUME NEW d \in Clients, NEW t \in SubIds PROVE Served(d, t)'
  <2>1. CASE d = c
    <3>1. running'[c][t] = 0 /\ answered'[c][t] = FALSE
      BY <1>1
    <3>2. QED
      BY <2>1, <3>1, NotOwed
  <2>2. CASE d # c
    <3>1. /\ subs'[d][t] = subs[d][t] /\ running'[d][t] = running[d][t]
          /\ answered'[d][t] = answered[d][t] /\ received'[d][t] = received[d][t]
          /\ feed'[d] = feed[d] /\ chan'[d] = chan[d]
      BY <1>1, <2>2
    <3>2. QED
      BY <1>1, <3>1, ServedStays
  <2>3. QED
    BY <2>1, <2>2
<1>5. QED
  BY <1>2, <1>3, <1>4, ServedStream

\* The messages that are left keep their order.
LEMMA TailEoses ==
  ASSUME StreamInv, NEW c \in Clients, chan \in [Clients -> Seq(Messages)], chan[c] # <<>>,
         chan' = [chan EXCEPT ![c] = Tail(@)], pc' = pc, why' = why
  PROVE  EoseIsLast'
<1>1. ASSUME NEW d \in Clients, NEW i \in DOMAIN chan'[d], chan'[d][i].event = {}
      PROVE  /\ pc'[chan'[d][i].query] = "done" /\ why'[chan'[d][i].query] \in Ends
             /\ \A j \in DOMAIN chan'[d] : j > i => chan'[d][j].query # chan'[d][i].query
  <2>1. CASE d = c
    <3>1. chan'[d] = Tail(chan[d]) /\ chan[d] \in Seq(Messages) /\ chan[d] # <<>>
      BY <2>1
    <3>2. \A j \in DOMAIN chan'[d] : j \in Int /\ j + 1 \in DOMAIN chan[d] /\ chan'[d][j] = chan[d][j + 1]
      BY <3>1, TailMoves
    <3>3. /\ pc[chan[d][i + 1].query] = "done" /\ why[chan[d][i + 1].query] \in Ends
          /\ \A j \in DOMAIN chan[d] : j > i + 1 => chan[d][j].query # chan[d][i + 1].query
      BY <1>1, <3>2 DEF StreamInv, EoseIsLast
    <3>4. ASSUME NEW j \in DOMAIN chan'[d], j > i PROVE chan'[d][j].query # chan'[d][i].query
      <4>1. j + 1 > i + 1
        BY <3>2, <3>4
      <4>2. QED
        BY <3>2, <3>3, <4>1
    <3>5. QED
      BY <3>2, <3>3, <3>4
  <2>2. CASE d # c
    <3>1. chan'[d] = chan[d]
      BY <2>2
    <3>2. QED
      BY <1>1, <3>1 DEF StreamInv, EoseIsLast
  <2>3. QED
    BY <2>1, <2>2
<1>2. QED
  BY <1>1 DEF EoseIsLast

\* When the EOSE of a query that ended well is the next message, the client has
\* been sent all it is owed.
LEMMA EoseTellsAll ==
  ASSUME IInv, StreamInv, NEW c \in connected \ lagged, NEW s \in SubIds, NEW q \in Queries,
         running[c][s] = q, chan[c] # <<>>, Head(chan[c]) = Eose(q), why[q] = "complete",
         NEW e \in db \cap Matches(subs[c][s])
  PROVE  Sent(c, s, e)
<1>1. c \in Clients /\ chan[c] \in Seq(Messages)
  BY DEF IInv, ShapeInv, ChannelInv
<1>2. 1 \in DOMAIN chan[c] /\ chan[c][1] = Eose(q) /\ DOMAIN chan[c] \subseteq Int
      /\ \A i \in DOMAIN chan[c] : i >= 1
  BY <1>1, TailMoves
<1>3. Eose(q).event = {} /\ Eose(q).query = q
  BY DEF Eose
<1>4. pc[q] = "done" /\ \A j \in DOMAIN chan[c] : j > 1 => chan[c][j].query # q
  BY <1>1, <1>2, <1>3 DEF StreamInv, EoseIsLast
<1>5. todo[q] = <<>> /\ rows[q] = {}
  BY <1>4 DEF StreamInv, LocalsInv
<1>6. ASSUME NEW i \in DOMAIN chan[c], chan[c][i] = Row(q, e) PROVE FALSE
  <2>1. chan[c][i].query = q /\ chan[c][i].event # {}
    BY <1>6 DEF Row
  <2>2. i = 1 \/ i > 1
    BY <1>2
  <2>3. QED
    BY <1>2, <1>3, <1>4, <2>1, <2>2
<1>7. ~Underway(c, q, e)
  BY <1>5, <1>6, NoFilterMatches DEF Underway
<1>8. QED
  BY <1>7 DEF StreamInv, NothingSkipped, Counts

LEMMA DeliverStream ==
  ASSUME IInv, IInv', StreamInv, NEW c \in Clients, Deliver(c)
  PROVE  StreamInv'
<1> DEFINE m == Head(chan[c])
           t == job[m.query].sub
<1>1. /\ c \in connected /\ chan[c] # <<>> /\ chan' = [chan EXCEPT ![c] = Tail(@)]
      /\ UNCHANGED <<connected, subs, running, pc, job, todo, rows, why, db, pending, feed, lagged>>
      /\ chan \in [Clients -> Seq(Messages)]
      /\ received \in [Clients -> [SubIds -> SUBSET Events]]
      /\ answered \in [Clients -> [SubIds -> BOOLEAN]]
  BY DEF Deliver, Ready, clientVars, threadVars, storeVars, IInv, ShapeInv, ChannelInv
<1>2. /\ received' = IF subs[c][t] = NoRequest THEN received
                     ELSE [received EXCEPT ![c][t] = @ \cup m.event]
      /\ answered' = [answered EXCEPT ![c][t] = @ \/ m = Eose(running[c][t])]
  BY DEF Deliver
<1>3. /\ chan[c] \in Seq(Messages) /\ 1 \in DOMAIN chan[c] /\ chan[c][1] = m
      /\ m \in Messages /\ chan'[c] = Tail(chan[c])
  BY <1>1, TailMoves
<1>4. m.query \in Queries
  BY <1>3 DEF Messages
<1> HIDE DEF m, t
<1>5. OnePending' /\ LocalsInv' /\ EoseIsLast'
  BY <1>1, TailEoses DEF StreamInv, OnePending, LocalsInv
<1>6. \A d \in Clients, s \in SubIds :
        /\ received[d][s] \subseteq received'[d][s]
        /\ d # c => received'[d][s] = received[d][s] /\ answered'[d][s] = answered[d][s]
        /\ s # t => answered'[d][s] = answered[d][s]
  BY <1>1, <1>2
<1>7. \A d \in Clients, s \in SubIds : \A e : Sent(d, s, e) => Sent(d, s, e)'
  BY <1>1, <1>6 DEF Sent
<1>8. \A s \in SubIds : Unread(c, s)' <=> Unread(c, s)
  BY <1>1 DEF Unread
<1>9. ASSUME NEW s \in SubIds PROVE Served(c, s)'
  <2>1. Served(c, s)
    BY StreamServes
  <2>2. ASSUME NEW q \in Queries, running[c][s] = q, NEW e, Underway(c, q, e)
        PROVE  Sent(c, s, e)' \/ Underway(c, q, e)'
    <3>1. CASE e \in Matches(todo[q]) \/ e \in rows[q]
      BY <1>1, <3>1 DEF Underway, Matches
    <3>2. ASSUME NEW i \in DOMAIN chan[c], chan[c][i] = Row(q, e), i # 1
          PROVE  Underway(c, q, e)'
      <4>1. i - 1 \in DOMAIN chan'[c] /\ chan'[c][i - 1] = Row(q, e)
        BY <1>1, <1>3, <3>2, TailMoves
      <4>2. QED
        BY <4>1 DEF Underway, Row
    <3>3. CASE m = Row(q, e)
      <4>1. m.query = q /\ m.event = {e} /\ job[q] = [client |-> c, sub |-> s]
            /\ subs[c][s] # NoRequest
        BY <2>1, <2>2, <3>3 DEF Row, Served
      <4>2. t = s
        BY <4>1 DEF t
      <4>3. e \in received'[c][s]
        BY <1>1, <1>2, <4>1, <4>2
      <4>4. QED
        BY <4>3 DEF Sent
    <3>4. QED
      BY <1>3, <2>2, <3>1, <3>2, <3>3 DEF Underway
  <2>3. ASSUME NEW q \in Queries, running'[c][s] = q
        PROVE  /\ pc'[q] # "idle" /\ job'[q] = [client |-> c, sub |-> s] /\ subs'[c][s] # NoRequest
               /\ c \in connected' \ lagged' /\ Counts(why'[q]) =>
                    \A e \in db' \cap Matches(subs'[c][s]) : Sent(c, s, e)' \/ Underway(c, q, e)'
    BY <1>1, <1>7, <2>1, <2>2, <2>3 DEF Served
  <2>4. ASSUME answered[c][s]
        PROVE  /\ running'[c][s] \in Queries /\ pc'[running'[c][s]] = "done"
               /\ c \in connected' \ lagged' /\ ~Unread(c, s)' =>
                    \A e \in db' \cap Matches(subs'[c][s]) : Sent(c, s, e)'
    BY <1>1, <1>7, <1>8, <2>1, <2>4 DEF Served
  <2>5. ASSUME answered'[c][s], ~answered[c][s]
        PROVE  /\ running'[c][s] \in Queries /\ pc'[running'[c][s]] = "done"
               /\ c \in connected' \ lagged' /\ ~Unread(c, s)' =>
                    \A e \in db' \cap Matches(subs'[c][s]) : Sent(c, s, e)'
    <3>1. s = t
      BY <1>6, <2>5
    <3>2. m = Eose(running[c][s])
      BY <1>1, <1>2, <2>5, <3>1
    <3>3. m.query = running[c][s] /\ m.event = {}
      BY <3>2 DEF Eose
    <3>4. why[m.query] \in Ends /\ pc[m.query] = "done"
      BY <1>3, <3>3 DEF StreamInv, EoseIsLast
    <3>5. Unread(c, s) \/ why[m.query] = "complete"
      BY <3>3, <3>4 DEF Ends, Unread
    <3>6. ASSUME c \in connected' \ lagged', ~Unread(c, s), NEW e \in db' \cap Matches(subs'[c][s])
          PROVE  Sent(c, s, e)
      <4>1. Head(chan[c]) = Eose(m.query)
        BY <3>2, <3>3 DEF m
      <4>2. QED
        BY <1>1, <1>4, <3>2, <3>3, <3>5, <3>6, <4>1, EoseTellsAll
    <3>7. QED
      BY <1>1, <1>4, <1>7, <1>8, <3>3, <3>6, <3>4
  <2>6. QED
    BY <2>3, <2>4, <2>5 DEF Served
<1>10. ASSUME NEW d \in Clients, NEW s \in SubIds, d # c PROVE Served(d, s)'
  <2>1. chan'[d] = chan[d]
    BY <1>1, <1>10
  <2>2. QED
    BY <1>1, <1>6, <1>10, <2>1, ServedStays
<1>11. QED
  BY <1>5, <1>9, <1>10, ServedStream

LEMMA HearStream ==
  ASSUME IInv, IInv', StreamInv, NEW c \in Clients, Hear(c)
  PROVE  StreamInv'
<1> DEFINE h == Head(feed[c])
<1>1. /\ feed[c] # <<>> /\ feed' = [feed EXCEPT ![c] = Tail(@)]
      /\ received' = [received EXCEPT ![c] = [s \in SubIds |->
           IF subs[c][s] # NoRequest /\ h \in Matches(subs[c][s])
           THEN @[s] \cup {h} ELSE @[s]]]
      /\ UNCHANGED <<connected, subs, running, pc, job, todo, rows, why, db, pending, chan,
                     lagged, answered>>
      /\ feed \in [Clients -> Seq(Events)]
      /\ received \in [Clients -> [SubIds -> SUBSET Events]]
  BY DEF Hear, clientVars, threadVars, storeVars, IInv, ShapeInv, ChannelInv
<1>2. feed[c] \in Seq(Events) /\ feed[c][1] = h /\ feed'[c] = Tail(feed[c])
  BY <1>1, TailMoves
<1> HIDE DEF h
<1>3. OnePending' /\ LocalsInv' /\ EoseIsLast'
  BY <1>1, EosesStay DEF StreamInv, OnePending, LocalsInv
<1>4. ASSUME NEW s \in SubIds PROVE Served(c, s)'
  <2>1. Served(c, s)
    BY StreamServes
  <2>2. /\ received[c][s] \subseteq received'[c][s]
        /\ subs[c][s] # NoRequest /\ h \in Matches(subs[c][s]) => h \in received'[c][s]
    BY <1>1
  <2>3. ASSUME NEW e \in Matches(subs[c][s]), subs[c][s] # NoRequest, Sent(c, s, e)
        PROVE  Sent(c, s, e)'
    <3>1. CASE e \in received[c][s] \/ e \in pending
      BY <1>1, <2>2, <3>1 DEF Sent
    <3>2. ASSUME NEW i \in DOMAIN feed[c], feed[c][i] = e, i # 1 PROVE Sent(c, s, e)'
      <4>1. i - 1 \in DOMAIN feed'[c] /\ feed'[c][i - 1] = e
        BY <1>1, <1>2, <3>2, TailMoves
      <4>2. QED
        BY <4>1 DEF Sent
    <3>3. CASE e = h
      BY <2>2, <2>3, <3>3 DEF Sent
    <3>4. QED
      BY <1>2, <2>3, <3>1, <3>2, <3>3 DEF Sent
  <2>4. ASSUME NEW q \in Queries, NEW e PROVE Underway(c, q, e) => Underway(c, q, e)'
    BY <1>1, UnderwayStays
  <2>5. ASSUME NEW q \in Queries, running'[c][s] = q
        PROVE  /\ pc'[q] # "idle" /\ job'[q] = [client |-> c, sub |-> s] /\ subs'[c][s] # NoRequest
               /\ c \in connected' \ lagged' /\ Counts(why'[q]) =>
                    \A e \in db' \cap Matches(subs'[c][s]) : Sent(c, s, e)' \/ Underway(c, q, e)'
    <3>1. /\ pc[q] # "idle" /\ job[q] = [client |-> c, sub |-> s] /\ subs[c][s] # NoRequest
          /\ c \in connected \ lagged /\ Counts(why[q]) =>
               \A e \in db \cap Matches(subs[c][s]) : Sent(c, s, e) \/ Underway(c, q, e)
      BY <1>1, <2>1, <2>5 DEF Served
    <3>2. QED
      BY <1>1, <2>3, <2>4, <3>1
  <2>6. ASSUME answered'[c][s]
        PROVE  /\ running'[c][s] \in Queries /\ pc'[running'[c][s]] = "done"
               /\ c \in connected' \ lagged' /\ ~Unread(c, s)' =>
                    \A e \in db' \cap Matches(subs'[c][s]) : Sent(c, s, e)'
    <3>1. /\ running[c][s] \in Queries /\ pc[running[c][s]] = "done"
          /\ subs[c][s] # NoRequest /\ (Unread(c, s)' <=> Unread(c, s))
          /\ c \in connected \ lagged /\ ~Unread(c, s) =>
               \A e \in db \cap Matches(subs[c][s]) : Sent(c, s, e)
      BY <1>1, <2>1, <2>6 DEF Served, Unread
    <3>2. QED
      BY <1>1, <2>3, <3>1
  <2>7. QED
    BY <2>5, <2>6 DEF Served
<1>5. ASSUME NEW d \in Clients, NEW s \in SubIds, d # c PROVE Served(d, s)'
  <2>1. feed'[d] = feed[d] /\ received'[d][s] = received[d][s]
    BY <1>1, <1>5
  <2>2. QED
    BY <1>1, <2>1, ServedStays
<1>6. QED
  BY <1>3, <1>4, <1>5, ServedStream

\* What is committed is pending; nothing else was.
LEMMA CommitStream ==
  ASSUME IInv, IInv', StreamInv, NEW f \in Events, Commit(f)
  PROVE  StreamInv'
<1>1. /\ UNCHANGED <<connected, subs, running, pc, job, todo, rows, why, chan, feed,
                     lagged, received, answered>>
      /\ pending = {} /\ pending' = {f} /\ db' = db \cup {f}
  BY DEF Commit, otherVars, clientVars, threadVars, historyVars
<1>2. OnePending' /\ LocalsInv' /\ EoseIsLast'
  BY <1>1, EosesStay DEF StreamInv, OnePending, LocalsInv
<1>3. ASSUME NEW c \in Clients, NEW s \in SubIds PROVE Served(c, s)'
  <2>1. Served(c, s)
    BY StreamServes
  <2>2. \A e : Sent(c, s, e) => Sent(c, s, e)'
    BY <1>1 DEF Sent
  <2>3. Sent(c, s, f)'
    BY <1>1 DEF Sent
  <2>4. ASSUME NEW q \in Queries, NEW e PROVE Underway(c, q, e) => Underway(c, q, e)'
    BY <1>1, UnderwayStays
  <2>5. \A e \in db' : e \in db \/ e = f
    BY <1>1
  <2>6. QED
    BY <1>1, <2>1, <2>2, <2>3, <2>4, <2>5 DEF Served, Unread
<1>4. QED
  BY <1>2, <1>3, ServedStream

\* The event that is no longer pending is on the feed of every client that has
\* not lost one.
LEMMA BroadcastStream ==
  ASSUME IInv, IInv', StreamInv, Broadcast
  PROVE  StreamInv'
<1>1. PICK f \in pending : feed' = [c \in Clients |->
         IF c \notin connected THEN feed[c]
         ELSE IF Len(feed[c]) < BroadcastCap THEN Append(feed[c], f)
         ELSE Append(Tail(feed[c]), f)]
  BY DEF Broadcast
<1>2. /\ UNCHANGED <<connected, subs, running, pc, job, todo, rows, why, chan, db,
                     received, answered>>
      /\ pending' = {} /\ lagged' = lagged \cup {c \in connected : Len(feed[c]) = BroadcastCap}
      /\ feed \in [Clients -> Seq(Events)] /\ f \in Events /\ connected \subseteq Clients
  BY DEF Broadcast, otherVars, clientVars, threadVars, IInv, ShapeInv, ChannelInv
<1>3. OnePending' /\ LocalsInv' /\ EoseIsLast'
  BY <1>2, EosesStay DEF StreamInv, OnePending, LocalsInv
<1>4. \A e \in pending : e = f
  BY DEF StreamInv, OnePending
<1>5. ASSUME NEW c \in connected' \ lagged', NEW s \in SubIds, NEW e, Sent(c, s, e)
      PROVE  Sent(c, s, e)'
  <2>1. c \in Clients /\ c \in connected /\ c \notin lagged /\ Len(feed[c]) # BroadcastCap
    BY <1>2
  <2>2. Len(feed[c]) <= BroadcastCap /\ Len(feed[c]) \in Nat /\ BroadcastCap \in Nat
    BY <1>2, <2>1, QueryAssumption DEF QueryAssumption, IInv, ChannelInv
  <2>3. feed'[c] = Append(feed[c], f)
    BY <1>1, <2>1, <2>2
  <2>4. /\ \A i \in DOMAIN feed[c] : i \in DOMAIN feed'[c] /\ feed'[c][i] = feed[c][i]
        /\ \E i \in DOMAIN feed'[c] : feed'[c][i] = f
    BY <1>2, <2>1, <2>3, AppendKeeps
  <2>5. QED
    BY <1>2, <1>4, <1>5, <2>4 DEF Sent
<1>6. ASSUME NEW c \in Clients, NEW s \in SubIds PROVE Served(c, s)'
  <2>1. Served(c, s)
    BY StreamServes
  <2>2. ASSUME NEW q \in Queries, NEW e PROVE Underway(c, q, e) => Underway(c, q, e)'
    BY <1>2, UnderwayStays
  <2>3. c \in connected' \ lagged' => c \in connected \ lagged
    BY <1>2
  <2>4. c \in connected' \ lagged' => \A e : Sent(c, s, e) => Sent(c, s, e)'
    BY <1>5
  <2>5. QED
    BY <1>2, <2>1, <2>2, <2>3, <2>4 DEF Served, Unread
<1>7. QED
  BY <1>3, <1>6, ServedStream

LEMMA IdleStream ==
  ASSUME IInv, IInv', StreamInv, StartCheckpoint \/ EndCheckpoint \/ UNCHANGED vars
  PROVE  StreamInv'
<1>1. UNCHANGED <<connected, subs, running, pc, job, todo, rows, why, chan, db, pending,
                  feed, lagged, received, answered>>
  BY DEF StartCheckpoint, EndCheckpoint, otherVars, vars, clientVars, threadVars,
         storeVars, historyVars
<1>2. OnePending' /\ LocalsInv' /\ EoseIsLast'
  BY <1>1, EosesStay DEF StreamInv, OnePending, LocalsInv
<1>3. \A c \in Clients, s \in SubIds : Served(c, s)'
  BY <1>1, ServedStays
<1>4. QED
  BY <1>2, <1>3, ServedStream

LEMMA InitStream == Init => StreamInv
<1> SUFFICES ASSUME Init PROVE StreamInv
  OBVIOUS
<1>1. RunsForItsId /\ NothingSkipped
  BY ZeroIsNone DEF Init, IInv, RunsForItsId, NothingSkipped
<1>2. LocalsInv /\ OnePending
  BY DEF Init, LocalsInv, OnePending
<1>3. EoseIsLast
  BY DEF Init, EoseIsLast
<1>4. AnsweredRuns /\ AnsweredSent
  BY DEF Init, AnsweredRuns, AnsweredSent
<1>5. QED
  BY <1>1, <1>2, <1>3, <1>4 DEF StreamInv

LEMMA StepStream == IInv /\ IInv' /\ StreamInv /\ [Next]_vars => StreamInv'
<1> SUFFICES ASSUME IInv, IInv', StreamInv, [Next]_vars PROVE StreamInv'
  OBVIOUS
<1>1. ASSUME NEW c \in Clients, NEW s \in SubIds,
             (\E r \in Requests : Request(c, s, r)) \/ CloseSub(c, s)
      PROVE  StreamInv'
  BY <1>1, RequestStream, CloseStream
<1>2. ASSUME NEW c \in Clients,
               Acquire(c) \/ Disconnect(c) \/ Panic(c) \/ Deliver(c) \/ Hear(c)
      PROVE  StreamInv'
  BY <1>2, AcquireStream, TaskEndStream, DeliverStream, HearStream
<1>3. ASSUME NEW q \in Queries, PassGate(q) \/ QueryStep(q) \/ SqlError(q)
      PROVE  StreamInv'
  BY <1>3, QuietStream, OpenFilterStream, SendStream, SendEoseStream DEF QueryStep
<1>4. ASSUME NEW e \in Events, Commit(e) PROVE StreamInv'
  BY <1>4, CommitStream
<1>5. CASE Broadcast
  BY <1>5, BroadcastStream
<1>6. CASE StartCheckpoint \/ EndCheckpoint \/ UNCHANGED vars
  BY <1>6, IdleStream
<1>7. QED
  BY <1>1, <1>2, <1>3, <1>4, <1>5, <1>6 DEF Next

\* A client that lost no broadcast misses nothing: once the EOSE of its current
\* query has reached it (the EOSE of a query that got no connection excepted, which
\* read nothing), every committed event that matches has been sent to it
\* or is on its way, for all requests, capacities and numbers of clients, and in
\* whatever order commits, snapshots, rows, broadcasts and cancellations come.
THEOREM NothingFallsBetween == Spec => []NoGap
<1>1. StreamInv => NoGap
  BY DEF StreamInv, AnsweredSent, Sent, NoGap
<1>2. QED
  BY <1>1, InitStream, StepStream, Invariance, PTL DEF Spec
=============================================================================
