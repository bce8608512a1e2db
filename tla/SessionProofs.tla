--------------------------- MODULE SessionProofs ---------------------------
(* Theorems of Session, for all connections, events, settings and bounds. *)
EXTENDS Session, FiniteSetTheorems, TLAPS

USE DEF connVars, writerVars, filterVars, countVars

-----------------------------------------------------------------------------
(* The shape of the state                                                   *)

LEMMA EventTyped ==
  \A e \in Events : KeyOf(e) \in CacheKeys
BY DEF CacheKeys

\* The filter's time for a key that is known is a time.
LEMMA Known ==
  ASSUME TypeOK, NEW e \in Events, cache[KeyOf(e)] # None
  PROVE  cache[KeyOf(e)] \in 0..MaxTime
BY EventTyped DEF TypeOK

LEMMA CheckTyped ==
  ASSUME TypeOK, NEW e \in Events, CheckAndAdd(e)
  PROVE  cache' \in [CacheKeys -> 0..MaxTime \cup {None}]
BY EventTyped DEF TypeOK, CheckAndAdd

\* Where the submissions of c stand in a queue.
At(q, c) == {n \in 1..Len(q) : q[n].conn = c}

LEMMA AtFinite ==
  ASSUME NEW q \in Seq(Submissions), NEW c
  PROVE  IsFiniteSet(At(q, c)) /\ Cardinality(At(q, c)) \in Nat
<1>1. IsFiniteSet(1..Len(q)) /\ At(q, c) \subseteq 1..Len(q)
  BY FS_Interval DEF At
<1>2. IsFiniteSet(At(q, c))
  BY <1>1, FS_Subset
<1>3. QED
  BY <1>2, FS_CardinalityType

LEMMA QueueFinite ==
  ASSUME TypeOK, NEW c
  PROVE  InQueue(c) = Cardinality(At(queue, c)) /\ InQueue(c) \in Nat
BY AtFinite DEF TypeOK, InQueue, At

LEMMA AppendLast ==
  ASSUME NEW S, NEW s \in Seq(S), NEW t \in S
  PROVE  Append(s, t) # <<>> /\ Append(s, t)[Len(Append(s, t))] = t
OBVIOUS

\* A count stays or grows by one.
LEMMA CountTyped ==
  ASSUME NEW f \in [Conns -> Nat], NEW c \in Conns, NEW g,
         g = f \/ g = [f EXCEPT ![c] = @ + 1]
  PROVE  g \in [Conns -> Nat]
<1>1. CASE g = f
  BY <1>1
<1>2. CASE g = [f EXCEPT ![c] = @ + 1]
  BY <1>2
<1>3. QED
  BY <1>1, <1>2

LEMMA AskedTyped ==
  ASSUME TypeOK, NEW c \in Conns, Asked(c), Answered(c)
  PROVE  asked' \in [Conns -> Nat] /\ answered' \in [Conns -> Nat]
<1>1. asked \in [Conns -> Nat] /\ answered \in [Conns -> Nat]
  BY DEF TypeOK
<1>2. QED
  BY <1>1, CountTyped DEF Asked, Answered

LEMMA AnswerTyped ==
  ASSUME TypeOK, NEW c \in Conns,
         notices' = IF HasRoom(c) THEN [notices EXCEPT ![c] = Append(@, "OK")] ELSE notices
  PROVE  /\ notices' \in [Conns -> Seq({"OK"})]
         /\ \A d \in Conns : Len(notices'[d]) <= NoticeCap
<1> USE SessionAssumption DEF SessionAssumption
<1>1. CASE HasRoom(c)
  <2>1. notices[c] \in Seq({"OK"})
    BY DEF TypeOK
  <2>2. Append(notices[c], "OK") \in Seq({"OK"}) /\ Len(Append(notices[c], "OK")) <= NoticeCap
    BY <1>1, <2>1 DEF HasRoom
  <2>3. QED
    BY <1>1, <2>2 DEF TypeOK
<1>2. CASE ~HasRoom(c)
  BY <1>2 DEF TypeOK
<1>3. QED
  BY <1>1, <1>2

LEMMA NotifyTyped ==
  ASSUME TypeOK, NEW c \in Conns, Notify(c)
  PROVE  /\ notices' \in [Conns -> Seq({"OK"})]
         /\ \A d \in Conns : Len(notices'[d]) <= NoticeCap
         /\ lost' \in [Conns -> Nat]
<1>1. notices' = IF HasRoom(c) THEN [notices EXCEPT ![c] = Append(@, "OK")] ELSE notices
  BY DEF Notify
<1>2. lost' = lost \/ lost' = [lost EXCEPT ![c] = @ + 1]
  BY DEF Notify
<1>3. CASE lost' = lost
  BY <1>1, <1>3, AnswerTyped DEF TypeOK
<1>4. CASE lost' = [lost EXCEPT ![c] = @ + 1]
  <2>1. lost' \in [Conns -> Nat]
    BY <1>4 DEF TypeOK
  <2>2. QED
    BY <1>1, <2>1, AnswerTyped
<1>5. QED
  BY <1>2, <1>3, <1>4

LEMMA TypeInit == Init => TypeOK
BY SessionAssumption DEF SessionAssumption, Init, TypeOK, Submissions

LEMMA TypeStep == TypeOK /\ [Next]_vars => TypeOK'
<1> SUFFICES ASSUME TypeOK, [Next]_vars PROVE TypeOK'
  OBVIOUS
<1> USE SessionAssumption DEF SessionAssumption
<1>1. ASSUME NEW c \in Conns, NEW e \in Events, RefuseInvalid(c, e) PROVE TypeOK'
  <2>1. /\ Asked(c) /\ Answered(c)
        /\ UNCHANGED <<connVars, writerVars, out, filterVars, lost, spam, notices, now, sent>>
    BY <1>1 DEF RefuseInvalid
  <2>2. QED
    BY <2>1, AskedTyped DEF TypeOK
<1>2. ASSUME NEW c \in Conns, NEW e \in Events, PanicOn(c, e) PROVE TypeOK'
  BY <1>2 DEF PanicOn, TypeOK
<1>3. ASSUME NEW c \in Conns, NEW e \in Events, RefuseSpam(c, e) PROVE TypeOK'
  <2>1. /\ cache' \in [CacheKeys -> 0..MaxTime \cup {None}]
        /\ passes' = passes /\ refused' \in [CacheKeys -> SUBSET (0..MaxTime)]
    <3>1. CASE UNCHANGED filterVars
      BY <3>1 DEF TypeOK
    <3>2. CASE ~UNCHANGED filterVars
      <4>1. /\ CheckAndAdd(e) /\ passes' = passes
            /\ refused' = [refused EXCEPT ![KeyOf(e)] = @ \cup {now}]
        BY <1>3, <3>2 DEF RefuseSpam
      <4>2. QED
        BY <4>1, CheckTyped, EventTyped DEF TypeOK
    <3>3. QED
      BY <3>1, <3>2
  <2>2. /\ Asked(c) /\ answered' = [answered EXCEPT ![c] = @ + 2]
        /\ spam' = [spam EXCEPT ![c] = @ + 1]
        /\ UNCHANGED <<connVars, writerVars, out, lost, notices, now, sent>>
    BY <1>3 DEF RefuseSpam
  <2>3. /\ asked' \in [Conns -> Nat] /\ answered' \in [Conns -> Nat]
        /\ spam' \in [Conns -> Nat]
    <3>1. /\ asked \in [Conns -> Nat] /\ answered \in [Conns -> Nat]
          /\ spam \in [Conns -> Nat]
      BY DEF TypeOK
    <3>2. asked' = [asked EXCEPT ![c] = @ + 1]
      BY <2>2 DEF Asked
    <3>3. asked' \in [Conns -> Nat] /\ spam' \in [Conns -> Nat]
      BY <2>2, <3>1, <3>2, CountTyped
    <3>4. answered' \in [Conns -> Nat]
      BY <2>2, <3>1
    <3>5. QED
      BY <3>3, <3>4
  <2>4. QED
    BY <2>1, <2>2, <2>3 DEF TypeOK
<1>4. ASSUME NEW e \in Events, Pass(e)
      PROVE  /\ cache' \in [CacheKeys -> 0..MaxTime \cup {None}]
             /\ passes' \in [CacheKeys -> Seq(0..MaxTime)]
             /\ refused' = refused
  <2>1. passes[KeyOf(e)] \in Seq(0..MaxTime) /\ now \in 0..MaxTime
    BY EventTyped DEF TypeOK
  <2>2. Append(passes[KeyOf(e)], now) \in Seq(0..MaxTime)
    BY <2>1
  <2>3. QED
    BY <1>4, <2>2, CheckTyped DEF Pass, TypeOK
<1>5. ASSUME NEW c \in Conns, NEW e \in Events, RefuseTime(c, e) PROVE TypeOK'
  <2>1. /\ Pass(e) /\ Asked(c) /\ Answered(c)
        /\ UNCHANGED <<connVars, writerVars, out, lost, spam, notices, now, sent>>
    BY <1>5 DEF RefuseTime
  <2>2. QED
    BY <1>4, <2>1, AskedTyped DEF TypeOK
<1>6. ASSUME NEW c \in Conns, NEW e \in Events, Submit(c, e) PROVE TypeOK'
  <2>1. /\ cache' \in [CacheKeys -> 0..MaxTime \cup {None}]
        /\ passes' \in [CacheKeys -> Seq(0..MaxTime)] /\ refused' = refused
    BY <1>6, <1>4 DEF Submit
  <2>2. held' \in [Conns -> Events \cup {None}] /\ lost' \in [Conns -> Nat]
    <3>1. \/ held' = [held EXCEPT ![c] = e] /\ lost' = lost
          \/ lost' = [lost EXCEPT ![c] = @ + 1] /\ held' = held
      BY <1>6 DEF Submit
    <3>2. CASE held' = [held EXCEPT ![c] = e] /\ lost' = lost
      BY <3>2 DEF TypeOK
    <3>3. CASE lost' = [lost EXCEPT ![c] = @ + 1] /\ held' = held
      BY <3>3 DEF TypeOK
    <3>4. QED
      BY <3>1, <3>2, <3>3
  <2>3. asked' \in [Conns -> Nat]
    BY <1>6 DEF Submit, Asked, TypeOK
  <2>4. UNCHANGED <<open, auth, writerVars, out, answered, spam, notices, now, sent>>
    BY <1>6 DEF Submit
  <2>5. QED
    BY <2>1, <2>2, <2>3, <2>4 DEF TypeOK
<1>7. ASSUME NEW c \in Conns, Enqueue(c) PROVE TypeOK'
  <2>1. held[c] \in Events
    BY <1>7 DEF Enqueue, TypeOK
  <2>2. [event |-> held[c], conn |-> c] \in Submissions
    BY <2>1 DEF Submissions
  <2>3. queue' \in Seq(Submissions) /\ Len(queue') <= QueueCap
    <3>1. CASE queue' = queue
      BY <3>1 DEF TypeOK
    <3>2. CASE queue' # queue
      <4>1. queue' = Append(queue, [event |-> held[c], conn |-> c]) /\ Len(queue) < QueueCap
        BY <1>7, <3>2 DEF Enqueue
      <4>2. QED
        BY <4>1, <2>2 DEF TypeOK
    <3>3. QED
      BY <3>1, <3>2
  <2>4. lost' \in [Conns -> Nat] /\ held' \in [Conns -> Events \cup {None}]
    <3>1. /\ held' = [held EXCEPT ![c] = None]
          /\ lost' = lost \/ lost' = [lost EXCEPT ![c] = @ + 1]
      BY <1>7 DEF Enqueue
    <3>2. lost \in [Conns -> Nat] /\ held' \in [Conns -> Events \cup {None}]
      BY <3>1 DEF TypeOK
    <3>3. QED
      BY <3>1, <3>2, CountTyped
  <2>5. UNCHANGED <<open, auth, writing, running, out, filterVars, asked, answered, spam,
                    notices, now, sent>>
    BY <1>7 DEF Enqueue
  <2>6. QED
    BY <2>3, <2>4, <2>5 DEF TypeOK
<1>8. ASSUME NEW c \in Conns, PassNotice(c) PROVE TypeOK'
  <2>1. notices[c] \in Seq({"OK"}) /\ notices[c] # <<>> /\ Len(notices[c]) <= NoticeCap
    BY <1>8 DEF PassNotice, TypeOK
  <2>2. Tail(notices[c]) \in Seq({"OK"}) /\ Len(Tail(notices[c])) <= NoticeCap
    BY <2>1
  <2>3. QED
    BY <1>8, <2>2 DEF PassNotice, Answered, TypeOK
<1>9. ASSUME NEW c \in Conns, NEW a \in AuthEvents, Authenticate(c, a) PROVE TypeOK'
  BY <1>9 DEF Authenticate, TypeOK
<1>10. ASSUME NEW c \in Conns, NEW e \in Events, Deliver(c, e) PROVE TypeOK'
  BY <1>10 DEF Deliver, TypeOK
<1>11. ASSUME NEW c \in Conns, Disconnect(c) PROVE TypeOK'
  BY <1>11 DEF Disconnect, TypeOK
<1>12. ASSUME Take PROVE TypeOK'
  <2>1. Head(queue) \in Submissions /\ Tail(queue) \in Seq(Submissions)
        /\ Len(Tail(queue)) <= QueueCap
    BY <1>12 DEF Take, TypeOK
  <2>2. QED
    BY <1>12, <2>1 DEF Take, TypeOK
<1>13. ASSUME writing # None PROVE writing.event \in Events /\ writing.conn \in Conns
  BY <1>13 DEF TypeOK, Submissions
<1>14. ASSUME RefuseEvent PROVE TypeOK'
  BY <1>14, <1>13, NotifyTyped DEF RefuseEvent, TypeOK
<1>15. ASSUME DropSilently PROVE TypeOK'
  <2>1. /\ writing.conn \in Conns
        /\ lost' = [lost EXCEPT ![writing.conn] = @ + 1] /\ writing' = None
    BY <1>15, <1>13 DEF DropSilently
  <2>2. lost' \in [Conns -> Nat]
    BY <2>1 DEF TypeOK
  <2>3. UNCHANGED <<connVars, queue, running, out, filterVars, asked, answered, spam,
                    notices, now, sent>>
    BY <1>15 DEF DropSilently
  <2>4. QED
    BY <2>1, <2>2, <2>3 DEF TypeOK
<1>16. ASSUME Publish PROVE TypeOK'
  <2>1. writing.event \in Events /\ Notify(writing.conn) /\ writing.conn \in Conns
    BY <1>16, <1>13 DEF Publish
  <2>2. out' \subseteq Events /\ writing' = None
    BY <1>16, <2>1 DEF Publish, TypeOK
  <2>3. UNCHANGED <<connVars, queue, running, filterVars, asked, answered, spam, now, sent>>
    BY <1>16 DEF Publish
  <2>4. QED
    BY <2>1, <2>2, <2>3, NotifyTyped DEF TypeOK
<1>17. ASSUME NotWritten PROVE TypeOK'
  BY <1>17, <1>13, NotifyTyped DEF NotWritten, TypeOK
<1>22. ASSUME ChargeFails PROVE TypeOK'
  <2>1. writing.event \in Events /\ writing.conn \in Conns
    BY <1>22, <1>13 DEF ChargeFails
  <2>2. /\ out' \subseteq Events /\ writing' = None /\ running' = FALSE /\ queue' = <<>>
        /\ UNCHANGED <<connVars, filterVars, asked, answered, spam, now, sent>>
    BY <1>22, <2>1 DEF ChargeFails, TypeOK
  <2>3. /\ notices' \in [Conns -> Seq({"OK"})]
        /\ \A d \in Conns : Len(notices'[d]) <= NoticeCap
    BY <1>22, <2>1, AnswerTyped DEF ChargeFails
  <2>4. lost' \in [Conns -> Nat]
    <3>1. \A d \in Conns : lost[d] \in Nat /\ InQueue(d) \in Nat
      BY QueueFinite DEF TypeOK
    <3>2. QED
      BY <1>22, <3>1 DEF ChargeFails
  <2>5. queue' \in Seq(Submissions) /\ Len(queue') <= QueueCap
    BY <2>2
  <2>6. QED
    BY <2>2, <2>3, <2>4, <2>5 DEF TypeOK
<1>18. ASSUME Shutdown PROVE TypeOK'
  <2>1. /\ open' = {} /\ notices' = [c \in Conns |-> <<>>]
        /\ held' = [c \in Conns |-> None] /\ running' = FALSE
        /\ queue' = <<>> /\ writing' = None
        /\ UNCHANGED <<auth, out, filterVars, countVars, now, sent>>
    BY <1>18 DEF Shutdown
  <2>2. /\ notices' \in [Conns -> Seq({"OK"})]
        /\ \A c \in Conns : Len(notices'[c]) <= NoticeCap
    BY <2>1
  <2>3. queue' \in Seq(Submissions) /\ Len(queue') <= QueueCap
    BY <2>1
  <2>4. QED
    BY <2>1, <2>2, <2>3 DEF TypeOK
<1>19. ASSUME Tick PROVE TypeOK'
  BY <1>19 DEF Tick, TypeOK
<1>20. CASE UNCHANGED vars
  BY <1>20 DEF vars, TypeOK
<1>21. QED
  BY <1>1, <1>2, <1>3, <1>5, <1>6, <1>7, <1>8, <1>9, <1>10, <1>11, <1>12, <1>14, <1>15,
     <1>16, <1>17, <1>18, <1>19, <1>20, <1>22 DEF Next

\* Every variable keeps its type, and no channel holds more than its capacity.
THEOREM TypeCorrect == Spec => []TypeOK
BY TypeInit, TypeStep, PTL DEF Spec

-----------------------------------------------------------------------------
(* Every EVENT is accounted for                                             *)

LEMMA CountAppend ==
  ASSUME NEW q \in Seq(Submissions), NEW s \in Submissions, NEW c
  PROVE  Cardinality(At(Append(q, s), c)) =
           Cardinality(At(q, c)) + (IF s.conn = c THEN 1 ELSE 0)
<1>1. CASE s.conn = c
  <2>1. At(Append(q, s), c) = At(q, c) \cup {Len(q) + 1} /\ Len(q) + 1 \notin At(q, c)
    BY <1>1 DEF At
  <2>2. QED
    BY <1>1, <2>1, AtFinite, FS_AddElement
<1>2. CASE s.conn # c
  <2>1. At(Append(q, s), c) = At(q, c)
    BY <1>2 DEF At
  <2>2. QED
    BY <1>2, <2>1, AtFinite
<1>3. QED
  BY <1>1, <1>2

LEMMA CountTail ==
  ASSUME NEW q \in Seq(Submissions), q # <<>>, NEW c
  PROVE  Cardinality(At(q, c)) =
           Cardinality(At(Tail(q), c)) + (IF Head(q).conn = c THEN 1 ELSE 0)
<1> DEFINE R == At(q, c) \ {1}
<1> DEFINE f == [n \in R |-> n - 1]
<1>1. Tail(q) \in Seq(Submissions) /\ Len(Tail(q)) = Len(q) - 1
      /\ \A n \in 1..Len(q) - 1 : Tail(q)[n] = q[n + 1]
  OBVIOUS
<1>2. R = {n \in 2..Len(q) : q[n].conn = c}
  BY DEF At
<1>3. At(Tail(q), c) = {n \in 1..Len(q) - 1 : q[n + 1].conn = c}
  BY <1>1 DEF At
<1>4. f \in Bijection(R, At(Tail(q), c))
  <2>1. f \in [R -> At(Tail(q), c)]
    BY <1>2, <1>3
  <2>2. \A m, n \in R : f[m] = f[n] => m = n
    BY <1>2
  <2>3. \A n \in At(Tail(q), c) : \E m \in R : f[m] = n
    <3>1. TAKE n \in At(Tail(q), c)
    <3>2. n + 1 \in R /\ f[n + 1] = n
      BY <1>2, <1>3
    <3>3. QED
      BY <3>2
  <2>4. QED
    BY <2>1, <2>2, <2>3 DEF Bijection, Injection, Surjection, IsInjective
<1>5. IsFiniteSet(R) /\
      Cardinality(R) = IF 1 \in At(q, c) THEN Cardinality(At(q, c)) - 1
                       ELSE Cardinality(At(q, c))
  BY AtFinite, FS_RemoveElement
<1>6. Cardinality(At(Tail(q), c)) = Cardinality(R)
  BY <1>4, <1>5, FS_Bijection DEF ExistsBijection
<1>7. 1 \in At(q, c) <=> Head(q).conn = c
  BY DEF At
<1>8. QED
  BY <1>5, <1>6, <1>7, AtFinite

\* An answer is in the channel or lost.
LEMMA NotifyCounts ==
  ASSUME TypeOK, NEW c \in Conns, Notify(c), NEW d \in Conns
  PROVE  lost'[d] + Len(notices'[d]) = lost[d] + Len(notices[d]) + (IF d = c THEN 1 ELSE 0)
<1>1. notices[d] \in Seq({"OK"}) /\ lost[d] \in Nat
  BY DEF TypeOK
<1>2. CASE c \in open /\ Len(notices[c]) < NoticeCap
  <2>1. notices' = [notices EXCEPT ![c] = Append(@, "OK")] /\ lost' = lost
    BY <1>2 DEF Notify, HasRoom
  <2>2. notices'[d] = IF d = c THEN Append(notices[d], "OK") ELSE notices[d]
    BY <2>1 DEF TypeOK
  <2>3. Len(notices[d]) \in Nat /\ Len(Append(notices[d], "OK")) = Len(notices[d]) + 1
    BY <1>1
  <2>4. CASE d = c
    BY <1>1, <2>1, <2>2, <2>3, <2>4
  <2>5. CASE d # c
    BY <1>1, <2>1, <2>2, <2>3, <2>5
  <2>6. QED
    BY <2>4, <2>5
<1>3. CASE ~(c \in open /\ Len(notices[c]) < NoticeCap)
  <2>1. notices' = notices /\ lost' = [lost EXCEPT ![c] = @ + 1]
    BY <1>3 DEF Notify, HasRoom
  <2>2. lost'[d] = lost[d] + (IF d = c THEN 1 ELSE 0)
    BY <1>1, <2>1 DEF TypeOK
  <2>3. Len(notices[d]) \in Nat
    BY <1>1
  <2>4. QED
    BY <1>1, <2>1, <2>2, <2>3
<1>4. QED
  BY <1>2, <1>3

\* What a failed charge leaves in the notices and in the count of the lost.
LEMMA ChargeFailsCounts ==
  ASSUME TypeOK, ChargeFails, NEW d \in Conns
  PROVE  /\ Len(notices'[d]) = Len(notices[d])
              + (IF d = writing.conn /\ HasRoom(writing.conn) THEN 1 ELSE 0)
         /\ lost'[d] = lost[d] + InQueue(d)
              + (IF d = writing.conn /\ ~HasRoom(writing.conn) THEN 1 ELSE 0)
<1>1. notices[d] \in Seq({"OK"}) /\ DOMAIN notices = Conns
  BY DEF TypeOK
<1>2. Len(notices[d]) \in Nat /\ Len(Append(notices[d], "OK")) = Len(notices[d]) + 1
  BY <1>1
<1>3. CASE d = writing.conn /\ HasRoom(writing.conn)
  <2>1. notices' = [notices EXCEPT ![d] = Append(@, "OK")]
    BY <1>3 DEF ChargeFails
  <2>2. Len(notices'[d]) = Len(notices[d]) + 1
    BY <1>1, <1>2, <2>1
  <2>3. QED
    BY <1>3, <2>2 DEF ChargeFails
<1>4. CASE ~(d = writing.conn /\ HasRoom(writing.conn))
  <2>1. notices'[d] = notices[d]
    BY <1>1, <1>4 DEF ChargeFails
  <2>2. Len(notices'[d]) = Len(notices[d]) + 0
    BY <1>2, <2>1
  <2>3. QED
    BY <1>4, <2>2 DEF ChargeFails
<1>5. QED
  BY <1>3, <1>4

\* The terms of the account are numbers.
LEMMA CountsTyped ==
  ASSUME TypeOK, NEW c \in Conns
  PROVE  /\ asked[c] \in Nat /\ answered[c] \in Nat /\ lost[c] \in Nat /\ spam[c] \in Nat
         /\ InHand(c) \in Nat /\ InWork(c) \in Nat /\ InNotices(c) \in Nat
         /\ InQueue(c) = Cardinality(At(queue, c)) /\ InQueue(c) \in Nat
<1>1. InQueue(c) = Cardinality(At(queue, c)) /\ InQueue(c) \in Nat
  BY QueueFinite
<1>2. notices[c] \in Seq({"OK"})
  BY DEF TypeOK
<1>3. InNotices(c) \in Nat
  BY <1>2 DEF InNotices
<1>4. QED
  BY <1>1, <1>3 DEF TypeOK, InHand, InWork

\* A connection that has ended stays so.
LEMMA OnlyEnds == [Next]_vars => open' \subseteq open
<1> SUFFICES ASSUME [Next]_vars PROVE open' \subseteq open
  OBVIOUS
<1>1. ASSUME NEW c \in Conns, NEW e \in Events,
             \/ RefuseInvalid(c, e) \/ PanicOn(c, e) \/ RefuseSpam(c, e)
             \/ RefuseTime(c, e) \/ Submit(c, e) \/ Deliver(c, e)
      PROVE  open' \subseteq open
  BY <1>1 DEF RefuseInvalid, PanicOn, RefuseSpam, RefuseTime, Submit, Deliver
<1>2. ASSUME NEW c \in Conns, Enqueue(c) \/ PassNotice(c) \/ Disconnect(c)
      PROVE  open' \subseteq open
  BY <1>2 DEF Enqueue, PassNotice, Disconnect
<1>3. ASSUME NEW c \in Conns, NEW a \in AuthEvents, Authenticate(c, a)
      PROVE  open' \subseteq open
  BY <1>3 DEF Authenticate
<1>4. ASSUME \/ Take \/ RefuseEvent \/ DropSilently \/ Publish \/ NotWritten
             \/ ChargeFails \/ Shutdown \/ Tick \/ UNCHANGED vars
      PROVE  open' \subseteq open
  BY <1>4 DEF Take, RefuseEvent, DropSilently, Publish, NotWritten, ChargeFails, Shutdown,
             Tick, vars
<1>5. QED
  BY <1>1, <1>2, <1>3, <1>4 DEF Next

LEMMA AccountedStep == TypeOK /\ EveryAskAccounted /\ [Next]_vars => EveryAskAccounted'
<1> SUFFICES ASSUME TypeOK, EveryAskAccounted, [Next]_vars, NEW d \in open'
             PROVE  asked'[d] + spam'[d] = Decided(d)' + Pending(d)'
  BY DEF EveryAskAccounted
<1> DEFINE Goal == asked'[d] + spam'[d] = Decided(d)' + Pending(d)'
<1>1. TypeOK'
  BY TypeStep
<1>2. d \in Conns
  BY <1>1 DEF TypeOK
<1>3. d \in open
  BY OnlyEnds
<1>4. asked[d] + spam[d] = Decided(d) + Pending(d)
  BY <1>3 DEF EveryAskAccounted
<1>5. /\ asked[d] \in Nat /\ answered[d] \in Nat /\ lost[d] \in Nat /\ spam[d] \in Nat
      /\ InHand(d) \in Nat /\ InQueue(d) \in Nat /\ InWork(d) \in Nat /\ InNotices(d) \in Nat
      /\ InQueue(d) = Cardinality(At(queue, d))
  BY <1>2, CountsTyped
<1>6. InQueue(d)' = Cardinality(At(queue', d))
  BY DEF InQueue, At
<1>7. Pending(d) \in Nat /\ Decided(d) \in Nat
  <2>1. Pending(d) \in Nat
    BY <1>5 DEF Pending
  <2>2. Decided(d) \in Nat
    BY <1>5 DEF Decided
  <2>3. QED
    BY <2>1, <2>2
<1>8. ASSUME UNCHANGED <<held, queue, writing>> PROVE Pending(d)' = Pending(d)
  BY <1>8 DEF Pending, InHand, InQueue, InWork
<1>9. ASSUME UNCHANGED <<answered, lost, notices>> PROVE Decided(d)' = Decided(d)
  BY <1>9 DEF Decided, InNotices
<1>10. ASSUME asked'[d] = asked[d], spam'[d] = spam[d], Decided(d)' = Decided(d),
              Pending(d)' = Pending(d)
       PROVE  Goal
  BY <1>4, <1>10 DEF Goal
<1>11. ASSUME NEW c \in Conns, NEW e \in Events,
              RefuseInvalid(c, e) \/ RefuseTime(c, e)
       PROVE  Goal
  <2>1. /\ asked' = [asked EXCEPT ![c] = @ + 1] /\ answered' = [answered EXCEPT ![c] = @ + 1]
        /\ UNCHANGED <<lost, spam, notices, held, queue, writing>>
    BY <1>11 DEF RefuseInvalid, RefuseTime, Asked, Answered
  <2>2. CASE c = d
    <3>1. asked'[d] = asked[d] + 1 /\ answered'[d] = answered[d] + 1
      BY <1>2, <2>1, <2>2 DEF TypeOK
    <3>2. lost'[d] = lost[d] /\ InNotices(d)' = InNotices(d)
      BY <2>1 DEF InNotices
    <3>3. Decided(d)' = Decided(d) + 1
      BY <1>5, <3>1, <3>2 DEF Decided
    <3>4. QED
      BY <1>4, <1>5, <1>7, <1>8, <2>1, <3>1, <3>3 DEF Goal
  <2>3. CASE c # d
    <3>1. asked'[d] = asked[d] /\ answered'[d] = answered[d] /\ spam'[d] = spam[d]
      BY <1>2, <2>1, <2>3 DEF TypeOK
    <3>2. Decided(d)' = Decided(d)
      BY <2>1, <3>1 DEF Decided, InNotices
    <3>3. QED
      BY <1>8, <1>10, <2>1, <3>1, <3>2
  <2>4. QED
    BY <2>2, <2>3
<1>27. ASSUME NEW c \in Conns, NEW e \in Events, RefuseSpam(c, e)
       PROVE  Goal
  <2>1. /\ asked' = [asked EXCEPT ![c] = @ + 1] /\ answered' = [answered EXCEPT ![c] = @ + 2]
        /\ spam' = [spam EXCEPT ![c] = @ + 1]
        /\ UNCHANGED <<lost, notices, held, queue, writing>>
    BY <1>27 DEF RefuseSpam, Asked
  <2>2. CASE c = d
    <3>1. /\ asked'[d] = asked[d] + 1 /\ answered'[d] = answered[d] + 2
          /\ spam'[d] = spam[d] + 1
      BY <1>2, <2>1, <2>2 DEF TypeOK
    <3>2. lost'[d] = lost[d] /\ InNotices(d)' = InNotices(d)
      BY <2>1 DEF InNotices
    <3>3. Decided(d)' = Decided(d) + 2
      BY <1>5, <3>1, <3>2 DEF Decided
    <3>4. QED
      BY <1>4, <1>5, <1>7, <1>8, <2>1, <3>1, <3>3 DEF Goal
  <2>3. CASE c # d
    <3>1. asked'[d] = asked[d] /\ answered'[d] = answered[d] /\ spam'[d] = spam[d]
      BY <1>2, <2>1, <2>3 DEF TypeOK
    <3>2. Decided(d)' = Decided(d)
      BY <2>1, <3>1 DEF Decided, InNotices
    <3>3. QED
      BY <1>8, <1>10, <2>1, <3>1, <3>2
  <2>4. QED
    BY <2>2, <2>3
<1>12. ASSUME NEW c \in Conns, Disconnect(c) \/ \E e \in Events : PanicOn(c, e)
       PROVE  Goal
  <2>1. c # d
    BY <1>12 DEF Disconnect, PanicOn
  <2>2. /\ notices' = [notices EXCEPT ![c] = <<>>]
        /\ UNCHANGED <<held, writerVars, countVars>>
    BY <1>12 DEF Disconnect, PanicOn
  <2>3. notices'[d] = notices[d]
    BY <1>2, <2>1, <2>2 DEF TypeOK
  <2>4. Decided(d)' = Decided(d)
    BY <2>2, <2>3 DEF Decided, InNotices
  <2>5. QED
    BY <1>8, <1>10, <2>2, <2>4
<1>13. ASSUME NEW c \in Conns, NEW e \in Events, Submit(c, e)
       PROVE  Goal
  <2>1. /\ held[c] = None
        /\ asked' = [asked EXCEPT ![c] = @ + 1]
        /\ UNCHANGED <<answered, spam, notices, queue, writing>>
        /\ \/ held' = [held EXCEPT ![c] = e] /\ lost' = lost
           \/ held' = held /\ lost' = [lost EXCEPT ![c] = @ + 1]
    BY <1>13 DEF Submit, Idle, Asked
  <2>2. InQueue(d)' = InQueue(d) /\ InWork(d)' = InWork(d)
    BY <2>1 DEF InQueue, InWork
  <2>3. CASE c = d
    <3>1. e # None
      BY SessionAssumption DEF SessionAssumption
    <3>2. asked'[d] = asked[d] + 1
      BY <1>2, <2>1, <2>3 DEF TypeOK
    <3>3. CASE held' = [held EXCEPT ![c] = e] /\ lost' = lost
      <4>1. InHand(d) = 0 /\ InHand(d)' = 1
        BY <1>2, <2>1, <2>3, <3>1, <3>3 DEF InHand, TypeOK
      <4>2. Pending(d)' = Pending(d) + 1
        BY <1>5, <2>2, <4>1 DEF Pending
      <4>3. QED
        BY <1>4, <1>5, <1>7, <1>9, <2>1, <3>2, <3>3, <4>2 DEF Goal
    <3>4. CASE held' = held /\ lost' = [lost EXCEPT ![c] = @ + 1]
      <4>1. lost'[d] = lost[d] + 1 /\ answered'[d] = answered[d] /\ InNotices(d)' = InNotices(d)
        BY <1>2, <2>1, <2>3, <3>4 DEF TypeOK, InNotices
      <4>2. Decided(d)' = Decided(d) + 1
        BY <1>5, <4>1 DEF Decided
      <4>3. QED
        BY <1>4, <1>5, <1>7, <1>8, <2>1, <3>2, <3>4, <4>2 DEF Goal
    <3>5. QED
      BY <2>1, <3>3, <3>4
  <2>4. CASE c # d
    <3>1. held'[d] = held[d] /\ asked'[d] = asked[d] /\ lost'[d] = lost[d]
      BY <1>2, <2>1, <2>4 DEF TypeOK
    <3>2. Pending(d)' = Pending(d)
      BY <2>2, <3>1 DEF Pending, InHand
    <3>3. Decided(d)' = Decided(d)
      BY <2>1, <3>1 DEF Decided, InNotices
    <3>4. QED
      BY <1>10, <2>1, <3>1, <3>2, <3>3
  <2>5. QED
    BY <2>3, <2>4
<1>14. ASSUME NEW c \in Conns, Enqueue(c)
       PROVE  Goal
  <2> DEFINE s == [event |-> held[c], conn |-> c]
  <2>1. /\ held[c] # None /\ held' = [held EXCEPT ![c] = None]
        /\ UNCHANGED <<asked, answered, spam, notices, writing>>
        /\ \/ queue' = Append(queue, s) /\ lost' = lost
           \/ queue' = queue /\ lost' = [lost EXCEPT ![c] = @ + 1]
    BY <1>14 DEF Enqueue
  <2>2. InHand(d) = InHand(d)' + (IF c = d THEN 1 ELSE 0) /\ InHand(d)' \in Nat
    BY <1>2, <2>1 DEF InHand, TypeOK
  <2>3. InWork(d)' = InWork(d) /\ InNotices(d)' = InNotices(d)
        /\ asked'[d] = asked[d] /\ answered'[d] = answered[d] /\ spam'[d] = spam[d]
    BY <2>1 DEF InWork, InNotices
  <2>4. CASE queue' = Append(queue, s) /\ lost' = lost
    <3>1. s \in Submissions /\ s.conn = c
      BY <2>1 DEF TypeOK, Submissions
    <3>2. Cardinality(At(Append(queue, s), d))
            = Cardinality(At(queue, d)) + (IF c = d THEN 1 ELSE 0)
      BY <3>1, CountAppend DEF TypeOK
    <3>3. InQueue(d)' = InQueue(d) + (IF c = d THEN 1 ELSE 0)
      BY <1>5, <1>6, <2>4, <3>2
    <3>4. Pending(d)' = Pending(d)
      BY <1>5, <2>2, <2>3, <3>3 DEF Pending
    <3>5. QED
      BY <1>9, <1>10, <2>1, <2>4, <3>4
  <2>5. CASE queue' = queue /\ lost' = [lost EXCEPT ![c] = @ + 1]
    <3>1. InQueue(d)' = InQueue(d)
      BY <2>5 DEF InQueue
    <3>2. lost'[d] = lost[d] + (IF c = d THEN 1 ELSE 0)
      BY <1>2, <2>5 DEF TypeOK
    <3>3. CASE c = d
      <4>1. InHand(d) = InHand(d)' + 1 /\ lost'[d] = lost[d] + 1
        BY <2>2, <3>2, <3>3
      <4>2. Pending(d) = Pending(d)' + 1 /\ Pending(d)' \in Nat
        BY <1>5, <2>2, <2>3, <3>1, <4>1 DEF Pending
      <4>3. Decided(d)' = Decided(d) + 1
        BY <1>5, <2>3, <4>1 DEF Decided
      <4>4. QED
        BY <1>4, <1>5, <1>7, <2>3, <4>2, <4>3 DEF Goal
    <3>4. CASE c # d
      <4>1. InHand(d) = InHand(d)' /\ lost'[d] = lost[d]
        BY <1>5, <2>2, <3>2, <3>4
      <4>2. Pending(d) = Pending(d)'
        BY <2>3, <3>1, <4>1 DEF Pending
      <4>3. Decided(d)' = Decided(d)
        BY <2>3, <4>1 DEF Decided
      <4>4. QED
        BY <1>10, <2>3, <4>2, <4>3
    <3>5. QED
      BY <3>3, <3>4
  <2>6. QED
    BY <2>1, <2>4, <2>5
<1>15. ASSUME NEW c \in Conns, PassNotice(c)
       PROVE  Goal
  <2>1. /\ notices[c] # <<>> /\ notices' = [notices EXCEPT ![c] = Tail(@)]
        /\ answered' = [answered EXCEPT ![c] = @ + 1]
        /\ UNCHANGED <<asked, lost, spam, held, queue, writing>>
    BY <1>15 DEF PassNotice, Answered
  <2>2. notices[d] \in Seq({"OK"})
    BY <1>2 DEF TypeOK
  <2>3. InNotices(d) = InNotices(d)' + (IF d = c THEN 1 ELSE 0) /\ InNotices(d)' \in Nat
    BY <1>2, <2>1, <2>2 DEF TypeOK, InNotices
  <2>4. answered'[d] = answered[d] + (IF d = c THEN 1 ELSE 0)
    BY <1>2, <2>1 DEF TypeOK
  <2>5. asked'[d] = asked[d] /\ lost'[d] = lost[d]
    BY <2>1
  <2>6. Decided(d)' = Decided(d)
    BY <1>5, <2>3, <2>4, <2>5 DEF Decided
  <2>7. QED
    BY <1>8, <1>10, <2>1, <2>6
<1>16. ASSUME NEW c \in Conns, NEW a \in AuthEvents, Authenticate(c, a)
       PROVE  Goal
  BY <1>8, <1>9, <1>10, <1>16 DEF Authenticate
<1>17. ASSUME NEW c \in Conns, NEW e \in Events, Deliver(c, e)
       PROVE  Goal
  BY <1>8, <1>9, <1>10, <1>17 DEF Deliver
<1>18. ASSUME Take
       PROVE  Goal
  <2>1. /\ writing = None /\ writing' = Head(queue) /\ queue # <<>> /\ queue' = Tail(queue)
        /\ UNCHANGED <<asked, answered, lost, spam, held, notices>>
    BY <1>18 DEF Take
  <2>2. Cardinality(At(queue, d)) =
          Cardinality(At(Tail(queue), d)) + (IF Head(queue).conn = d THEN 1 ELSE 0)
    BY <2>1, CountTail DEF TypeOK
  <2>3. InHand(d)' = InHand(d) /\ InWork(d) = 0
    BY <2>1 DEF InHand, InWork
  <2>4. InWork(d)' = IF Head(queue).conn = d THEN 1 ELSE 0
    <3>1. Head(queue) \in Submissions
      BY <2>1 DEF TypeOK
    <3>2. Head(queue) # None
      BY <3>1, SessionAssumption DEF SessionAssumption
    <3>3. QED
      BY <2>1, <3>2 DEF InWork
  <2>5. InQueue(d)' \in Nat
    BY <1>1, <1>6, AtFinite DEF TypeOK
  <2>6. InQueue(d) = InQueue(d)' + InWork(d)'
    BY <1>5, <1>6, <2>1, <2>2, <2>4
  <2>7. Pending(d)' = Pending(d)
    BY <1>5, <2>3, <2>4, <2>5, <2>6 DEF Pending
  <2>8. QED
    BY <1>9, <1>10, <2>1, <2>7
<1>19. ASSUME writing # None, writing' = None,
              UNCHANGED <<asked, answered, spam, held, queue>>,
              lost'[d] + InNotices(d)' =
                lost[d] + InNotices(d) + (IF d = writing.conn THEN 1 ELSE 0),
              lost'[d] \in Nat, InNotices(d)' \in Nat
       PROVE  Goal
  <2>1. /\ InHand(d)' = InHand(d) /\ InQueue(d)' = InQueue(d) /\ InWork(d)' = 0
        /\ InWork(d) = IF d = writing.conn THEN 1 ELSE 0
    BY <1>19 DEF InHand, InQueue, InWork
  <2>2. answered'[d] = answered[d] /\ asked'[d] = asked[d] /\ spam'[d] = spam[d]
    BY <1>19
  <2>3. Pending(d) = Pending(d)' + InWork(d) /\ Pending(d)' \in Nat
    BY <1>5, <2>1 DEF Pending
  <2>4. lost'[d] + InNotices(d)' = lost[d] + InNotices(d) + InWork(d)
    BY <1>19, <2>1
  <2>5. Decided(d)' = Decided(d) + InWork(d)
    BY <1>5, <1>19, <2>2, <2>4 DEF Decided
  <2>6. QED
    BY <1>4, <1>5, <1>7, <2>2, <2>3, <2>5 DEF Goal
<1>20. lost'[d] \in Nat /\ InNotices(d)' \in Nat
  <2>1. notices'[d] \in Seq({"OK"}) /\ lost'[d] \in Nat
    BY <1>1, <1>2 DEF TypeOK
  <2>2. QED
    BY <2>1 DEF InNotices
<1>21. ASSUME RefuseEvent \/ Publish \/ NotWritten
       PROVE  Goal
  <2>1. /\ writing # None /\ Notify(writing.conn) /\ writing' = None
        /\ UNCHANGED <<asked, answered, spam, held, queue>>
    BY <1>21 DEF RefuseEvent, Publish, NotWritten
  <2>2. writing.conn \in Conns
    BY <2>1 DEF TypeOK, Submissions
  <2>3. lost'[d] + InNotices(d)' =
          lost[d] + InNotices(d) + (IF d = writing.conn THEN 1 ELSE 0)
    BY <1>2, <2>1, <2>2, NotifyCounts DEF InNotices
  <2>4. QED
    BY <1>19, <1>20, <2>1, <2>3
<1>22. ASSUME DropSilently
       PROVE  Goal
  <2>1. /\ writing # None /\ writing' = None
        /\ lost' = [lost EXCEPT ![writing.conn] = @ + 1]
        /\ UNCHANGED <<asked, answered, spam, notices, held, queue>>
    BY <1>22 DEF DropSilently
  <2>2. lost'[d] = lost[d] + (IF d = writing.conn THEN 1 ELSE 0) /\ InNotices(d)' = InNotices(d)
    BY <1>2, <2>1 DEF TypeOK, InNotices
  <2>3. lost'[d] + InNotices(d)' =
          lost[d] + InNotices(d) + (IF d = writing.conn THEN 1 ELSE 0)
    BY <1>5, <2>2
  <2>4. QED
    BY <1>19, <1>20, <2>1, <2>3
<1>26. ASSUME ChargeFails
       PROVE  Goal
  <2> DEFINE c == writing.conn
             one == IF d = c THEN 1 ELSE 0
             away == IF d = c /\ ~HasRoom(c) THEN 1 ELSE 0
             back == IF d = c /\ HasRoom(c) THEN 1 ELSE 0
  <2>1. /\ writing # None /\ writing' = None /\ queue' = <<>>
        /\ UNCHANGED <<asked, answered, spam, held>>
    BY <1>26 DEF ChargeFails
  <2>4. InNotices(d)' = InNotices(d) + back /\ lost'[d] = lost[d] + InQueue(d) + away
    BY <1>2, <1>26, ChargeFailsCounts DEF InNotices
  <2>2. InQueue(d)' = 0
    <3>1. At(queue', d) = {}
      BY <2>1 DEF At
    <3>2. QED
      BY <1>6, <3>1, FS_EmptySet
  <2>3. InHand(d)' = InHand(d) /\ InWork(d)' = 0 /\ InWork(d) = one
    BY <2>1 DEF InHand, InWork
  <2>5. away + back = one /\ away \in Nat /\ back \in Nat /\ one \in Nat
    OBVIOUS
  <2>6. lost'[d] + InNotices(d)' = (lost[d] + InNotices(d)) + (InQueue(d) + one)
    <3> HIDE DEF away, back, one
    <3>1. /\ lost[d] \in Nat /\ InNotices(d) \in Nat /\ InQueue(d) \in Nat
          /\ away \in Nat /\ back \in Nat /\ one \in Nat
      BY <1>5, <2>5
    <3>2. lost'[d] + InNotices(d)' = (lost[d] + InQueue(d) + away) + (InNotices(d) + back)
      BY <2>4
    <3>3. QED
      BY <2>5, <3>1, <3>2
  <2>7. Decided(d)' = Decided(d) + (InQueue(d) + one)
    <3> HIDE DEF away, back, one
    <3>1. answered'[d] = answered[d]
      BY <2>1
    <3>2. QED
      BY <1>5, <1>20, <2>5, <2>6, <3>1 DEF Decided
  <2>8. Pending(d)' = InHand(d) /\ Pending(d) = InHand(d) + (InQueue(d) + one)
    <3> HIDE DEF away, back, one
    <3>1. QED
      BY <1>5, <2>2, <2>3, <2>5 DEF Pending
  <2>9. asked'[d] = asked[d] /\ spam'[d] = spam[d]
    BY <2>1
  <2>10. QED
    <3> HIDE DEF away, back, one
    <3>1. QED
      BY <1>4, <1>5, <1>7, <2>5, <2>7, <2>8, <2>9 DEF Goal
<1>23. ASSUME Shutdown
       PROVE  Goal
  BY <1>23 DEF Shutdown
<1>24. ASSUME Tick \/ UNCHANGED vars
       PROVE  Goal
  BY <1>8, <1>9, <1>10, <1>24 DEF Tick, vars
<1>25. QED
  BY <1>11, <1>12, <1>13, <1>14, <1>15, <1>16, <1>17, <1>18, <1>21, <1>22, <1>23, <1>24,
     <1>26, <1>27 DEF Next

\* No EVENT of a standing connection is answered by both tasks or slips between them,
\* and only what is refused as spam has two OK messages.
THEOREM EventsAccounted == Spec => []EveryAskAccounted
<1>1. Init => EveryAskAccounted
  <2>1. SUFFICES ASSUME Init, NEW c \in Conns PROVE InQueue(c) = 0 /\ Len(notices[c]) = 0
    BY <2>1 DEF Init, EveryAskAccounted, Pending, Decided, InNotices, InHand, InWork
  <2>2. {n \in 1..Len(queue) : queue[n].conn = c} = {}
    BY <2>1 DEF Init
  <2>3. QED
    BY <2>1, <2>2, FS_EmptySet DEF Init, InQueue
<1>2. QED
  BY <1>1, TypeInit, TypeStep, AccountedStep, PTL DEF Spec

-----------------------------------------------------------------------------
(* The duplicate filter                                                     *)

\* The filter remembers the last time a key passed, which is not after now.
CacheInv ==
  \A k \in CacheKeys :
    /\ cache[k] = None => passes[k] = <<>>
    /\ cache[k] # None => /\ passes[k] # <<>> /\ cache[k] <= now
                          /\ cache[k] = passes[k][Len(passes[k])]

FilterInv == CacheInv /\ DedupWindow

LEMMA FilterStep == TypeOK /\ FilterInv /\ [Next]_vars => FilterInv'
<1> SUFFICES ASSUME TypeOK, FilterInv, [Next]_vars PROVE FilterInv'
  OBVIOUS
<1> USE SessionAssumption DEF SessionAssumption
<1>1. ASSUME UNCHANGED filterVars, now' \in Nat, now <= now' PROVE FilterInv'
  <2>1. DedupWindow'
    BY <1>1 DEF FilterInv, DedupWindow
  <2>2. CacheInv'
    <3>1. \A k \in CacheKeys : cache[k] # None => cache[k] \in 0..MaxTime
      BY DEF TypeOK
    <3>2. QED
      BY <1>1, <3>1 DEF FilterInv, CacheInv, TypeOK
  <2>3. QED
    BY <2>1, <2>2 DEF FilterInv
<1>2. ASSUME NEW e \in Events, Pass(e), now' = now PROVE FilterInv'
  <2> DEFINE k == KeyOf(e)
  <2>1. /\ k \in CacheKeys /\ now \in 0..MaxTime
        /\ passes[k] \in Seq(0..MaxTime)
    BY EventTyped DEF TypeOK
  <2>2. /\ cache' = [cache EXCEPT ![k] = now] /\ refused' = refused
        /\ passes' = [passes EXCEPT ![k] = Append(@, now)]
    BY <1>2 DEF Pass, CheckAndAdd
  <2>3. /\ cache'[k] = now /\ passes'[k] = Append(passes[k], now)
        /\ \A j \in CacheKeys \ {k} : cache'[j] = cache[j] /\ passes'[j] = passes[j]
    BY <2>1, <2>2 DEF TypeOK
  <2>4. None \notin 0..MaxTime
    BY DEF SessionAssumption
  <2>5. CacheInv'
    <3>1. passes'[k] # <<>> /\ passes'[k][Len(passes'[k])] = now
      <4>2. Append(passes[k], now) # <<>> /\ Append(passes[k], now)[Len(Append(passes[k], now))] = now
        BY <2>1, AppendLast
      <4>3. QED
        BY <2>3, <4>2
    <3>2. /\ cache'[k] # None /\ cache'[k] <= now'
          /\ cache'[k] = passes'[k][Len(passes'[k])]
      BY <1>2, <2>1, <2>3, <2>4, <3>1
    <3>3. ASSUME NEW j \in CacheKeys \ {k}
          PROVE  /\ cache'[j] = None => passes'[j] = <<>>
                 /\ cache'[j] # None => /\ passes'[j] # <<>> /\ cache'[j] <= now'
                                        /\ cache'[j] = passes'[j][Len(passes'[j])]
      BY <1>2, <2>3 DEF FilterInv, CacheInv
    <3>4. QED
      BY <3>1, <3>2, <3>3 DEF CacheInv
  <2>6. \A i \in DOMAIN passes[k] : now - passes[k][i] >= Window
    <3>1. SUFFICES ASSUME NEW i \in DOMAIN passes[k] PROVE now - passes[k][i] >= Window
      OBVIOUS
    <3>2. passes[k] # <<>> /\ Len(passes[k]) \in DOMAIN passes[k] /\ i <= Len(passes[k])
          /\ i \in Nat
      BY <2>1, <3>1
    <3>3. /\ passes[k][i] \in 0..MaxTime
          /\ passes[k][Len(passes[k])] \in 0..MaxTime
      BY <2>1, <3>1, <3>2
    <3>4. cache[k] = passes[k][Len(passes[k])] /\ cache[k] # None
      BY <2>1, <3>2 DEF FilterInv, CacheInv
    <3>5. now - cache[k] >= Window
      BY <1>2, <3>3, <3>4, <2>1 DEF Pass, InWindow
    <3>6. passes[k][i] <= passes[k][Len(passes[k])]
      <4>1. CASE i = Len(passes[k])
        BY <3>3, <4>1
      <4>2. CASE i < Len(passes[k])
        <5>1. passes[k][Len(passes[k])] - passes[k][i] >= Window
          BY <2>1, <3>2, <4>2 DEF FilterInv, DedupWindow
        <5>2. QED
          BY <3>3, <5>1
      <4>3. QED
        BY <3>2, <4>1, <4>2
    <3>7. QED
      <4> HIDE DEF k
      <4>1. now \in Nat /\ Window \in Nat /\ passes[k][i] \in Nat /\ cache[k] \in Nat
        BY <2>1, <3>3, <3>4
      <4>2. passes[k][i] <= cache[k]
        BY <3>4, <3>6
      <4>3. QED
        BY <3>5, <4>1, <4>2
  <2>7. DedupWindow'
    <3>1. /\ \A i \in DOMAIN passes[k] : i \in DOMAIN passes'[k] /\ passes'[k][i] = passes[k][i]
          /\ DOMAIN passes'[k] = DOMAIN passes[k] \cup {Len(passes[k]) + 1}
          /\ passes'[k][Len(passes[k]) + 1] = now
          /\ \A i \in DOMAIN passes[k] : i \in Nat /\ i <= Len(passes[k])
          /\ Len(passes[k]) \in Nat
      <4>1. ASSUME NEW s \in Seq(0..MaxTime)
            PROVE  /\ \A i \in DOMAIN s : i \in DOMAIN Append(s, now) /\ Append(s, now)[i] = s[i]
                   /\ DOMAIN Append(s, now) = DOMAIN s \cup {Len(s) + 1}
                   /\ Append(s, now)[Len(s) + 1] = now
                   /\ \A i \in DOMAIN s : i \in Nat /\ i <= Len(s)
                   /\ Len(s) \in Nat
        <5>1. DOMAIN s = 1..Len(s) /\ Len(s) \in Nat
          OBVIOUS
        <5>2. DOMAIN Append(s, now) = 1..Len(s) + 1 /\ Append(s, now)[Len(s) + 1] = now
              /\ \A i \in 1..Len(s) : Append(s, now)[i] = s[i]
          <6>1. now \in 0..MaxTime
            BY <2>1
          <6>2. QED
            BY <6>1
        <5>3. QED
          BY <5>1, <5>2
      <4> HIDE DEF k
      <4>2. QED
        BY <2>1, <2>3, <4>1
    <3>2. \A i, j \in DOMAIN passes'[k] : i < j => passes'[k][j] - passes'[k][i] >= Window
      <4>1. SUFFICES ASSUME NEW i \in DOMAIN passes'[k], NEW j \in DOMAIN passes'[k], i < j
                     PROVE  passes'[k][j] - passes'[k][i] >= Window
        OBVIOUS
      <4>2. i \in DOMAIN passes[k]
        BY <3>1, <4>1
      <4>3. CASE j \in DOMAIN passes[k]
        BY <2>1, <3>1, <4>1, <4>2, <4>3 DEF FilterInv, DedupWindow
      <4>4. CASE j = Len(passes[k]) + 1
        BY <2>6, <3>1, <4>2, <4>4
      <4>5. QED
        BY <3>1, <4>3, <4>4
    <3>3. \A r \in refused'[k] :
            \E i \in DOMAIN passes'[k] : passes'[k][i] <= r /\ r < passes'[k][i] + Window
      BY <2>1, <2>2, <3>1 DEF FilterInv, DedupWindow
    <3>4. QED
      BY <2>2, <2>3, <3>2, <3>3 DEF FilterInv, DedupWindow
  <2>8. QED
    BY <2>5, <2>7 DEF FilterInv
<1>3. ASSUME NEW c \in Conns, NEW e \in Events, RefuseSpam(c, e) PROVE FilterInv'
  <2> DEFINE k == KeyOf(e)
  <2>1. CASE UNCHANGED filterVars
    BY <1>1, <1>3, <2>1 DEF RefuseSpam, TypeOK
  <2>2. CASE ~UNCHANGED filterVars
    <3>1. /\ InWindow(e) /\ UNCHANGED <<cache, passes, now>>
          /\ refused' = [refused EXCEPT ![k] = @ \cup {now}]
      BY <1>3, <2>2 DEF RefuseSpam, CheckAndAdd
    <3>2. k \in CacheKeys /\ now \in 0..MaxTime /\ passes[k] \in Seq(0..MaxTime)
      BY EventTyped DEF TypeOK
    <3>3. cache[k] # None /\ now - cache[k] < Window /\ cache[k] \in 0..MaxTime
      BY <3>1, Known DEF InWindow
    <3>4. CacheInv'
      BY <3>1 DEF FilterInv, CacheInv
    <3>5. \E i \in DOMAIN passes[k] : passes[k][i] <= now /\ now < passes[k][i] + Window
      <4>1. /\ passes[k] # <<>> /\ cache[k] <= now
            /\ cache[k] = passes[k][Len(passes[k])]
        BY <3>2, <3>3 DEF FilterInv, CacheInv
      <4>2. Len(passes[k]) \in DOMAIN passes[k]
        BY <3>2, <4>1
      <4>3. QED
        BY <3>2, <3>3, <4>1, <4>2
    <3>6. DedupWindow'
      <4>1. \A j \in CacheKeys : refused'[j] = IF j = k THEN refused[k] \cup {now} ELSE refused[j]
        BY <3>1, <3>2 DEF TypeOK
      <4>2. QED
        BY <3>1, <3>5, <4>1 DEF FilterInv, DedupWindow
    <3>7. QED
      BY <3>4, <3>6 DEF FilterInv
  <2>3. QED
    BY <2>1, <2>2
<1>4. ASSUME NEW c \in Conns, NEW e \in Events, RefuseTime(c, e) \/ Submit(c, e)
      PROVE FilterInv'
  BY <1>2, <1>4 DEF RefuseTime, Submit
<1>5. ASSUME Tick PROVE FilterInv'
  BY <1>1, <1>5 DEF Tick, TypeOK
<1>6. now \in Nat /\ now <= now
  BY DEF TypeOK
<1>7. ASSUME NEW c \in Conns, NEW e \in Events,
             RefuseInvalid(c, e) \/ PanicOn(c, e) \/ Deliver(c, e)
      PROVE FilterInv'
  BY <1>1, <1>6, <1>7 DEF RefuseInvalid, PanicOn, Deliver
<1>8. ASSUME NEW c \in Conns, Enqueue(c) \/ PassNotice(c) \/ Disconnect(c) PROVE FilterInv'
  BY <1>1, <1>6, <1>8 DEF Enqueue, PassNotice, Disconnect
<1>9. ASSUME NEW c \in Conns, NEW a \in AuthEvents, Authenticate(c, a) PROVE FilterInv'
  BY <1>1, <1>6, <1>9 DEF Authenticate
<1>10. ASSUME \/ Take \/ RefuseEvent \/ DropSilently \/ Publish \/ NotWritten
              \/ ChargeFails \/ Shutdown \/ UNCHANGED vars
       PROVE FilterInv'
  BY <1>1, <1>6, <1>10
     DEF Take, RefuseEvent, DropSilently, Publish, NotWritten, ChargeFails, Shutdown, vars
<1>11. QED
  BY <1>3, <1>4, <1>5, <1>7, <1>8, <1>9, <1>10 DEF Next

\* One pass of a text in a window, and no refusal without one.
THEOREM FilterIsExact == Spec => []DedupWindow
<1>1. Init => FilterInv
  BY DEF Init, FilterInv, CacheInv, DedupWindow
<1>2. FilterInv => DedupWindow
  BY DEF FilterInv
<1>3. QED
  BY <1>1, <1>2, TypeInit, TypeStep, FilterStep, PTL DEF Spec

-----------------------------------------------------------------------------
(* Direct messages                                                          *)

\* Who was sent a direct message has authenticated: the key is final.
MessageInv ==
  PrivateMessages /\ (Nip42Dms => \A c \in Conns : sent[c] # {} => auth[c] # None)

LEMMA MessageStep == TypeOK /\ MessageInv /\ [Next]_vars => MessageInv'
<1> SUFFICES ASSUME TypeOK, MessageInv, [Next]_vars PROVE MessageInv'
  OBVIOUS
<1>1. ASSUME UNCHANGED <<auth, sent>> PROVE MessageInv'
  BY <1>1 DEF MessageInv, PrivateMessages
<1>2. ASSUME NEW c \in Conns, NEW e \in Events, Deliver(c, e) PROVE MessageInv'
  <2>1. CASE ~IsDirectMessage(e)
    BY <1>1, <1>2, <2>1 DEF Deliver
  <2>2. CASE IsDirectMessage(e)
    <3>1. /\ auth' = auth /\ sent' = [sent EXCEPT ![c] = @ \cup {e}]
          /\ Nip42Dms => auth[c] # None /\ e.to # <<>> /\ auth[c] \in {e.author, e.to[1]}
      BY <1>2, <2>2 DEF Deliver, AllowedToSend
    <3>2. \A d \in Conns : sent'[d] = IF d = c THEN sent[c] \cup {e} ELSE sent[d]
      BY <3>1 DEF TypeOK
    <3>3. QED
      BY <3>1, <3>2 DEF MessageInv, PrivateMessages
  <2>3. QED
    BY <2>1, <2>2
<1>3. ASSUME NEW c \in Conns, NEW a \in AuthEvents, Authenticate(c, a) PROVE MessageInv'
  <2>1. /\ auth[c] = None /\ sent' = sent
        /\ \A d \in Conns : auth'[d] = IF d = c THEN a.by ELSE auth[d]
    BY <1>3 DEF Authenticate, TypeOK
  <2>2. Nip42Dms => sent[c] = {}
    BY <2>1 DEF MessageInv
  <2>3. QED
    BY <2>1, <2>2 DEF MessageInv, PrivateMessages
<1>4. ASSUME NEW c \in Conns, NEW e \in Events,
             \/ RefuseInvalid(c, e) \/ PanicOn(c, e) \/ RefuseSpam(c, e)
             \/ RefuseTime(c, e) \/ Submit(c, e)
      PROVE MessageInv'
  BY <1>1, <1>4 DEF RefuseInvalid, PanicOn, RefuseSpam, RefuseTime, Submit
<1>5. ASSUME NEW c \in Conns, Enqueue(c) \/ PassNotice(c) \/ Disconnect(c) PROVE MessageInv'
  BY <1>1, <1>5 DEF Enqueue, PassNotice, Disconnect
<1>6. ASSUME \/ Take \/ RefuseEvent \/ DropSilently \/ Publish \/ NotWritten
             \/ ChargeFails \/ Shutdown \/ Tick \/ UNCHANGED vars
      PROVE MessageInv'
  BY <1>1, <1>6 DEF Take, RefuseEvent, DropSilently, Publish, NotWritten, ChargeFails,
                   Shutdown, Tick, vars
<1>7. QED
  BY <1>2, <1>3, <1>4, <1>5, <1>6 DEF Next

\* With nip42_dms, a direct message reaches only its author and first recipient.
THEOREM MessagesArePrivate == Spec => []PrivateMessages
<1>1. Init => MessageInv
  BY DEF Init, MessageInv, PrivateMessages
<1>2. MessageInv => PrivateMessages
  BY DEF MessageInv
<1>3. QED
  BY <1>1, <1>2, TypeInit, TypeStep, MessageStep, PTL DEF Spec

=============================================================================
