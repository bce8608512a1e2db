----------------------------- MODULE QueryEngine -----------------------------
(***************************************************************************)
(* Subscriptions and their queries: the client tasks (REQ, CLOSE, results  *)
(* and broadcasts), the blocking threads that run the SQL, the semaphore   *)
(* and the checkpoint lock they share, and the writer that commits an      *)
(* event and then broadcasts it.                                           *)
(*                                                                         *)
(* A request is a sequence of filters, a filter the set of the events that *)
(* match it (no LIMIT cuts it). The rows of a query come in any order.     *)
(***************************************************************************)
EXTENDS Integers, Sequences, FiniteSets

CONSTANTS Clients, SubIds,
          Events,
          Requests,     (* what clients may ask for                          *)
          LiveOnly,     (* the requests whose filters all have limit 0       *)
          NoRequest,    (* no subscription under this id                     *)
          MaxSubs,      (* max_subscriptions_per_client                      *)
          Permits,      (* database.max_conn, the size of the semaphore      *)
          Cap,          (* capacity of a client's query channel (20,000)     *)
          BroadcastCap, (* broadcast_buffer                                  *)
          CheckEvery,   (* rows between two looks at cancel (100)            *)
          MaxQueries    (* bound on the queries ever started                 *)

Queries == 1..MaxQueries

QueryAssumption ==
  /\ Requests \subseteq Seq(SUBSET Events)
  /\ LiveOnly \subseteq Requests
  /\ NoRequest \notin Requests
  /\ MaxSubs \in Nat \ {0} /\ Permits \in Nat \ {0} /\ Cap \in Nat \ {0}
  /\ BroadcastCap \in Nat \ {0} /\ CheckEvery \in Nat \ {0}
  /\ MaxQueries \in Nat

ASSUME QueryAssumption

VARIABLES
  connected,  (* the clients whose task is running                           *)
  panicked,   (* history: those whose task a panic has ended                 *)
  subs,       (* per client and id, the request registered                   *)
  running,    (* per client and id, the query that can be cancelled, or 0    *)
  waiting,    (* per client, the query its task awaits a permit for, or 0    *)
  permits,    (* free permits of reader_threads_ready                        *)
  pc,         (* per query, where its thread is                              *)
  job,        (* per query, for whom it runs                                 *)
  todo,       (* per query, the filters not yet begun                        *)
  rows,       (* per query, the rows of the current statement not yet sent   *)
  count,      (* per query, row_count % CheckEvery                           *)
  cancel,     (* per query, a message is on abandon_query                    *)
  why,        (* history: per query, how it ended                            *)
  chan,       (* per client, the channel of query results                    *)
  checkpoint, (* "off", "short" or, with the readers locked out, "long"      *)
  db,         (* the committed events                                        *)
  pending,    (* the event the writer has committed and not yet broadcast    *)
  feed,       (* per client, its receiver of the broadcast channel           *)
  lagged,     (* history: the clients that lost a broadcast                  *)
  received,   (* history: per client and id, events sent since registration  *)
  answered    (* history: per client and id, the EOSE of its query has come  *)

clientVars == <<connected, panicked, subs, running, waiting>>
threadVars == <<job, todo, rows, count, why>>
storeVars == <<db, pending>>
historyVars == <<lagged, received, answered>>
vars == <<clientVars, threadVars, storeVars, historyVars,
          permits, pc, cancel, chan, checkpoint, feed>>

NoJob == [client |-> 0, sub |-> 0]
ClientOf(q) == job[q].client

Matches(r) == UNION {r[i] : i \in DOMAIN r}

\* The places at which a query thread owns a permit.
Working == {"gate", "admit", "open", "fetch", "space", "send"}
Holds(q) == pc[q] \in Working

\* A message to the client's task; query and reason are not on the wire.
Row(q, e) == [query |-> q, event |-> {e}]
Eose(q) == [query |-> q, event |-> {}]

-----------------------------------------------------------------------------
(* The client task                                                          *)

Ready(c) == c \in connected /\ waiting[c] = 0

HasRoom(c, s) ==
  \/ subs[c][s] # NoRequest
  \/ Cardinality({t \in SubIds : subs[c][t] # NoRequest}) < MaxSubs

\* A variant that replaces the sender without using it.
CancelledNone(Q) == cancel

\* Send on abandon_query: lost if the thread has returned.
Cancelled(Q) == [q \in Queries |-> cancel[q] \/ (q \in Q /\ pc[q] # "done")]

Fresh == {q \in Queries : pc[q] = "idle" /\ \A p \in Queries : p < q => pc[p] # "idle"}

\* The handler of REQ up to its await of a permit. The same request again, and
\* one id too many, change nothing.
Request(c, s, r) ==
  /\ Ready(c)
  /\ subs[c][s] # r /\ HasRoom(c, s)
  /\ subs' = [subs EXCEPT ![c][s] = r]
  /\ cancel' = Cancelled({running[c][s]})
  /\ received' = [received EXCEPT ![c][s] = {}]
  /\ answered' = [answered EXCEPT ![c][s] = FALSE]
  /\ \/ /\ r \in LiveOnly
        /\ running' = [running EXCEPT ![c][s] = 0]
        /\ UNCHANGED <<waiting, pc, job, todo>>
     \/ /\ r \notin LiveOnly
        /\ \E q \in Fresh :
             /\ running' = [running EXCEPT ![c][s] = q]
             /\ waiting' = [waiting EXCEPT ![c] = q]
             /\ pc' = [pc EXCEPT ![q] = "queued"]
             /\ job' = [job EXCEPT ![q] = [client |-> c, sub |-> s]]
             /\ todo' = [todo EXCEPT ![q] = r]
  /\ UNCHANGED <<connected, panicked, permits, rows, count, why, chan, checkpoint,
                 storeVars, feed, lagged>>

\* The permit is there: the thread is spawned and the task reads on.
Acquire(c) ==
  /\ waiting[c] # 0
  /\ permits > 0
  /\ permits' = permits - 1
  /\ pc' = [pc EXCEPT ![waiting[c]] = "gate"]
  /\ waiting' = [waiting EXCEPT ![c] = 0]
  /\ UNCHANGED <<connected, panicked, subs, running, threadVars, cancel, chan,
                 checkpoint, storeVars, feed, historyVars>>

CloseSub(c, s) ==
  /\ Ready(c)
  /\ subs[c][s] # NoRequest
  /\ cancel' = Cancelled({running[c][s]})
  /\ running' = [running EXCEPT ![c][s] = 0]
  /\ subs' = [subs EXCEPT ![c][s] = NoRequest]
  /\ received' = [received EXCEPT ![c][s] = {}]
  /\ answered' = [answered EXCEPT ![c][s] = FALSE]
  /\ UNCHANGED <<connected, panicked, waiting, permits, pc, threadVars, chan,
                 checkpoint, storeVars, feed, lagged>>

\* The task is over, and what it had goes: its subscriptions, the senders of its
\* queries and the receivers of its channels.
TaskEnds(c) ==
  /\ Ready(c)
  /\ connected' = connected \ {c}
  /\ running' = [running EXCEPT ![c] = [s \in SubIds |-> 0]]
  /\ subs' = [subs EXCEPT ![c] = [s \in SubIds |-> NoRequest]]
  /\ chan' = [chan EXCEPT ![c] = <<>>]
  /\ feed' = [feed EXCEPT ![c] = <<>>]
  /\ received' = [received EXCEPT ![c] = [s \in SubIds |-> {}]]
  /\ answered' = [answered EXCEPT ![c] = [s \in SubIds |-> FALSE]]
  /\ UNCHANGED <<waiting, permits, pc, threadVars, checkpoint, storeVars, lagged>>

\* The loop ends: close, error, ping timeout or shutdown; every query is told.
Disconnect(c) ==
  /\ TaskEnds(c)
  /\ cancel' = Cancelled({running[c][s] : s \in SubIds})
  /\ UNCHANGED panicked

\* An EVENT whose delegation has a malformed signature: the unwinding skips the
\* cleanup, and a sender that is dropped is no message to try_recv().is_ok().
Panic(c) ==
  /\ TaskEnds(c)
  /\ panicked' = panicked \cup {c}
  /\ UNCHANGED cancel

\* A query result goes to the client, whatever has become of the subscription.
Deliver(c) ==
  /\ Ready(c)
  /\ chan[c] # <<>>
  /\ LET m == Head(chan[c])
         s == job[m.query].sub IN
       /\ received' = IF subs[c][s] = NoRequest THEN received
                       ELSE [received EXCEPT ![c][s] = @ \cup m.event]
       /\ answered' = [answered EXCEPT ![c][s] = @ \/ m = Eose(running[c][s])]
  /\ chan' = [chan EXCEPT ![c] = Tail(@)]
  /\ UNCHANGED <<clientVars, permits, pc, threadVars, cancel, checkpoint,
                 storeVars, feed, lagged>>

\* A variant that starts with live events when the stored ones are through.
HearAfterEose(c) ==
  /\ Ready(c)
  /\ feed[c] # <<>>
  /\ received' = [received EXCEPT ![c] = [s \in SubIds |->
       IF answered[c][s] /\ Head(feed[c]) \in Matches(subs[c][s])
       THEN @[s] \cup {Head(feed[c])} ELSE @[s]]]
  /\ feed' = [feed EXCEPT ![c] = Tail(@)]
  /\ UNCHANGED <<clientVars, permits, pc, threadVars, cancel, chan, checkpoint,
                 storeVars, lagged, answered>>

\* A broadcast event goes out once for each subscription it matches.
Hear(c) ==
  /\ Ready(c)
  /\ feed[c] # <<>>
  /\ received' = [received EXCEPT ![c] = [s \in SubIds |->
       IF subs[c][s] # NoRequest /\ Head(feed[c]) \in Matches(subs[c][s])
       THEN @[s] \cup {Head(feed[c])} ELSE @[s]]]
  /\ feed' = [feed EXCEPT ![c] = Tail(@)]
  /\ UNCHANGED <<clientVars, permits, pc, threadVars, cancel, chan, checkpoint,
                 storeVars, lagged, answered>>

-----------------------------------------------------------------------------
(* The query thread                                                         *)

\* A variant with an off-by-one.
RoomForOneMore(c) == c \notin connected \/ Len(chan[c]) <= Cap

\* The channel takes one more; once the client is gone it takes (and loses) all.
Room(c) == c \notin connected \/ Len(chan[c]) < Cap

Put(q, m) ==
  chan' = IF ClientOf(q) \in connected
          THEN [chan EXCEPT ![ClientOf(q)] = Append(@, m)] ELSE chan

\* checkpoint_in_progress.try_lock() can fail: the checkpoint has the lock, or
\* another thread has it for the moment of its own look.
LockBusy(q) ==
  \/ checkpoint = "long"
  \/ \E p \in Queries \ {q} : pc[p] \in {"gate", "fetch", "space"}

\* The thread moves; everything that is not its own stays.
Goto(q, place) ==
  /\ pc' = [pc EXCEPT ![q] = place]
  /\ UNCHANGED <<clientVars, job, cancel, checkpoint, storeVars, feed, historyVars>>

\* The query is over and its locals go.
Leave(q, place, reason) ==
  /\ Goto(q, place)
  /\ why' = [why EXCEPT ![q] = reason]
  /\ todo' = [todo EXCEPT ![q] = <<>>]
  /\ rows' = [rows EXCEPT ![q] = {}]
  /\ count' = [count EXCEPT ![q] = 0]
  /\ UNCHANGED chan

\* The closure returns, whereby the permit is dropped; no EOSE is sent. It is
\* recorded whether the reason was the checkpoint lock.
Return(q, reason) == Leave(q, "done", reason) /\ permits' = permits + 1

\* A variant that hands the permit on with the EOSE and forgets it there.
FinishKeepsPermit(q, reason) == Leave(q, "eose", reason) /\ UNCHANGED permits

\* drop(sem), then the EOSE is to be sent.
Finish(q, reason) == Leave(q, "eose", reason) /\ permits' = permits + 1

\* blocking_lock: wait for the end of a checkpoint that locks readers out.
PassGate(q) ==
  /\ pc[q] = "gate"
  /\ checkpoint # "long"
  /\ Goto(q, "admit")
  /\ UNCHANGED <<permits, todo, rows, count, why, chan>>

\* Queued for more than five seconds; cancelled; without a connection, of which
\* only the log is told: the client gets an EOSE; or begun.
Admit(q) ==
  /\ pc[q] = "admit"
  /\ \/ Return(q, "given up")
     \/ cancel[q] /\ Return(q, "given up")
     \/ ~cancel[q] /\ Finish(q, "no connection")
     \/ /\ ~cancel[q]
        /\ Goto(q, "open")
        /\ UNCHANGED <<permits, todo, rows, count, why, chan>>

\* The next filter's statement reads a snapshot of the database of its own.
OpenFilter(q) ==
  /\ pc[q] = "open"
  /\ \/ todo[q] = <<>> /\ Finish(q, "complete")
     \/ /\ todo[q] # <<>>
        /\ rows' = [rows EXCEPT ![q] = db \cap Head(todo[q])]
        /\ todo' = [todo EXCEPT ![q] = Tail(@)]
        /\ Goto(q, "fetch")
        /\ UNCHANGED <<permits, count, why, chan>>

\* A statement or a row fails: the error ends the closure.
SqlError(q) == pc[q] \in {"open", "fetch"} /\ Return(q, "given up")

\* There is a row. Every CheckEvery rows a look at the checkpoint lock, then at
\* the cancel channel.
Fetch(q) ==
  /\ pc[q] = "fetch"
  /\ \/ /\ rows[q] = {}
        /\ Goto(q, "open")
        /\ UNCHANGED <<permits, todo, rows, count, why, chan>>
     \/ rows[q] # {} /\ count[q] = 0 /\ LockBusy(q) /\ Return(q, "checkpoint")
     \/ /\ rows[q] # {} /\ count[q] = 0 /\ checkpoint # "long" /\ cancel[q]
        /\ Return(q, "given up")
     \/ /\ rows[q] # {}
        /\ count[q] = 0 => checkpoint # "long" /\ ~cancel[q]
        /\ count' = [count EXCEPT ![q] = (@ + 1) % CheckEvery]
        /\ Goto(q, "space")
        /\ UNCHANGED <<permits, todo, rows, why, chan>>

\* A variant of the stall loop without its limit of two seconds.
FindSpaceForever(q) ==
  /\ pc[q] = "space"
  /\ \/ /\ Room(ClientOf(q))
        /\ Goto(q, "send")
        /\ UNCHANGED <<permits, todo, rows, count, why, chan>>
     \/ ~Room(ClientOf(q)) /\ LockBusy(q) /\ Return(q, "checkpoint")

\* The channel has room; or it is full, and has been for two seconds or the
\* checkpoint lock is taken. Otherwise the thread sleeps and looks again.
FindSpace(q) ==
  /\ pc[q] = "space"
  /\ \/ /\ Room(ClientOf(q))
        /\ Goto(q, "send")
        /\ UNCHANGED <<permits, todo, rows, count, why, chan>>
     \/ ~Room(ClientOf(q)) /\ Return(q, "given up")
     \/ ~Room(ClientOf(q)) /\ LockBusy(q) /\ Return(q, "checkpoint")

\* blocking_send of a row: whoever was faster may have taken the room.
Send(q) ==
  /\ pc[q] = "send"
  /\ Room(ClientOf(q))
  /\ \E e \in rows[q] :
       /\ Put(q, Row(q, e))
       /\ rows' = [rows EXCEPT ![q] = @ \ {e}]
  /\ Goto(q, "fetch")
  /\ UNCHANGED <<permits, todo, count, why>>

SendEose(q) ==
  /\ pc[q] = "eose"
  /\ Room(ClientOf(q))
  /\ Put(q, Eose(q))
  /\ Goto(q, "done")
  /\ UNCHANGED <<permits, todo, rows, count, why>>

QueryStep(q) ==
  \/ Admit(q) \/ OpenFilter(q) \/ Fetch(q) \/ FindSpace(q) \/ Send(q) \/ SendEose(q)

-----------------------------------------------------------------------------
(* The checkpoint task and the writer                                       *)

otherVars == <<clientVars, threadVars, permits, pc, cancel, chan>>

\* It takes the write lock and, if the WAL has grown, the checkpoint lock.
StartCheckpoint ==
  /\ checkpoint = "off"
  /\ checkpoint' \in {"short", "long"}
  /\ UNCHANGED <<otherVars, storeVars, feed, historyVars>>

EndCheckpoint ==
  /\ checkpoint # "off"
  /\ checkpoint' = "off"
  /\ UNCHANGED <<otherVars, storeVars, feed, historyVars>>

\* write_event commits under the write lock ...
Commit(e) ==
  /\ checkpoint = "off"
  /\ pending = {}
  /\ e \notin db
  /\ db' = db \cup {e}
  /\ pending' = {e}
  /\ UNCHANGED <<otherVars, checkpoint, feed, historyVars>>

\* ... and db_writer broadcasts after it. A receiver that is BroadcastCap behind
\* loses its oldest event.
Broadcast ==
  /\ pending # {}
  /\ \E e \in pending :
       feed' = [c \in Clients |->
         IF c \notin connected THEN feed[c]
         ELSE IF Len(feed[c]) < BroadcastCap THEN Append(feed[c], e)
         ELSE Append(Tail(feed[c]), e)]
  /\ lagged' = lagged \cup {c \in connected : Len(feed[c]) = BroadcastCap}
  /\ pending' = {}
  /\ UNCHANGED <<db, otherVars, checkpoint, received, answered>>

-----------------------------------------------------------------------------

Init ==
  /\ connected = Clients /\ panicked = {}
  /\ subs = [c \in Clients |-> [s \in SubIds |-> NoRequest]]
  /\ running = [c \in Clients |-> [s \in SubIds |-> 0]]
  /\ waiting = [c \in Clients |-> 0]
  /\ permits = Permits
  /\ pc = [q \in Queries |-> "idle"]
  /\ job = [q \in Queries |-> NoJob]
  /\ todo = [q \in Queries |-> <<>>]
  /\ rows = [q \in Queries |-> {}]
  /\ count = [q \in Queries |-> 0]
  /\ cancel = [q \in Queries |-> FALSE]
  /\ why = [q \in Queries |-> "running"]
  /\ chan = [c \in Clients |-> <<>>]
  /\ checkpoint = "off"
  /\ db \in SUBSET Events
  /\ pending = {}
  /\ feed = [c \in Clients |-> <<>>]
  /\ lagged = {}
  /\ received = [c \in Clients |-> [s \in SubIds |-> {}]]
  /\ answered = [c \in Clients |-> [s \in SubIds |-> FALSE]]

Next ==
  \/ \E c \in Clients, s \in SubIds :
       \/ \E r \in Requests : Request(c, s, r)
       \/ CloseSub(c, s)
  \/ \E c \in Clients : 
       Acquire(c) \/ Disconnect(c) \/ Panic(c) \/ Deliver(c) \/ Hear(c)
  \/ \E q \in Queries : PassGate(q) \/ QueryStep(q) \/ SqlError(q)
  \/ StartCheckpoint \/ EndCheckpoint
  \/ \E e \in Events : Commit(e)
  \/ Broadcast

Spec == Init /\ [][Next]_vars

\* The threads are scheduled, checkpoints end (SQLite's busy timeout), tokio's
\* semaphore and mutex are first come first served, and the clients read what
\* they are sent.
Fairness ==
  /\ \A q \in Queries : SF_vars(PassGate(q)) /\ WF_vars(QueryStep(q))
  /\ \A c \in Clients : SF_vars(Acquire(c)) /\ WF_vars(Deliver(c)) /\ WF_vars(Hear(c))
  /\ WF_vars(EndCheckpoint)
  /\ WF_vars(Broadcast)

FairSpec == Spec /\ Fairness

-----------------------------------------------------------------------------
(* Properties                                                               *)

Places == Working \cup {"idle", "queued", "eose", "done"}
Reasons == {"running", "complete", "no connection", "checkpoint", "given up"}
Messages == [query : Queries, event : {{}} \cup {{e} : e \in Events}]

\* The state is of the right shape, no channel is over its capacity, and a task
\* awaits a permit only for a query that is queued.
TypeOK ==
  /\ connected \subseteq Clients /\ panicked \subseteq Clients \ connected
  /\ subs \in [Clients -> [SubIds -> Requests \cup {NoRequest}]]
  /\ running \in [Clients -> [SubIds -> Queries \cup {0}]]
  /\ waiting \in [Clients -> Queries \cup {0}]
  /\ permits \in 0..Permits
  /\ pc \in [Queries -> Places]
  /\ job \in [Queries -> [client : Clients, sub : SubIds] \cup {NoJob}]
  /\ todo \in [Queries -> Seq(SUBSET Events)]
  /\ rows \in [Queries -> SUBSET Events]
  /\ count \in [Queries -> 0..(CheckEvery - 1)]
  /\ cancel \in [Queries -> BOOLEAN]
  /\ why \in [Queries -> Reasons]
  /\ chan \in [Clients -> Seq(Messages)] /\ \A c \in Clients : Len(chan[c]) <= Cap
  /\ checkpoint \in {"off", "short", "long"}
  /\ db \subseteq Events /\ pending \subseteq db
  /\ feed \in [Clients -> Seq(Events)] /\ \A c \in Clients : Len(feed[c]) <= BroadcastCap
  /\ lagged \subseteq Clients
  /\ received \in [Clients -> [SubIds -> SUBSET Events]]
  /\ answered \in [Clients -> [SubIds -> BOOLEAN]]
  /\ \A c \in Clients : waiting[c] # 0 => /\ pc[waiting[c]] = "queued"
                                          /\ job[waiting[c]].client = c

\* No way out of a query thread, early return, error or end, loses a permit of
\* reader_threads_ready or returns it twice.
PermitsConserved ==
  permits + Cardinality({q \in Queries : Holds(q)}) = Permits

\* A query that runs for nobody (its id was closed, given to a new request, or
\* its client is gone) has been told to stop, unless a panic ended the client's
\* task: then the queries of this client may run to their end.
OrphansCancelled ==
  \A q \in Queries : pc[q] \notin {"idle", "done"} =>
    \/ cancel[q]
    \/ running[job[q].client][job[q].sub] = q
    \/ job[q].client \in panicked

\* The pool had no connection for the current query of the id: its EOSE says that
\* the stored events are through, and none was looked at.
Unread(c, s) == why[running[c][s]] = "no connection"

\* Between stored and live events there is no gap: once the EOSE of its current
\* query has reached a client that lost no broadcast, the client has been sent
\* every committed event that matches, or the broadcast of it is on its way. The
\* one exception is the EOSE of a query that got no connection.
NoGap ==
  \A c \in connected \ lagged, s \in SubIds : answered[c][s] /\ ~Unread(c, s) =>
    \A e \in db \cap Matches(subs[c][s]) :
      \/ e \in received[c][s]
      \/ e \in pending
      \/ \E i \in DOMAIN feed[c] : feed[c][i] = e

\* The thread has seen room in the channel, another thread has taken it, and
\* the task that would empty the channel awaits a permit.
Stuck(q) == pc[q] = "send" /\ ~Room(ClientOf(q)) /\ waiting[ClientOf(q)] # 0

\* Of all the ways in which threads, tasks and the checkpoint wait for one
\* another only one lasts: every permit comes back, or the race between a look
\* at the capacity and the send has blocked its holder for good.
OnlyTheSendRace ==
  \A q \in Queries : []<>~Holds(q) \/ <>[]Stuck(q)

\* "any client that doesn't cause us to generate new rows in 2 seconds gets
\* dropped": no query keeps its permit for ever.
PermitReturns == \A q \in Queries : Holds(q) ~> ~Holds(q)

\* "If a message becomes available on the abandon_query_rx channel, the query is
\* immediately aborted": it sends no further row.
AbandonedIsSilent ==
  [][\A q \in Queries : cancel[q] =>
       \A c \in Clients, e \in Events :
         chan'[c] # Append(chan[c], Row(q, e))]_vars

\* "connection cleanup - ensure any still running queries are terminated": a query
\* that holds a permit for a client that is gone has been told to stop.
CleanupReachesAll ==
  \A q \in Queries : Holds(q) /\ ClientOf(q) \notin connected => cancel[q]

\* "lock was held, abort this query", counted as a checkpoint: a query is
\* aborted for a checkpoint only while one has the lock.
AbortedForCheckpoint ==
  [][\A q \in Queries :
       why'[q] # why[q] /\ why'[q] = "checkpoint" => checkpoint = "long"]_vars
=============================================================================
