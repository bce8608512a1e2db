------------------------------- MODULE Session -------------------------------
(***************************************************************************)
(* The client's task in server.rs as far as it takes events in and hands   *)
(* them out: EVENT with its checks, the duplicate filter that all tasks    *)
(* share, AUTH (conn.rs), the restriction on direct messages; and the      *)
(* event writer (db.rs) with its gates and the answers it sends back.      *)
(*                                                                         *)
(* A connection is one websocket; its challenge is known by its name.      *)
(* Subscriptions and queries are QueryEngine's: here an event that is out  *)
(* may be sent to any connection. Balances are Admission's: here a gate    *)
(* that may refuse, and a charge that may fail.                            *)
(***************************************************************************)
EXTENDS Integers, Sequences, FiniteSets

CONSTANTS Conns,
          Users,        (* public keys                                         *)
          Events,       (* what clients may send with EVENT                    *)
          AuthEvents,   (* what clients may send with AUTH                     *)
          None,         (* no key, no time, no event                           *)
          Blocked, Exempt, BlockedTexts, (* spam_filter: blocked_pubkeys,      *)
                                         (* whitelist, blocked_content         *)
          Window,       (* spam_filter.deduplication.window_seconds            *)
          MaxFuture,    (* options.reject_future_seconds                       *)
          BlockedKinds, AllowedKinds, (* limits: kind blacklist and allowlist  *)
          Whitelist,    (* authorization.pubkey_whitelist                      *)
          PayToRelay,   (* pay_to_relay.enabled, with a cost per event         *)
          Nip05, Grpc,  (* whether the writer asks the records, the service    *)
          Nip42Auth, Nip42Dms, (* the settings of these names                  *)
          AuthWindow,   (* the age an AUTH event may have (600 seconds)        *)
          QueueCap,     (* event_persist_buffer                                *)
          NoticeCap,    (* of a connection's notice channel (128)              *)
          MaxAsks,      (* bound on the EVENTs of each connection              *)
          MaxTime       (* bound on the clock                                  *)

IsEphemeral(e) == e.kind >= 20000 /\ e.kind < 30000
IsDirectMessage(e) == e.kind \in {4, 44, 1059}

\* What a client's task sends the writer (SubmittedEvent).
Submissions == [event : Events, conn : Conns]

SessionAssumption ==
  /\ \A e \in Events : /\ e.author \in Users /\ e.kind \in Nat /\ e.at \in Nat
                       /\ e.exp \in SUBSET Nat /\ e.form \in {"valid", "invalid", "panics"}
  /\ \A a \in AuthEvents : a.by \in Users /\ a.at \in Nat
  /\ None \notin Users \cup Events \cup Conns \cup Submissions \cup Nat
  /\ Window \in Nat /\ MaxFuture \in Nat /\ AuthWindow \in Nat
  /\ Nip05 \in BOOLEAN /\ Grpc \in BOOLEAN /\ PayToRelay \in BOOLEAN
  /\ Nip42Auth \in BOOLEAN /\ Nip42Dms \in BOOLEAN
  /\ QueueCap \in Nat \ {0} /\ NoticeCap \in Nat \ {0}
  /\ MaxAsks \in [Conns -> Nat] /\ MaxTime \in Nat

ASSUME SessionAssumption

\* What the duplicate filter hashes.
KeyOf(e) == <<e.author, e.text>>
CacheKeys == {KeyOf(e) : e \in Events}

VARIABLES
  open,      (* the connections whose task runs                               *)
  auth,      (* per connection, the key it has authenticated                  *)
  held,      (* per connection, the event its task awaits a place in the queue *)
             (* for                                                           *)
  cache,     (* the duplicate filter: when the key was last added             *)
  queue,     (* the channel to the writer                                     *)
  writing,   (* the submission the writer works on                            *)
  running,   (* the writer has not returned                                   *)
  notices,   (* per connection, the answers on its notice channel             *)
  out,       (* the events that were ever stored or published                 *)
  now,       (* the clock                                                     *)
  asked,     (* history: per connection, EVENTs handled                       *)
  answered,  (* history: per connection, the OK messages it was sent          *)
  spam,      (* history: per connection, EVENTs refused as spam               *)
  lost,      (* history: per connection, EVENTs that get no answer            *)
  sent,      (* history: per connection, direct messages sent to it           *)
  passes,    (* history: per key, when the filter let it pass                 *)
  refused    (* history: per key, when the filter refused it                  *)

connVars == <<open, auth, held>>
writerVars == <<queue, writing, running>>
filterVars == <<cache, passes, refused>>
countVars == <<asked, answered, lost, spam>>
vars == <<connVars, writerVars, out, filterVars, countVars, notices, now, sent>>

Idle(c) == c \in open /\ held[c] = None

-----------------------------------------------------------------------------
(* EVENT                                                                    *)

IsExpired(e) == \E x \in e.exp : x <= now
IsValidTimestamp(e) == e.at <= now + MaxFuture

SpamByRule(e) ==
  \/ e.author \in Blocked /\ e.author \notin Exempt
  \/ e.text \in BlockedTexts

InWindow(e) == cache[KeyOf(e)] # None /\ now - cache[KeyOf(e)] < Window

\* A variant in which a duplicate starts the window anew.
CheckAndRefresh(e) == cache' = [cache EXCEPT ![KeyOf(e)] = now]

\* Looking up and adding is one step, under the mutex of the cache.
CheckAndAdd(e) ==
  IF InWindow(e) THEN UNCHANGED cache ELSE cache' = [cache EXCEPT ![KeyOf(e)] = now]

Asked(c) == asked[c] < MaxAsks[c] /\ asked' = [asked EXCEPT ![c] = @ + 1]
Answered(c) == answered' = [answered EXCEPT ![c] = @ + 1]

\* The event is not what it claims to be: OK false.
RefuseInvalid(c, e) ==
  /\ Idle(c) /\ e.form = "invalid"
  /\ Asked(c) /\ Answered(c)
  /\ UNCHANGED <<connVars, writerVars, out, filterVars, lost, spam, notices, now, sent>>

\* validate_delegation unwraps a signature that does not parse: the task is gone.
PanicOn(c, e) ==
  /\ Idle(c) /\ e.form = "panics"
  /\ open' = open \ {c}
  /\ notices' = [notices EXCEPT ![c] = <<>>]
  /\ UNCHANGED <<auth, held, writerVars, out, filterVars, countVars, now, sent>>

\* check_spam refuses it: a key, a text, or a duplicate. Two messages OK false are
\* sent, one made of a notice and one made by hand.
RefuseSpam(c, e) ==
  /\ Idle(c) /\ e.form = "valid"
  /\ \/ SpamByRule(e) /\ UNCHANGED filterVars
     \/ /\ ~SpamByRule(e) /\ InWindow(e)
        /\ CheckAndAdd(e)
        /\ refused' = [refused EXCEPT ![KeyOf(e)] = @ \cup {now}]
        /\ UNCHANGED passes
  /\ Asked(c) /\ answered' = [answered EXCEPT ![c] = @ + 2]
  /\ spam' = [spam EXCEPT ![c] = @ + 1]
  /\ UNCHANGED <<connVars, writerVars, out, lost, notices, now, sent>>

\* The filter is passed.
Pass(e) ==
  /\ e.form = "valid" /\ ~SpamByRule(e) /\ ~InWindow(e)
  /\ CheckAndAdd(e)
  /\ passes' = [passes EXCEPT ![KeyOf(e)] = Append(@, now)]
  /\ UNCHANGED refused

\* It is expired or too far in the future: OK false, and the filter keeps it.
RefuseTime(c, e) ==
  /\ Idle(c) /\ Pass(e)
  /\ IsExpired(e) \/ ~IsValidTimestamp(e)
  /\ Asked(c) /\ Answered(c)
  /\ UNCHANGED <<connVars, writerVars, out, lost, spam, notices, now, sent>>

\* It goes to the writer; the task waits until there is room in the queue. When
\* the writer has returned the send fails, and nobody answers.
Submit(c, e) ==
  /\ Idle(c) /\ Pass(e)
  /\ ~IsExpired(e) /\ IsValidTimestamp(e)
  /\ Asked(c)
  /\ \/ running /\ held' = [held EXCEPT ![c] = e] /\ UNCHANGED lost
     \/ ~running /\ lost' = [lost EXCEPT ![c] = @ + 1] /\ UNCHANGED held
  /\ UNCHANGED <<open, auth, writerVars, out, answered, spam, notices, now, sent>>

Enqueue(c) ==
  /\ c \in open /\ held[c] # None
  /\ \/ /\ running /\ Len(queue) < QueueCap
        /\ queue' = Append(queue, [event |-> held[c], conn |-> c])
        /\ UNCHANGED lost
     \/ /\ ~running
        /\ lost' = [lost EXCEPT ![c] = @ + 1]
        /\ UNCHANGED queue
  /\ held' = [held EXCEPT ![c] = None]
  /\ UNCHANGED <<open, auth, writing, running, out, filterVars, asked, answered, spam,
                 notices, now, sent>>

\* The task passes an answer of the writer on.
PassNotice(c) ==
  /\ Idle(c) /\ notices[c] # <<>>
  /\ notices' = [notices EXCEPT ![c] = Tail(@)]
  /\ Answered(c)
  /\ UNCHANGED <<connVars, writerVars, out, filterVars, asked, lost, spam, now, sent>>

-----------------------------------------------------------------------------
(* AUTH and what may be sent                                                *)

\* A variant in which any AUTH event replaces the key.
AuthenticateAgain(c, a) ==
  /\ Idle(c) /\ Nip42Auth
  /\ a.valid /\ a.at >= now - AuthWindow /\ a.at <= now + AuthWindow
  /\ a.challenge = c /\ a.relay
  /\ auth' = [auth EXCEPT ![c] = a.by]
  /\ UNCHANGED <<open, held, writerVars, out, filterVars, countVars, notices, now,
                 sent>>

\* The connection has sent a challenge and not had its answer: a valid event of
\* the right kind and age, with this challenge and for this relay.
Authenticate(c, a) ==
  /\ Idle(c) /\ Nip42Auth /\ auth[c] = None
  /\ a.valid /\ a.at >= now - AuthWindow /\ a.at <= now + AuthWindow
  /\ a.challenge = c /\ a.relay
  /\ auth' = [auth EXCEPT ![c] = a.by]
  /\ UNCHANGED <<open, held, writerVars, out, filterVars, countVars, notices, now,
                 sent>>

\* A direct message goes to its author and its first recipient only.
AllowedToSend(e, c) ==
  Nip42Dms /\ IsDirectMessage(e) =>
    /\ auth[c] # None /\ e.to # <<>>
    /\ auth[c] \in {e.author, e.to[1]}

\* By a query or as a broadcast.
Deliver(c, e) ==
  /\ Idle(c) /\ e \in out /\ AllowedToSend(e, c)
  /\ sent' = IF IsDirectMessage(e) THEN [sent EXCEPT ![c] = @ \cup {e}] ELSE sent
  /\ UNCHANGED <<connVars, writerVars, out, filterVars, countVars, notices, now>>

\* The client closes, errs or is timed out; its notices go with the task.
Disconnect(c) ==
  /\ Idle(c)
  /\ open' = open \ {c}
  /\ notices' = [notices EXCEPT ![c] = <<>>]
  /\ UNCHANGED <<auth, held, writerVars, out, filterVars, countVars, now, sent>>

-----------------------------------------------------------------------------
(* The writer                                                               *)

InQueue(c) == Cardinality({n \in 1..Len(queue) : queue[n].conn = c})
HasRoom(c) == c \in open /\ Len(notices[c]) < NoticeCap

\* A variant that waits for room in the notice channel.
NotifyAndWait(c) ==
  /\ c \in open => Len(notices[c]) < NoticeCap
  /\ notices' = IF c \in open THEN [notices EXCEPT ![c] = Append(@, "OK")] ELSE notices
  /\ UNCHANGED lost

\* A variant with a channel that has no bound.
NotifyAlways(c) ==
  IF c \in open
  THEN notices' = [notices EXCEPT ![c] = Append(@, "OK")] /\ UNCHANGED lost
  ELSE lost' = [lost EXCEPT ![c] = @ + 1] /\ UNCHANGED notices

\* try_send: the answer is dropped when the channel is full.
Notify(c) ==
  IF HasRoom(c)
  THEN notices' = [notices EXCEPT ![c] = Append(@, "OK")] /\ UNCHANGED lost
  ELSE lost' = [lost EXCEPT ![c] = @ + 1] /\ UNCHANGED notices

Take ==
  /\ running /\ writing = None /\ queue # <<>>
  /\ writing' = Head(queue)
  /\ queue' = Tail(queue)
  /\ UNCHANGED <<connVars, running, out, filterVars, countVars, notices, now, sent>>

\* The lists of kinds and authors.
PassesLists(e) ==
  /\ e.kind \notin BlockedKinds
  /\ AllowedKinds # None => e.kind \in AllowedKinds
  /\ ~PayToRelay /\ Whitelist # None => e.author \in Whitelist

\* With pay to relay the whitelist names those who need not pay.
Pays(e) == PayToRelay /\ (Whitelist # None => e.author \notin Whitelist)

\* Refused by a list, for want of a balance or of a valid NIP-05 record, or by the
\* service.
RefuseEvent ==
  /\ writing # None
  /\ ~PassesLists(writing.event) \/ Pays(writing.event) \/ Nip05 \/ Grpc
  /\ Notify(writing.conn)
  /\ writing' = None
  /\ UNCHANGED <<connVars, queue, running, out, filterVars, asked, answered, spam, now,
                 sent>>

\* The NIP-05 record cannot be read: the event is dropped without an answer.
DropSilently ==
  /\ writing # None /\ PassesLists(writing.event) /\ Nip05
  /\ lost' = [lost EXCEPT ![writing.conn] = @ + 1]
  /\ writing' = None
  /\ UNCHANGED <<connVars, queue, running, out, filterVars, asked, answered, spam,
                 notices, now, sent>>

\* A variant that forgets the answer to an ephemeral event.
PublishQuietly ==
  LET e == writing.event IN
  /\ writing # None /\ PassesLists(e)
  /\ out' = out \cup {e}
  /\ IF IsEphemeral(e) THEN UNCHANGED <<notices, lost>> ELSE Notify(writing.conn)
  /\ writing' = None
  /\ UNCHANGED <<connVars, queue, running, filterVars, asked, answered, spam, now, sent>>

\* An ephemeral event is broadcast; another one that is new is stored and broadcast.
Publish ==
  LET e == writing.event IN
  /\ writing # None /\ PassesLists(e)
  /\ out' = out \cup {e}
  /\ Notify(writing.conn)
  /\ writing' = None
  /\ UNCHANGED <<connVars, queue, running, filterVars, asked, answered, spam, now, sent>>

\* write_event returns 0 (it is there, deleted, or shadowed by a newer one), or fails.
NotWritten ==
  LET e == writing.event IN
  /\ writing # None /\ PassesLists(e) /\ ~IsEphemeral(e)
  /\ Notify(writing.conn)
  /\ writing' = None
  /\ UNCHANGED <<connVars, queue, running, out, filterVars, asked, answered, spam, now,
                 sent>>

\* The charge for what was published fails: the writer returns, its queue is closed
\* and what was in it gets no answer.
ChargeFails ==
  LET c == writing.conn IN
  /\ writing # None /\ PassesLists(writing.event) /\ Pays(writing.event)
  /\ out' = out \cup {writing.event}
  /\ notices' = IF HasRoom(c) THEN [notices EXCEPT ![c] = Append(@, "OK")] ELSE notices
  /\ lost' = [d \in Conns |-> lost[d] + InQueue(d) + IF d = c /\ ~HasRoom(c) THEN 1 ELSE 0]
  /\ writing' = None /\ running' = FALSE /\ queue' = <<>>
  /\ UNCHANGED <<connVars, filterVars, asked, answered, spam, now, sent>>

\* The server ends and the runtime with it: every task is dropped where it waits,
\* and what was on its way to the writer or back is gone.
Shutdown ==
  /\ running \/ open # {}
  /\ open' = {} /\ notices' = [c \in Conns |-> <<>>] /\ held' = [c \in Conns |-> None]
  /\ running' = FALSE /\ queue' = <<>> /\ writing' = None
  /\ UNCHANGED <<auth, out, filterVars, countVars, now, sent>>

Tick ==
  /\ now < MaxTime
  /\ now' = now + 1
  /\ UNCHANGED <<connVars, writerVars, out, filterVars, countVars, notices, sent>>

-----------------------------------------------------------------------------

Init ==
  /\ open = Conns /\ out = {} /\ now = 0
  /\ auth = [c \in Conns |-> None] /\ held = [c \in Conns |-> None]
  /\ cache = [k \in CacheKeys |-> None]
  /\ queue = <<>> /\ writing = None /\ running = TRUE
  /\ notices = [c \in Conns |-> <<>>] /\ sent = [c \in Conns |-> {}]
  /\ asked = [c \in Conns |-> 0] /\ answered = [c \in Conns |-> 0]
  /\ lost = [c \in Conns |-> 0] /\ spam = [c \in Conns |-> 0]
  /\ passes = [k \in CacheKeys |-> <<>>] /\ refused = [k \in CacheKeys |-> {}]

Finish == RefuseEvent \/ DropSilently \/ Publish \/ NotWritten \/ ChargeFails

Next ==
  \/ \E c \in Conns :
       \/ \E e \in Events : \/ RefuseInvalid(c, e) \/ PanicOn(c, e) \/ RefuseSpam(c, e)
                            \/ RefuseTime(c, e) \/ Submit(c, e) \/ Deliver(c, e)
       \/ \E a \in AuthEvents : Authenticate(c, a)
       \/ Enqueue(c) \/ PassNotice(c) \/ Disconnect(c)
  \/ Take \/ RefuseEvent \/ DropSilently \/ Publish \/ NotWritten \/ ChargeFails
  \/ Shutdown \/ Tick

Spec == Init /\ [][Next]_vars

\* The writer goes on as long as there is work, and the permits of its channel
\* are given in the order of the requests. Nothing makes a client read: the task
\* that passes an answer on may wait for it as long as the connection stands.
FairSpec ==
  /\ Spec /\ WF_vars(Take) /\ WF_vars(Finish)
  /\ \A c \in Conns : SF_vars(Enqueue(c))

-----------------------------------------------------------------------------
(* Properties                                                               *)

\* The variables range over what the code can put in them; a notice channel and
\* the queue stay within their capacity.
TypeOK ==
  /\ open \subseteq Conns /\ out \subseteq Events /\ now \in 0..MaxTime
  /\ auth \in [Conns -> Users \cup {None}] /\ held \in [Conns -> Events \cup {None}]
  /\ cache \in [CacheKeys -> 0..MaxTime \cup {None}]
  /\ queue \in Seq(Submissions) /\ Len(queue) <= QueueCap
  /\ writing \in Submissions \cup {None} /\ running \in BOOLEAN
  /\ notices \in [Conns -> Seq({"OK"})] /\ \A c \in Conns : Len(notices[c]) <= NoticeCap
  /\ asked \in [Conns -> Nat] /\ answered \in [Conns -> Nat] /\ lost \in [Conns -> Nat]
  /\ spam \in [Conns -> Nat]
  /\ sent \in [Conns -> SUBSET Events]
  /\ passes \in [CacheKeys -> Seq(0..MaxTime)] /\ refused \in [CacheKeys -> SUBSET (0..MaxTime)]

InHand(c) == IF held[c] = None THEN 0 ELSE 1
InWork(c) == IF writing # None THEN IF writing.conn = c THEN 1 ELSE 0 ELSE 0
Pending(c) == InHand(c) + InQueue(c) + InWork(c)
InNotices(c) == Len(notices[c])
Decided(c) == answered[c] + lost[c] + InNotices(c)

\* Every EVENT of a connection that stands has had its one OK, or its answer is one of
\* those that are known to be dropped or is on its way back, or it is in the task's hand,
\* in the queue, or with the writer; only what is refused as spam has a second OK. No
\* EVENT is answered by both tasks and none slips between them, the writer's end by a
\* failed charge included.
EveryAskAccounted == \A c \in open : asked[c] + spam[c] = Decided(c) + Pending(c)

\* The duplicate filter, which all connections share, lets the same text of the
\* same key pass once in a window, and refuses nothing that no passed event of the
\* window before accounts for: a client that repeats itself does not lengthen it.
DedupWindow ==
  \A k \in CacheKeys :
    /\ \A i, j \in DOMAIN passes[k] : i < j => passes[k][j] - passes[k][i] >= Window
    /\ \A r \in refused[k] :
         \E i \in DOMAIN passes[k] : passes[k][i] <= r /\ r < passes[k][i] + Window

\* With nip42_dms, whoever was sent a direct message has proved to be its author
\* or its first recipient, and is still nobody else. (config.toml names neither the
\* author nor the order of the recipients: OnlyRecipients.)
PrivateMessages ==
  Nip42Dms => \A c \in Conns : \A e \in sent[c] :
    e.to # <<>> /\ auth[c] \in {e.author, e.to[1]}

\* "Send DMs (kind 4 and 44) and gift wraps (kind 1059) only to their authenticated
\* recipients" (config.toml): whoever was sent a direct message has proved to be one of
\* those it is addressed to. Not so: the author gets it as well.
OnlyRecipients ==
  Nip42Dms => \A c \in Conns : \A e \in sent[c] :
    \E n \in DOMAIN e.to : auth[c] = e.to[n]

\* What a connection has given to the writer is dealt with, whether or not any
\* client reads its answers.
WorkEnds == \A c \in Conns : Pending(c) > 0 ~> Pending(c) = 0

=============================================================================
