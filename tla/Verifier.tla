------------------------------ MODULE Verifier ------------------------------
(***************************************************************************)
(* NIP-05 verification: the gate of the event writer for metadata events   *)
(* (db.rs), the verifier (nip05.rs), the table user_verification and, of   *)
(* the table event, the rows of kind 0 (repo/sqlite.rs), while web servers *)
(* answer as they like and the operator restarts the relay with other      *)
(* settings.                                                               *)
(*                                                                         *)
(* A profile is a metadata event: its author, created_at, and the name its *)
(* nip05 field has, NoName if it has none that parses. A row of            *)
(* user_verification is identified by its metadata event: a new row        *)
(* removes the others of its name. Instants are kept as ages, in units     *)
(* that are long compared with a transaction and with the verifier's sleep *)
(* of 250 ms. Beyond AgeCap only the order of the successes counts.        *)
(***************************************************************************)
EXTENDS Integers, Sequences, FiniteSets

CONSTANTS Profiles,     (* the metadata events that may be sent              *)
          NoName,
          NoProfile,
          Configs,      (* the settings the relay may be (re)started with    *)
          Expiration,   (* verify_expiration                                 *)
          Frequency,    (* verify_update_frequency                           *)
          Jitter,       (* what now_jitter adds at most                      *)
          MaxFailures,  (* max_consecutive_failures                          *)
          Capacity,     (* of the metadata channel (4096)                    *)
          MaxFaults     (* bound on errors and restarts                      *)

Authors == {e.author : e \in Profiles}
Names == {e.name : e \in Profiles} \ {NoName}

VerifierAssumption ==
  /\ \A e \in Profiles : e.at \in Nat
  /\ NoProfile \notin Profiles
  /\ \A c \in Configs : c.enabled \in BOOLEAN /\ c.denied \subseteq Names
  /\ Expiration \in Nat /\ Frequency \in Nat /\ Jitter \in Nat /\ MaxFailures \in Nat
  /\ Capacity \in Nat \ {0} /\ MaxFaults \in Nat

ASSUME VerifierAssumption

\* Ages from which on no comparison with a setting changes any more.
AgeCap == IF Expiration > Frequency THEN Expiration ELSE Frequency + 1
SaidCap == Expiration + Jitter

\* The ages of a success: the jitter puts one into the future.
Ages == {age \in Int : age >= 0 - Jitter}

VARIABLES
  config,    (* mode is enabled (else passive); denied: domains not allowed    *)
  profiles,  (* the rows of kind 0 in the table event                          *)
  verified,  (* the profiles with a row in user_verification                   *)
  ok,        (* per profile, the age of verified_at                            *)
  bad,       (* per profile, the age of failed_at; AgeCap also stands for none *)
  fails,     (* per profile, failure_count                                     *)
  feed,      (* the metadata channel, as far as the verifier has not read      *)
  writer,    (* the profile db_writer has forwarded and will write             *)
  verifier,  (* where the verifier is, and with which profile                  *)
  said,      (* history: per author and name, the age of the last proof        *)
  sent,      (* history: per profile, how often it was broadcast               *)
  faults     (* errors and restarts so far                                     *)

settingVars == <<config, faults>>
recordVars == <<verified, ok, bad, fails>>
historyVars == <<said, sent>>
vars == <<config, profiles, verified, ok, bad, fails, feed, writer, verifier,
          said, sent, faults>>

VerifierIdle == [at |-> "idle", event |-> NoProfile]

\* No row is in use: what the columns of a profile without one are set to.
Blank == [e \in Profiles |-> AgeCap]

Init ==
  /\ config \in Configs
  /\ profiles = {} /\ verified = {}
  /\ ok = Blank /\ bad = Blank /\ fails = [e \in Profiles |-> 0]
  /\ feed = <<>> /\ writer = NoProfile /\ verifier = VerifierIdle
  /\ said = [who \in Authors \X Names |-> SaidCap]
  /\ sent = [e \in Profiles |-> 0]
  /\ faults = 0

-----------------------------------------------------------------------------
(* The tables                                                               *)

IsDomainAllowed(name) == name \notin config.denied

\* A variant that forgets the expiration.
IsValidForever(e) == IsDomainAllowed(e.name)

\* is_valid: the last success is recent enough, and the domain is allowed.
IsValid(e) == ok[e] < Expiration /\ IsDomainAllowed(e.name)

\* The row get_latest_user_verification returns.
Latest(a) ==
  {e \in verified : e.author = a /\ \A f \in verified : f.author = a => f.at <= e.at}

Verified(a) == \E e \in Latest(a) : IsValid(e)

\* A variant that lets an equally old event in again.
IsOutdatedStrictly(e) == \E f \in profiles : f.author = e.author /\ f.at > e.at

\* write_event ignores a metadata event that is no newer than the author's.
IsOutdated(e) == \E f \in profiles : f.author = e.author /\ f.at >= e.at

\* The rows of the profiles in E, and no others, remain.
KeepRows(E) ==
  /\ verified' = verified \cap E
  /\ ok' = [e \in Profiles |-> IF e \in E THEN ok[e] ELSE AgeCap]
  /\ bad' = [e \in Profiles |-> IF e \in E THEN bad[e] ELSE AgeCap]
  /\ fails' = [e \in Profiles |-> IF e \in E THEN fails[e] ELSE 0]

\* A variant in which the rows of a replaced profile stay.
ReplacesNoRows(e) == UNCHANGED recordVars

\* ON DELETE CASCADE: with the author's older profiles their rows go.
ReplacesRows(e) == KeepRows({f \in Profiles : f.author # e.author})

\* write_event, for a metadata event, and the broadcast if it was new.
StoreAndBroadcast(e) ==
  IF IsOutdated(e) THEN UNCHANGED <<profiles, recordVars, sent>>
  ELSE /\ profiles' = {f \in profiles : f.author # e.author} \cup {e}
       /\ ReplacesRows(e)
       /\ sent' = [sent EXCEPT ![e] = @ + 1]

-----------------------------------------------------------------------------
(* The event writer                                                         *)

\* A variant without the bound.
ForwardUnbounded(e) == feed' = Append(feed, e)

\* A broadcast never waits; a slow reader loses the oldest event.
Forward(e) ==
  feed' = Append(IF Len(feed) < Capacity THEN feed ELSE Tail(feed), e)

\* A metadata event passes the gate, and the verifier is told before the event is
\* written. (An event that is refused changes nothing.)
AdmitProfile(e) ==
  /\ writer = NoProfile
  /\ config.enabled => Verified(e.author)
  /\ Forward(e)
  /\ writer' = e
  /\ UNCHANGED <<settingVars, profiles, recordVars, verifier, historyVars>>

WriteProfile ==
  /\ writer # NoProfile
  /\ StoreAndBroadcast(writer)
  /\ writer' = NoProfile
  /\ UNCHANGED <<settingVars, feed, verifier, said>>

WriteFails ==
  /\ writer # NoProfile /\ faults < MaxFaults
  /\ writer' = NoProfile
  /\ faults' = faults + 1
  /\ UNCHANGED <<config, profiles, recordVars, feed, verifier, historyVars>>

-----------------------------------------------------------------------------
(* The verifier: candidates                                                 *)

\* There is a name to check, and no record of this or a later profile.
IsCandidate(e) == e.name # NoName /\ \A f \in Latest(e.author) : e.at > f.at

TakeProfile ==
  /\ verifier = VerifierIdle /\ feed # <<>>
  /\ feed' = Tail(feed)
  /\ LET e == Head(feed) IN
     \/ /\ IsCandidate(e)
        /\ verifier' = [at |-> "candidate", event |-> e] /\ UNCHANGED faults
     \/ ~IsCandidate(e) /\ UNCHANGED <<verifier, faults>>
     \/ \* an error of the lookup counts as "no record"
        /\ e.name # NoName /\ faults < MaxFaults
        /\ verifier' = [at |-> "candidate", event |-> e] /\ faults' = faults + 1
  /\ UNCHANGED <<config, profiles, recordVars, writer, historyVars>>

\* What a web check may come to: a proof, a document without the name, no usable
\* answer; no request is made to a domain that is not allowed.
Answers(e) ==
  IF IsDomainAllowed(e.name) THEN {"Verified", "Unverified", "Unknown"}
  ELSE {"DomainNotAllowed"}

Proven(e) == said' = [said EXCEPT ![<<e.author, e.name>>] = 0]

CheckCandidate(answer) ==
  LET e == verifier.event IN
  /\ verifier.at = "candidate" /\ answer \in Answers(e)
  /\ \/ /\ answer = "Verified" /\ Proven(e)
        /\ verifier' = [verifier EXCEPT !.at = IF config.enabled THEN "store" ELSE "record"]
     \/ answer # "Verified" /\ verifier' = VerifierIdle /\ UNCHANGED said
  /\ UNCHANGED <<settingVars, profiles, recordVars, feed, writer, sent>>

\* create_new_verified_user writes the event itself, and goes on after an error.
StoreCandidate ==
  /\ verifier.at = "store"
  /\ \/ StoreAndBroadcast(verifier.event) /\ UNCHANGED faults
     \/ /\ faults < MaxFaults /\ faults' = faults + 1
        /\ UNCHANGED <<profiles, recordVars, sent>>
  /\ verifier' = [verifier EXCEPT !.at = "record"]
  /\ UNCHANGED <<config, feed, writer, said>>

WithName(e) == {f \in verified : f.name = e.name}

\* create_verification_record. Without a row in event the insert violates NOT NULL.
CreateRecord ==
  LET e == verifier.event
      rows == (verified \ WithName(e)) \cup {e}
  IN
  /\ verifier.at = "record"
  /\ \/ /\ e \in profiles
        /\ verified' = rows
        /\ ok' = [f \in Profiles |-> IF f = e THEN 0 ELSE IF f \in rows THEN ok[f] ELSE AgeCap]
        /\ bad' = [f \in Profiles |-> IF f \in rows \ {e} THEN bad[f] ELSE AgeCap]
        /\ fails' = [f \in Profiles |-> IF f \in rows \ {e} THEN fails[f] ELSE 0]
     \/ e \notin profiles /\ UNCHANGED recordVars
  /\ verifier' = VerifierIdle
  /\ UNCHANGED <<settingVars, profiles, feed, writer, historyVars>>

-----------------------------------------------------------------------------
(* The verifier: what was verified is verified again                        *)

IsDue(e) == e \in verified /\ ok[e] > Frequency /\ bad[e] > Frequency

\* The rows get_oldest_user_verification may return: the oldest success, and among
\* these the oldest failure; of failures beyond AgeCap any counts as the oldest.
Oldest ==
  {e \in Profiles : IsDue(e) /\ \A f \in Profiles :
     IsDue(f) => ok[f] < ok[e] \/ (ok[f] = ok[e] /\ bad[f] <= bad[e])}

Reverify ==
  /\ verifier = VerifierIdle
  /\ \E e \in Oldest : verifier' = [at |-> "reverify", event |-> e]
  /\ UNCHANGED <<settingVars, profiles, recordVars, feed, writer, historyVars>>

\* A variant that does not count.
CountFailureNot(n) == n

CountFailure(n) == n + 1

GivesUp(e) == fails[e] >= MaxFailures

\* do_reverify, from the answer on. The row may be gone by now: then the statement
\* finds nothing to change.
UpdateRecord(answer, jitter) ==
  LET e == verifier.event
      found == e \in verified
  IN
  /\ verifier.at = "reverify" /\ answer \in Answers(e)
  /\ \/ /\ answer = "Verified" /\ Proven(e)
        /\ ok' = IF found THEN [ok EXCEPT ![e] = 0 - jitter] ELSE ok
        /\ fails' = IF found THEN [fails EXCEPT ![e] = 0] ELSE fails
        /\ UNCHANGED <<verified, bad>>
     \/ /\ answer = "Unverified"
        /\ said' = [said EXCEPT ![<<e.author, e.name>>] = SaidCap]
        /\ KeepRows(Profiles \ {e})
     \/ /\ answer \in {"Unknown", "DomainNotAllowed"} /\ GivesUp(e)
        /\ KeepRows(Profiles \ {e})
        /\ UNCHANGED said
     \/ /\ answer \in {"Unknown", "DomainNotAllowed"} /\ ~GivesUp(e)
        /\ bad' = IF found THEN [bad EXCEPT ![e] = 0 - jitter] ELSE bad
        /\ fails' = IF found THEN [fails EXCEPT ![e] = CountFailure(@)] ELSE fails
        /\ UNCHANGED <<verified, ok, said>>
  /\ verifier' = VerifierIdle
  /\ UNCHANGED <<settingVars, profiles, feed, writer, sent>>

\* An error leaves run_internal; run starts it again.
VerifierFails ==
  /\ verifier # VerifierIdle /\ faults < MaxFaults
  /\ verifier' = VerifierIdle
  /\ faults' = faults + 1
  /\ UNCHANGED <<config, profiles, recordVars, feed, writer, historyVars>>

\* Whatever the verifier has begun.
VerifierStep ==
  \/ StoreCandidate \/ CreateRecord
  \/ \E answer \in {"Verified", "Unverified", "Unknown", "DomainNotAllowed"} :
       \/ CheckCandidate(answer)
       \/ \E jitter \in 0..Jitter : UpdateRecord(answer, jitter)

-----------------------------------------------------------------------------
(* Time, and restarts                                                       *)

Older(age, cap) == IF age < cap THEN age + 1 ELSE cap

\* The later successes among those that are now beyond AgeCap, which are numbered in
\* their order: the oldest is verified again first.
Beyond(e) == {ok[f] : f \in {g \in verified : ok[g] + 1 >= AgeCap /\ ok[g] < ok[e]}}

OlderSuccess(e) ==
  IF e \in verified /\ ok[e] >= AgeCap THEN AgeCap + Cardinality(Beyond(e))
  ELSE Older(ok[e], AgeCap)

Tick ==
  /\ verifier.at \notin {"store", "record"}
  /\ ok' = [e \in Profiles |-> OlderSuccess(e)]
  /\ bad' = [e \in Profiles |-> Older(bad[e], AgeCap)]
  /\ said' = [who \in Authors \X Names |-> Older(said[who], SaidCap)]
  /\ UNCHANGED <<settingVars, profiles, verified, fails, feed, writer, verifier, sent>>

\* The relay stops, and starts with the same or other settings.
Restart ==
  /\ faults < MaxFaults
  /\ config' \in Configs
  /\ feed' = <<>> /\ writer' = NoProfile /\ verifier' = VerifierIdle
  /\ faults' = faults + 1
  /\ UNCHANGED <<profiles, recordVars, historyVars>>

-----------------------------------------------------------------------------
Next ==
  \/ \E e \in Profiles : AdmitProfile(e)
  \/ WriteProfile \/ WriteFails
  \/ TakeProfile \/ Reverify \/ VerifierStep \/ VerifierFails
  \/ Tick \/ Restart

Spec == Init /\ [][Next]_vars

\* A web check ends by its timeout, and the verifier is a loop of the runtime;
\* select! polls its branches in random order, so that re-verification, which
\* candidates keep the verifier from, gets its turn. Time passes.
FairSpec ==
  /\ Spec
  /\ WF_vars(VerifierStep) /\ SF_vars(Reverify) /\ SF_vars(Tick)

-----------------------------------------------------------------------------
(* Properties                                                               *)

\* The shape of the state; the metadata channel keeps to its capacity.
TypeOK ==
  /\ config \in Configs
  /\ profiles \subseteq Profiles
  /\ verified \subseteq Profiles
  /\ ok \in [Profiles -> Ages]
  /\ bad \in [Profiles -> (0 - Jitter)..AgeCap]
  /\ fails \in [Profiles -> 0..MaxFailures]
  /\ feed \in Seq(Profiles) /\ Len(feed) <= Capacity
  /\ writer \in Profiles \cup {NoProfile}
  /\ verifier \in [at : {"idle", "candidate", "store", "record", "reverify"},
                   event : Profiles \cup {NoProfile}]
  /\ said \in [Authors \X Names -> 0..SaidCap]
  /\ sent \in [Profiles -> Nat]
  /\ faults \in 0..MaxFaults

\* The gate only opens to authors whose domain, one that is allowed now, has
\* proved them within the expiration time (and the jitter that is added to it),
\* and has not taken the name back when it was asked again.
VouchedFor ==
  \A a \in Authors : Verified(a) =>
    \E e \in verified : /\ e.author = a
                        /\ IsDomainAllowed(e.name)
                        /\ said[<<a, e.name>>] < Expiration + Jitter

\* "Delete everything else by this name", and the cascade of the replaced profile:
\* whatever the order in which writer and verifier write, a name has one holder,
\* an author one record, even one with two names, and the record is about the author's
\* profile of today. (docs/user-verification-nip05.md expects "multiple valid rows in the
\* verification table for a given author" for a time; the cascade leaves none.)
RecordsExclusive ==
  /\ verified \subseteq profiles
  /\ \A e, f \in verified : e.author = f.author \/ e.name = f.name => e = f

\* The writer and the verifier both store and broadcast a profile, but only one
\* of them, once.
BroadcastOnce == \A e \in Profiles : sent[e] <= 1

\* "After a configurable number of attempts, we should simply forget it": a record
\* whose success is overdue is refreshed or removed, however busy candidates keep
\* the verifier, and whatever the web answers.
RefreshedOrForgotten ==
  \A e \in Profiles :
    e \in verified /\ ok[e] > Frequency ~> e \notin verified \/ ok[e] <= Frequency

\* "Their old verification remains valid until expiration": no metadata event ends
\* its author's verification.
OldVerificationStands ==
  [][WriteProfile => \A a \in Authors : Verified(a) => Verified(a)']_vars

=============================================================================
