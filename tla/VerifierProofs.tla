--------------------------- MODULE VerifierProofs ---------------------------
(* Theorems of Verifier, for all profiles, settings, durations and bounds. *)
EXTENDS Verifier, FiniteSetTheorems, TLAPS

-----------------------------------------------------------------------------
(* The inductive invariant                                                  *)

\* The verifier works on a profile that has a name.
TaskInv ==
  verifier.at # "idle" => verifier.event \in Profiles /\ verifier.event.name # NoName

\* The tables: one profile per author; records are about stored profiles that have
\* a name, and no two share it.
TableInv ==
  /\ \A e, f \in profiles : e.author = f.author => e = f
  /\ verified \subseteq profiles
  /\ \A e \in verified : e.name # NoName
  /\ \A e, f \in verified : e.name = f.name => e = f

\* What was broadcast is in the table, or something no older of its author is.
SentInv ==
  \A e \in Profiles : sent[e] # 0 =>
    sent[e] = 1 /\ \E f \in profiles : f.author = e.author /\ f.at >= e.at

\* A record is no younger than the proof it rests on, but for the jitter; the
\* proof of a candidate is fresh until the record is made; while a record is
\* checked again, no other record has its name, even if it is gone itself.
ProofInv ==
  /\ \A e \in verified : said[<<e.author, e.name>>] <= ok[e] + Jitter
  /\ verifier.at \in {"store", "record"} =>
       said[<<verifier.event.author, verifier.event.name>>] = 0
  /\ verifier.at = "reverify" =>
       \A f \in verified : f.name = verifier.event.name => f = verifier.event

IInv == TypeOK /\ TaskInv /\ TableInv /\ SentInv /\ ProofInv

-----------------------------------------------------------------------------
(* Ages                                                                     *)

LEMMA Caps ==
  /\ AgeCap \in Nat /\ SaidCap \in Nat
  /\ AgeCap >= Expiration /\ SaidCap = Expiration + Jitter
  /\ 0 \in (0 - Jitter)..AgeCap /\ AgeCap \in (0 - Jitter)..AgeCap
  /\ 0 \in Ages /\ AgeCap \in Ages
  /\ \A j \in 0..Jitter : 0 - j \in (0 - Jitter)..AgeCap /\ 0 - j \in Ages
BY VerifierAssumption DEF VerifierAssumption, AgeCap, SaidCap, Ages

\* A success that is beyond AgeCap stays there.
LEMMA OlderSuccessIsAge ==
  ASSUME VerifierAssumption, verified \subseteq Profiles, ok \in [Profiles -> Ages],
         NEW e \in Profiles
  PROVE  /\ OlderSuccess(e) \in Ages
         /\ OlderSuccess(e) >= ok[e] + 1 \/ OlderSuccess(e) >= AgeCap
<1>1. AgeCap \in Nat /\ Jitter \in Nat /\ ok[e] \in Int /\ ok[e] >= 0 - Jitter
  BY Caps DEF Ages, VerifierAssumption
<1>2. CASE e \in verified /\ ok[e] >= AgeCap
  <2>1. Beyond(e) \subseteq (AgeCap - 1)..ok[e]
    <3>1. \A f \in verified : ok[f] \in Int
      BY DEF Ages
    <3>2. QED
      BY <1>1, <3>1 DEF Beyond
  <2>2. Cardinality(Beyond(e)) \in Nat
    <3>1. IsFiniteSet((AgeCap - 1)..ok[e])
      BY <1>1, FS_Interval
    <3>2. IsFiniteSet(Beyond(e))
      BY <2>1, <3>1, FS_Subset
    <3>3. QED
      BY <3>2, FS_CardinalityType
  <2>3. QED
    BY <1>1, <1>2, <2>2 DEF OlderSuccess, Ages
<1>3. CASE ~(e \in verified /\ ok[e] >= AgeCap)
  BY <1>1, <1>3 DEF OlderSuccess, Older, Ages
<1>4. QED
  BY <1>2, <1>3

LEMMA Identities ==
  \A e \in Profiles : /\ e.author \in Authors
                      /\ e.name # NoName => <<e.author, e.name>> \in Authors \X Names
BY DEF Authors, Names

-----------------------------------------------------------------------------
(* What the invariant implies, and that it holds at first                   *)

LEMMA InvImplies == IInv => VouchedFor /\ RecordsExclusive /\ BroadcastOnce
<1> SUFFICES ASSUME IInv PROVE VouchedFor /\ RecordsExclusive /\ BroadcastOnce
  OBVIOUS
<1>1. VouchedFor
  <2> SUFFICES ASSUME NEW a \in Authors, Verified(a)
               PROVE  \E e \in verified : /\ e.author = a
                                          /\ IsDomainAllowed(e.name)
                                          /\ said[<<a, e.name>>] < Expiration + Jitter
    BY DEF VouchedFor
  <2>1. PICK e \in Latest(a) : IsValid(e)
    BY DEF Verified
  <2>2. /\ e \in verified /\ e.author = a
        /\ ok[e] < Expiration /\ IsDomainAllowed(e.name)
    BY <2>1 DEF Latest, IsValid
  <2>3. said[<<a, e.name>>] <= ok[e] + Jitter
    BY <2>2 DEF IInv, ProofInv
  <2>4. e \in Profiles /\ e.name # NoName
    BY <2>2 DEF IInv, TypeOK, TableInv
  <2>5. ok[e] \in Int /\ said[<<a, e.name>>] \in Int
    BY <2>2, <2>4, Identities, Caps DEF IInv, TypeOK, Ages
  <2>6. said[<<a, e.name>>] < Expiration + Jitter
    BY <2>2, <2>3, <2>5, VerifierAssumption DEF VerifierAssumption
  <2>7. QED
    BY <2>2, <2>6
<1>2. RecordsExclusive
  BY DEF IInv, TableInv, RecordsExclusive
<1>3. BroadcastOnce
  <2> SUFFICES ASSUME NEW e \in Profiles PROVE sent[e] <= 1
    BY DEF BroadcastOnce
  <2>1. sent[e] = 0 \/ sent[e] = 1
    BY DEF IInv, SentInv
  <2>2. QED
    BY <2>1
<1>4. QED
  BY <1>1, <1>2, <1>3

LEMMA InitInv == Init => IInv
<1> SUFFICES ASSUME Init PROVE IInv
  OBVIOUS
<1>1. TypeOK
  <2>1. ok \in [Profiles -> Ages] /\ bad \in [Profiles -> (0 - Jitter)..AgeCap]
    BY Caps DEF Init, Blank
  <2>2. fails \in [Profiles -> 0..MaxFailures] /\ sent \in [Profiles -> Nat]
    BY VerifierAssumption DEF Init, VerifierAssumption
  <2>3. said \in [Authors \X Names -> 0..SaidCap]
    BY Caps DEF Init
  <2>4. verifier \in [at : {"idle", "candidate", "store", "record", "reverify"},
                      event : Profiles \cup {NoProfile}]
    BY DEF Init, VerifierIdle
  <2>5. feed \in Seq(Profiles) /\ Len(feed) <= Capacity /\ faults \in 0..MaxFaults
    BY VerifierAssumption DEF Init, VerifierAssumption
  <2>6. QED
    BY <2>1, <2>2, <2>3, <2>4, <2>5 DEF Init, TypeOK
<1>2. TaskInv /\ TableInv /\ SentInv /\ ProofInv
  BY DEF Init, VerifierIdle, TaskInv, TableInv, SentInv, ProofInv
<1>3. QED
  BY <1>1, <1>2 DEF IInv

-----------------------------------------------------------------------------
(* Pieces of steps                                                          *)

\* What TypeOK says of the columns of the records, and of the tables' relation.
RecordsTyped ==
  /\ verified \subseteq Profiles
  /\ ok \in [Profiles -> Ages]
  /\ bad \in [Profiles -> (0 - Jitter)..AgeCap]
  /\ fails \in [Profiles -> 0..MaxFailures]

\* Removing rows keeps the columns' types, and what remains is as it was.
LEMMA KeepRowsKeeps ==
  ASSUME IInv, NEW E \in SUBSET Profiles, KeepRows(E)
  PROVE  /\ RecordsTyped'
         /\ verified' = verified \cap E
         /\ \A e \in verified' : ok'[e] = ok[e]
<1>1. /\ verified \subseteq Profiles
      /\ ok \in [Profiles -> Ages]
      /\ bad \in [Profiles -> (0 - Jitter)..AgeCap]
      /\ fails \in [Profiles -> 0..MaxFailures]
  BY DEF IInv, TypeOK
<1>2. ok' \in [Profiles -> Ages]
  BY <1>1, Caps DEF KeepRows
<1>3. bad' \in [Profiles -> (0 - Jitter)..AgeCap]
  BY <1>1, Caps DEF KeepRows
<1>4. fails' \in [Profiles -> 0..MaxFailures]
  BY <1>1, VerifierAssumption DEF KeepRows, VerifierAssumption
<1>5. verified' = verified \cap E
  BY DEF KeepRows
<1>6. \A e \in verified' : ok'[e] = ok[e]
  BY <1>1, <1>5 DEF KeepRows
<1>7. QED
  BY <1>1, <1>2, <1>3, <1>4, <1>5, <1>6 DEF RecordsTyped

\* What write_event and the broadcast keep: types, tables, what was sent.
LEMMA StoreKeeps ==
  ASSUME IInv, NEW e \in Profiles, StoreAndBroadcast(e)
  PROVE  /\ RecordsTyped' /\ TableInv' /\ SentInv'
         /\ profiles' \subseteq Profiles /\ sent' \in [Profiles -> Nat]
         /\ verified' \subseteq verified
         /\ \A f \in verified' : ok'[f] = ok[f]
<1>0. /\ RecordsTyped /\ TableInv /\ SentInv
      /\ profiles \subseteq Profiles /\ sent \in [Profiles -> Nat]
  BY DEF IInv, TypeOK, RecordsTyped
<1>1. CASE IsOutdated(e)
  <2>1. UNCHANGED <<profiles, recordVars, sent>>
    BY <1>1 DEF StoreAndBroadcast
  <2>2. UNCHANGED <<profiles, verified, ok, bad, fails, sent>>
    BY <2>1 DEF recordVars
  <2>3. RecordsTyped' /\ TableInv' /\ SentInv'
    BY <1>0, <2>2 DEF RecordsTyped, TableInv, SentInv
  <2>4. QED
    BY <1>0, <2>2, <2>3
<1>2. CASE ~IsOutdated(e)
  <2> DEFINE others == {f \in Profiles : f.author # e.author}
  <2>1. /\ profiles' = {f \in profiles : f.author # e.author} \cup {e}
        /\ KeepRows(others)
        /\ sent' = [sent EXCEPT ![e] = @ + 1]
    BY <1>2 DEF StoreAndBroadcast, ReplacesRows
  <2>2. /\ RecordsTyped'
        /\ verified' = verified \cap others
        /\ \A f \in verified' : ok'[f] = ok[f]
    BY <2>1, KeepRowsKeeps
  <2>3. TableInv'
    <3>1. \A f, g \in profiles' : f.author = g.author => f = g
      BY <1>0, <2>1 DEF TableInv
    <3>2. verified' \subseteq profiles'
      BY <1>0, <2>1, <2>2 DEF TableInv
    <3>3. /\ \A f \in verified' : f.name # NoName
          /\ \A f, g \in verified' : f.name = g.name => f = g
      BY <1>0, <2>2 DEF TableInv
    <3>4. QED
      BY <3>1, <3>2, <3>3 DEF TableInv
  <2>4. profiles' \subseteq Profiles /\ sent' \in [Profiles -> Nat]
    BY <1>0, <2>1
  <2>5. sent[e] = 0
    \* else something no older of the author would be in the table
    BY <1>0, <1>2 DEF SentInv, IsOutdated
  <2>6. SentInv'
    <3> SUFFICES ASSUME NEW g \in Profiles, sent'[g] # 0
                 PROVE  /\ sent'[g] = 1
                        /\ \E f \in profiles' : f.author = g.author /\ f.at >= g.at
      BY DEF SentInv
    <3>1. CASE g = e
      <4>1. sent'[g] = 1
        BY <1>0, <2>1, <2>5, <3>1
      <4>2. e \in profiles' /\ e.at >= g.at
        BY <2>1, <3>1, VerifierAssumption DEF VerifierAssumption
      <4>3. QED
        BY <4>1, <4>2, <3>1
    <3>2. CASE g # e
      <4>1. sent'[g] = sent[g]
        BY <1>0, <2>1, <3>2
      <4>2. PICK f \in profiles : f.author = g.author /\ f.at >= g.at
        BY <1>0, <4>1 DEF SentInv
      <4>3. sent'[g] = 1
        BY <1>0, <4>1 DEF SentInv
      <4>4. CASE f.author # e.author
        BY <2>1, <4>2, <4>3, <4>4
      <4>5. CASE f.author = e.author
        <5>1. e.at > f.at
          BY <1>0, <1>2, <4>2, <4>5, VerifierAssumption DEF IsOutdated, VerifierAssumption
        <5>2. e \in profiles' /\ e.author = g.author /\ e.at >= g.at
          BY <1>0, <2>1, <4>2, <4>5, <5>1, VerifierAssumption DEF VerifierAssumption
        <5>3. QED
          BY <4>3, <5>2
      <4>6. QED
        BY <4>4, <4>5
    <3>3. QED
      BY <3>1, <3>2
  <2>7. QED
    BY <2>2, <2>3, <2>4, <2>6
<1>3. QED
  BY <1>1, <1>2

\* The metadata channel keeps its type and its capacity.
LEMMA ForwardKeeps ==
  ASSUME TypeOK, NEW e \in Profiles, Forward(e)
  PROVE  feed' \in Seq(Profiles) /\ Len(feed') <= Capacity
<1>1. feed \in Seq(Profiles) /\ Len(feed) <= Capacity /\ Capacity \in Nat \ {0}
  BY VerifierAssumption DEF TypeOK, VerifierAssumption
<1>2. CASE Len(feed) < Capacity
  BY <1>1, <1>2 DEF Forward
<1>3. CASE ~(Len(feed) < Capacity)
  <2>1. feed # <<>>
    BY <1>1, <1>3
  <2>2. Tail(feed) \in Seq(Profiles) /\ Len(Tail(feed)) = Len(feed) - 1
    BY <1>1, <2>1
  <2>3. QED
    BY <1>1, <1>3, <2>2 DEF Forward
<1>4. QED
  BY <1>2, <1>3

-----------------------------------------------------------------------------
(* The steps of the writer                                                  *)

LEMMA AdmitStep ==
  ASSUME IInv, NEW e \in Profiles, AdmitProfile(e)
  PROVE  IInv'
<1>1. UNCHANGED <<config, faults, profiles, verified, ok, bad, fails, verifier, said, sent>>
  BY DEF AdmitProfile, settingVars, recordVars, historyVars
<1>2. feed' \in Seq(Profiles) /\ Len(feed') <= Capacity
  BY ForwardKeeps DEF IInv, AdmitProfile
<1>3. writer' \in Profiles
  BY DEF AdmitProfile
<1>4. TypeOK'
  BY <1>1, <1>2, <1>3 DEF IInv, TypeOK
<1>5. TaskInv' /\ TableInv' /\ SentInv' /\ ProofInv'
  BY <1>1 DEF IInv, TaskInv, TableInv, SentInv, ProofInv
<1>6. QED
  BY <1>4, <1>5 DEF IInv

\* Whoever writes a profile keeps the invariant, if the verifier afterwards is at
\* work on what it was, or at rest.
LEMMA WriteKeeps ==
  ASSUME IInv, NEW e \in Profiles, StoreAndBroadcast(e), UNCHANGED said
  PROVE  /\ RecordsTyped' /\ TableInv' /\ SentInv'
         /\ profiles' \subseteq Profiles /\ sent' \in [Profiles -> Nat]
         /\ verified' \subseteq verified
         /\ \A f \in verified' : said'[<<f.author, f.name>>] <= ok'[f] + Jitter
<1>1. /\ RecordsTyped' /\ TableInv' /\ SentInv'
      /\ profiles' \subseteq Profiles /\ sent' \in [Profiles -> Nat]
      /\ verified' \subseteq verified
      /\ \A f \in verified' : ok'[f] = ok[f]
  BY StoreKeeps
<1>2. \A f \in verified' : said'[<<f.author, f.name>>] <= ok'[f] + Jitter
  BY <1>1 DEF IInv, ProofInv
<1>3. QED
  BY <1>1, <1>2

LEMMA WriteStep ==
  ASSUME IInv, WriteProfile
  PROVE  IInv'
<1>1. /\ writer \in Profiles /\ StoreAndBroadcast(writer) /\ writer' = NoProfile
      /\ UNCHANGED <<config, faults, feed, verifier, said>>
  BY DEF WriteProfile, settingVars, IInv, TypeOK
<1>2. /\ RecordsTyped' /\ TableInv' /\ SentInv'
      /\ profiles' \subseteq Profiles /\ sent' \in [Profiles -> Nat]
      /\ verified' \subseteq verified
      /\ \A f \in verified' : said'[<<f.author, f.name>>] <= ok'[f] + Jitter
  BY <1>1, WriteKeeps
<1>3. TypeOK'
  BY <1>1, <1>2 DEF IInv, TypeOK, RecordsTyped
<1>4. TaskInv' /\ ProofInv'
  BY <1>1, <1>2 DEF IInv, TaskInv, ProofInv
<1>5. QED
  BY <1>2, <1>3, <1>4 DEF IInv

\* Errors and restarts change no table and leave the verifier as it is or at rest.
LEMMA FaultStep ==
  ASSUME IInv, WriteFails \/ VerifierFails \/ Restart
  PROVE  IInv'
<1>1. /\ UNCHANGED <<profiles, verified, ok, bad, fails, said, sent>>
      /\ faults < MaxFaults /\ faults' = faults + 1
      /\ config' \in Configs
      /\ feed' = feed \/ feed' = <<>>
      /\ writer' = writer \/ writer' = NoProfile
      /\ verifier' = verifier \/ verifier' = VerifierIdle
  <2>1. config \in Configs
    BY DEF IInv, TypeOK
  <2>2. CASE WriteFails
    BY <2>1, <2>2 DEF WriteFails, recordVars, historyVars
  <2>3. CASE VerifierFails
    BY <2>1, <2>3 DEF VerifierFails, recordVars, historyVars
  <2>4. CASE Restart
    BY <2>4 DEF Restart, recordVars, historyVars
  <2>5. QED
    BY <2>2, <2>3, <2>4
<1>2. feed' \in Seq(Profiles) /\ Len(feed') <= Capacity
  <2>1. feed \in Seq(Profiles) /\ Len(feed) <= Capacity
    BY DEF IInv, TypeOK
  <2>2. CASE feed' = <<>>
    BY <2>2, VerifierAssumption DEF VerifierAssumption
  <2>3. QED
    BY <1>1, <2>1, <2>2
<1>3. faults' \in 0..MaxFaults
  BY <1>1, VerifierAssumption DEF IInv, TypeOK, VerifierAssumption
<1>4. VerifierIdle \in [at : {"idle", "candidate", "store", "record", "reverify"},
                        event : Profiles \cup {NoProfile}]
  BY DEF VerifierIdle
<1>5. TypeOK'
  BY <1>1, <1>2, <1>3, <1>4 DEF IInv, TypeOK
<1>6. TableInv' /\ SentInv'
  BY <1>1 DEF IInv, TableInv, SentInv
<1>7. TaskInv' /\ ProofInv'
  BY <1>1 DEF IInv, TaskInv, ProofInv, VerifierIdle
<1>8. QED
  BY <1>5, <1>6, <1>7 DEF IInv

-----------------------------------------------------------------------------
(* The steps of the verifier                                                *)

LEMMA TakeStep ==
  ASSUME IInv, TakeProfile
  PROVE  IInv'
<1>0. /\ UNCHANGED <<config, profiles, verified, ok, bad, fails, writer, said, sent>>
      /\ feed # <<>> /\ feed' = Tail(feed) /\ verifier = VerifierIdle
  BY DEF TakeProfile, recordVars, historyVars
<1>1. feed \in Seq(Profiles) /\ Len(feed) <= Capacity /\ Capacity \in Nat
  BY VerifierAssumption DEF IInv, TypeOK, VerifierAssumption
<1>2. Head(feed) \in Profiles /\ feed' \in Seq(Profiles) /\ Len(feed') <= Capacity
  BY <1>0, <1>1
<1>3. \/ verifier' = verifier
      \/ /\ verifier' = [at |-> "candidate", event |-> Head(feed)]
         /\ Head(feed).name # NoName
  BY DEF TakeProfile, IsCandidate
<1>4. faults' = faults \/ (faults < MaxFaults /\ faults' = faults + 1)
  BY DEF TakeProfile
<1>5. faults' \in 0..MaxFaults
  BY <1>4, VerifierAssumption DEF IInv, TypeOK, VerifierAssumption
<1>6. verifier' \in [at : {"idle", "candidate", "store", "record", "reverify"},
                      event : Profiles \cup {NoProfile}]
  BY <1>2, <1>3 DEF IInv, TypeOK
<1>7. TypeOK'
  BY <1>0, <1>2, <1>5, <1>6 DEF IInv, TypeOK
<1>8. TaskInv'
  BY <1>2, <1>3 DEF IInv, TaskInv
<1>9. TableInv' /\ SentInv' /\ ProofInv'
  BY <1>0, <1>3 DEF IInv, TableInv, SentInv, ProofInv, VerifierIdle
<1>10. QED
  BY <1>7, <1>8, <1>9 DEF IInv

LEMMA ReverifyStep ==
  ASSUME IInv, Reverify
  PROVE  IInv'
<1>1. PICK e \in Oldest : verifier' = [at |-> "reverify", event |-> e]
  BY DEF Reverify
<1>2. e \in verified /\ e \in Profiles /\ e.name # NoName
  BY <1>1 DEF Oldest, IsDue, IInv, TableInv
<1>3. UNCHANGED <<config, faults, profiles, verified, ok, bad, fails, feed, writer, said, sent>>
  BY DEF Reverify, settingVars, recordVars, historyVars
<1>4. TypeOK'
  BY <1>1, <1>2, <1>3 DEF IInv, TypeOK
<1>5. TaskInv' /\ TableInv' /\ SentInv' /\ ProofInv'
  BY <1>1, <1>2, <1>3 DEF IInv, TaskInv, TableInv, SentInv, ProofInv
<1>6. QED
  BY <1>4, <1>5 DEF IInv

\* What a proof does to the history.
LEMMA ProvenSays ==
  ASSUME IInv, NEW e \in Profiles, e.name # NoName, Proven(e)
  PROVE  /\ said' \in [Authors \X Names -> 0..SaidCap]
         /\ said'[<<e.author, e.name>>] = 0
         /\ \A f \in verified : said'[<<f.author, f.name>>] <= ok[f] + Jitter
<1>1. said \in [Authors \X Names -> 0..SaidCap] /\ <<e.author, e.name>> \in Authors \X Names
  BY Identities DEF IInv, TypeOK
<1>2. 0 \in 0..SaidCap
  BY Caps
<1>3. /\ said' \in [Authors \X Names -> 0..SaidCap]
      /\ said'[<<e.author, e.name>>] = 0
      /\ \A who \in Authors \X Names : said'[who] = 0 \/ said'[who] = said[who]
  BY <1>1, <1>2 DEF Proven
<1>4. ASSUME NEW f \in verified
      PROVE  said'[<<f.author, f.name>>] <= ok[f] + Jitter
  <2>1. f \in Profiles /\ f.name # NoName
    BY DEF IInv, TypeOK, TableInv
  <2>2. <<f.author, f.name>> \in Authors \X Names
    BY <2>1, Identities
  <2>3. ok[f] \in Ages /\ said[<<f.author, f.name>>] <= ok[f] + Jitter
    BY <2>1 DEF IInv, TypeOK, ProofInv
  <2>4. 0 <= ok[f] + Jitter
    BY <2>3, Caps, VerifierAssumption DEF VerifierAssumption, Ages
  <2>5. QED
    BY <1>3, <2>2, <2>3, <2>4
<1>5. QED
  BY <1>3, <1>4

LEMMA CheckStep ==
  ASSUME IInv, NEW answer, CheckCandidate(answer)
  PROVE  IInv'
<1> DEFINE e == verifier.event
<1>0. /\ UNCHANGED <<config, faults, profiles, verified, ok, bad, fails, feed, writer, sent>>
      /\ verifier.at = "candidate"
  BY DEF CheckCandidate, settingVars, recordVars
<1>1. e \in Profiles /\ e.name # NoName
  BY <1>0 DEF IInv, TaskInv
<1>2. verifier \in [at : {"idle", "candidate", "store", "record", "reverify"},
                    event : Profiles \cup {NoProfile}]
  BY DEF IInv, TypeOK
<1>3. CASE Proven(e) /\ \E place \in {"store", "record"} :
             verifier' = [verifier EXCEPT !.at = place]
  <2>1. /\ verifier'.event = e /\ verifier'.at \in {"store", "record"}
        /\ verifier' \in [at : {"idle", "candidate", "store", "record", "reverify"},
                           event : Profiles \cup {NoProfile}]
    BY <1>2, <1>3
  <2>2. /\ said' \in [Authors \X Names -> 0..SaidCap]
        /\ said'[<<e.author, e.name>>] = 0
        /\ \A f \in verified : said'[<<f.author, f.name>>] <= ok[f] + Jitter
    BY <1>1, <1>3, ProvenSays
  <2>3. TypeOK'
    BY <1>0, <2>1, <2>2 DEF IInv, TypeOK
  <2>4. TaskInv' /\ TableInv' /\ SentInv'
    BY <1>0, <1>1, <2>1 DEF IInv, TaskInv, TableInv, SentInv
  <2>5. ProofInv'
    BY <1>0, <2>1, <2>2 DEF ProofInv
  <2>6. QED
    BY <2>3, <2>4, <2>5 DEF IInv
<1>4. CASE verifier' = VerifierIdle /\ UNCHANGED said
  <2>1. TypeOK'
    BY <1>0, <1>4 DEF IInv, TypeOK, VerifierIdle
  <2>2. TaskInv' /\ TableInv' /\ SentInv' /\ ProofInv'
    BY <1>0, <1>4 DEF IInv, TaskInv, TableInv, SentInv, ProofInv, VerifierIdle
  <2>3. QED
    BY <2>1, <2>2 DEF IInv
<1>5. QED
  BY <1>3, <1>4 DEF CheckCandidate

LEMMA StoreCandidateStep ==
  ASSUME IInv, StoreCandidate
  PROVE  IInv'
<1> DEFINE e == verifier.event
<1>0. /\ verifier.at = "store" /\ verifier' = [verifier EXCEPT !.at = "record"]
      /\ UNCHANGED <<config, feed, writer, said>>
  BY DEF StoreCandidate
<1>1. e \in Profiles /\ e.name # NoName
  BY <1>0 DEF IInv, TaskInv
<1>2. /\ verifier' \in [at : {"idle", "candidate", "store", "record", "reverify"},
                         event : Profiles \cup {NoProfile}]
      /\ verifier'.event = e /\ verifier'.at = "record"
  BY <1>0 DEF IInv, TypeOK
<1>3. /\ faults' \in 0..MaxFaults
      /\ RecordsTyped' /\ TableInv' /\ SentInv'
      /\ profiles' \subseteq Profiles /\ sent' \in [Profiles -> Nat]
      /\ \A f \in verified' : said'[<<f.author, f.name>>] <= ok'[f] + Jitter
  <2>1. CASE StoreAndBroadcast(e) /\ UNCHANGED faults
    <3>1. faults' \in 0..MaxFaults
      BY <2>1 DEF IInv, TypeOK
    <3>2. QED
      BY <1>0, <1>1, <2>1, <3>1, WriteKeeps
  <2>2. CASE /\ faults < MaxFaults /\ faults' = faults + 1
             /\ UNCHANGED <<profiles, recordVars, sent>>
    <3>1. UNCHANGED <<profiles, verified, ok, bad, fails, sent, said>>
      BY <1>0, <2>2 DEF recordVars
    <3>2. faults' \in 0..MaxFaults
      BY <2>2, VerifierAssumption DEF IInv, TypeOK, VerifierAssumption
    <3>3. RecordsTyped'
      BY <3>1 DEF IInv, TypeOK, RecordsTyped
    <3>4. TableInv' /\ SentInv'
      BY <3>1 DEF IInv, TableInv, SentInv
    <3>5. profiles' \subseteq Profiles /\ sent' \in [Profiles -> Nat]
      BY <3>1 DEF IInv, TypeOK
    <3>6. \A f \in verified' : said'[<<f.author, f.name>>] <= ok'[f] + Jitter
      BY <3>1 DEF IInv, ProofInv
    <3>7. QED
      BY <3>2, <3>3, <3>4, <3>5, <3>6
  <2>3. QED
    BY <2>1, <2>2 DEF StoreCandidate
<1>4. TypeOK'
  BY <1>0, <1>2, <1>3 DEF IInv, TypeOK, RecordsTyped
<1>5. TaskInv'
  BY <1>1, <1>2 DEF TaskInv
<1>6. ProofInv'
  BY <1>0, <1>2, <1>3 DEF IInv, ProofInv
<1>7. QED
  BY <1>3, <1>4, <1>5, <1>6 DEF IInv

LEMMA CreateStep ==
  ASSUME IInv, CreateRecord
  PROVE  IInv'
<1> DEFINE e == verifier.event
           rows == (verified \ WithName(e)) \cup {e}
<1>0. /\ verifier.at = "record" /\ verifier' = VerifierIdle
      /\ UNCHANGED <<config, faults, profiles, feed, writer, said, sent>>
  BY DEF CreateRecord, settingVars, historyVars
<1>1. e \in Profiles /\ e.name # NoName /\ said[<<e.author, e.name>>] = 0
  BY <1>0 DEF IInv, TaskInv, ProofInv
<1>2. RecordsTyped /\ TableInv /\ SentInv
  BY DEF IInv, TypeOK, RecordsTyped
<1>3. /\ RecordsTyped' /\ TableInv'
      /\ \A f \in verified' : said'[<<f.author, f.name>>] <= ok'[f] + Jitter
  <2>1. CASE e \notin profiles /\ UNCHANGED recordVars
    <3>1. UNCHANGED <<verified, ok, bad, fails>>
      BY <2>1 DEF recordVars
    <3>2. RecordsTyped' /\ TableInv'
      BY <1>0, <1>2, <3>1 DEF RecordsTyped, TableInv
    <3>3. \A f \in verified' : said'[<<f.author, f.name>>] <= ok'[f] + Jitter
      BY <1>0, <3>1 DEF IInv, ProofInv
    <3>4. QED
      BY <3>2, <3>3
  <2>2. CASE /\ e \in profiles
             /\ verified' = rows
             /\ ok' = [f \in Profiles |-> IF f = e THEN 0 ELSE IF f \in rows THEN ok[f] ELSE AgeCap]
             /\ bad' = [f \in Profiles |-> IF f \in rows \ {e} THEN bad[f] ELSE AgeCap]
             /\ fails' = [f \in Profiles |-> IF f \in rows \ {e} THEN fails[f] ELSE 0]
    <3>1. ok' \in [Profiles -> Ages]
      BY <1>2, <2>2, Caps DEF RecordsTyped
    <3>2. bad' \in [Profiles -> (0 - Jitter)..AgeCap]
      BY <1>2, <2>2, Caps DEF RecordsTyped
    <3>3. fails' \in [Profiles -> 0..MaxFailures]
      BY <1>2, <2>2, VerifierAssumption DEF RecordsTyped, VerifierAssumption
    <3>4. verified' \subseteq Profiles
      BY <1>1, <1>2, <2>2 DEF RecordsTyped
    <3>5. TableInv'
      <4>1. verified' \subseteq profiles'
        BY <1>0, <1>2, <2>2 DEF TableInv
      <4>2. \A f \in verified' : f.name # NoName
        BY <1>1, <1>2, <2>2 DEF TableInv
      <4>3. \A f, g \in verified' : f.name = g.name => f = g
        BY <1>2, <2>2 DEF TableInv, WithName
      <4>4. \A f, g \in profiles' : f.author = g.author => f = g
        BY <1>0, <1>2 DEF TableInv
      <4>5. QED
        BY <4>1, <4>2, <4>3, <4>4 DEF TableInv
    <3>6. ASSUME NEW f \in verified'
          PROVE  said'[<<f.author, f.name>>] <= ok'[f] + Jitter
      <4>1. CASE f = e
        <5>1. ok'[f] = 0 /\ said'[<<f.author, f.name>>] = 0
          BY <1>0, <1>1, <2>2, <4>1
        <5>2. QED
          BY <5>1, VerifierAssumption DEF VerifierAssumption
      <4>2. CASE f # e
        <5>1. f \in verified /\ f \in Profiles /\ f \in rows
          BY <2>2, <3>4, <4>2
        <5>2. ok'[f] = ok[f]
          BY <2>2, <4>2, <5>1
        <5>3. QED
          BY <1>0, <5>1, <5>2 DEF IInv, ProofInv
      <4>3. QED
        BY <4>1, <4>2
    <3>7. QED
      BY <3>1, <3>2, <3>3, <3>4, <3>5, <3>6 DEF RecordsTyped
  <2>3. QED
    BY <2>1, <2>2 DEF CreateRecord
<1>4. TypeOK'
  BY <1>0, <1>3 DEF IInv, TypeOK, RecordsTyped, VerifierIdle
<1>5. TaskInv' /\ SentInv' /\ ProofInv'
  BY <1>0, <1>2, <1>3 DEF TaskInv, SentInv, ProofInv, VerifierIdle
<1>6. QED
  BY <1>3, <1>4, <1>5 DEF IInv

LEMMA UpdateStep ==
  ASSUME IInv, NEW answer, NEW jitter \in 0..Jitter, UpdateRecord(answer, jitter)
  PROVE  IInv'
<1> DEFINE e == verifier.event
<1>0. /\ verifier.at = "reverify" /\ verifier' = VerifierIdle
      /\ UNCHANGED <<config, faults, profiles, feed, writer, sent>>
  BY DEF UpdateRecord, settingVars
<1>1. e \in Profiles /\ e.name # NoName /\ <<e.author, e.name>> \in Authors \X Names
  BY <1>0, Identities DEF IInv, TaskInv
<1>2. /\ RecordsTyped /\ TableInv /\ SentInv
      /\ said \in [Authors \X Names -> 0..SaidCap]
  BY DEF IInv, TypeOK, RecordsTyped
<1>3. 0 - jitter \in (0 - Jitter)..AgeCap /\ 0 - jitter \in Ages
  BY Caps
<1>4. CASE \* verified again
           /\ Proven(e)
           /\ ok' = IF e \in verified THEN [ok EXCEPT ![e] = 0 - jitter] ELSE ok
           /\ fails' = IF e \in verified THEN [fails EXCEPT ![e] = 0] ELSE fails
           /\ UNCHANGED <<verified, bad>>
  <2>1. /\ said' \in [Authors \X Names -> 0..SaidCap]
        /\ said'[<<e.author, e.name>>] = 0
        /\ \A f \in verified : said'[<<f.author, f.name>>] <= ok[f] + Jitter
    BY <1>1, <1>4, ProvenSays
  <2>2. ok' \in [Profiles -> Ages]
    BY <1>1, <1>2, <1>3, <1>4 DEF RecordsTyped
  <2>3. fails' \in [Profiles -> 0..MaxFailures]
    BY <1>1, <1>2, <1>4, VerifierAssumption DEF RecordsTyped, VerifierAssumption
  <2>4. RecordsTyped' /\ TableInv'
    BY <1>0, <1>2, <1>4, <2>2, <2>3 DEF RecordsTyped, TableInv
  <2>5. ASSUME NEW f \in verified'
        PROVE  said'[<<f.author, f.name>>] <= ok'[f] + Jitter
    <3>1. f \in verified /\ f \in Profiles
      BY <1>2, <1>4 DEF RecordsTyped
    <3>2. CASE f = e
      <4>1. ok'[f] = 0 - jitter /\ said'[<<f.author, f.name>>] = 0
        BY <1>1, <1>2, <1>4, <2>1, <3>1, <3>2 DEF RecordsTyped
      <4>2. QED
        BY <4>1, VerifierAssumption DEF VerifierAssumption
    <3>3. CASE f # e
      <4>1. ok'[f] = ok[f]
        BY <1>1, <1>2, <1>4, <3>1, <3>3 DEF RecordsTyped
      <4>2. QED
        BY <2>1, <3>1, <4>1
    <3>4. QED
      BY <3>2, <3>3
  <2>6. TypeOK'
    BY <1>0, <2>1, <2>4 DEF IInv, TypeOK, RecordsTyped, VerifierIdle
  <2>7. TaskInv' /\ SentInv' /\ ProofInv'
    BY <1>0, <1>2, <2>5 DEF TaskInv, SentInv, ProofInv, VerifierIdle
  <2>8. QED
    BY <2>4, <2>6, <2>7 DEF IInv
<1>5. CASE \* given up, or taken back: then no row is left that the name vouches for
           /\ KeepRows(Profiles \ {e})
           /\ \/ UNCHANGED said
              \/ said' = [said EXCEPT ![<<e.author, e.name>>] = SaidCap]
  <2>1. /\ RecordsTyped'
        /\ verified' = verified \ {e}
        /\ \A f \in verified' : ok'[f] = ok[f]
    <3>1. /\ RecordsTyped'
          /\ verified' = verified \cap (Profiles \ {e})
          /\ \A f \in verified' : ok'[f] = ok[f]
      BY <1>5, KeepRowsKeeps
    <3>2. QED
      BY <1>2, <3>1 DEF RecordsTyped
  <2>2. TableInv'
    BY <1>0, <1>2, <2>1 DEF TableInv
  <2>3. said' \in [Authors \X Names -> 0..SaidCap]
    BY <1>1, <1>2, <1>5, Caps
  <2>4. ASSUME NEW f \in verified'
        PROVE  said'[<<f.author, f.name>>] <= ok'[f] + Jitter
    <3>1. f \in verified /\ f # e /\ f \in Profiles
      BY <1>2, <2>1 DEF RecordsTyped
    <3>2. <<f.author, f.name>> # <<e.author, e.name>>
      BY <1>0, <3>1 DEF IInv, ProofInv
    <3>3. <<f.author, f.name>> \in Authors \X Names
      BY <1>2, <3>1, Identities DEF TableInv
    <3>4. said'[<<f.author, f.name>>] = said[<<f.author, f.name>>]
      BY <1>2, <1>5, <3>2, <3>3
    <3>5. QED
      BY <2>1, <3>1, <3>4 DEF IInv, ProofInv
  <2>5. TypeOK'
    BY <1>0, <2>1, <2>3 DEF IInv, TypeOK, RecordsTyped, VerifierIdle
  <2>6. TaskInv' /\ SentInv' /\ ProofInv'
    BY <1>0, <1>2, <2>4 DEF TaskInv, SentInv, ProofInv, VerifierIdle
  <2>7. QED
    BY <2>2, <2>5, <2>6 DEF IInv
<1>6. CASE \* one failure more
           /\ ~GivesUp(e)
           /\ bad' = IF e \in verified THEN [bad EXCEPT ![e] = 0 - jitter] ELSE bad
           /\ fails' = IF e \in verified THEN [fails EXCEPT ![e] = CountFailure(@)] ELSE fails
           /\ UNCHANGED <<verified, ok, said>>
  <2>1. bad' \in [Profiles -> (0 - Jitter)..AgeCap]
    BY <1>1, <1>2, <1>3, <1>6 DEF RecordsTyped
  <2>2. CountFailure(fails[e]) \in 0..MaxFailures
    BY <1>1, <1>2, <1>6, VerifierAssumption
       DEF RecordsTyped, GivesUp, CountFailure, VerifierAssumption
  <2>3. fails' \in [Profiles -> 0..MaxFailures]
    BY <1>1, <1>2, <1>6, <2>2 DEF RecordsTyped
  <2>4. RecordsTyped' /\ TableInv'
    BY <1>0, <1>2, <1>6, <2>1, <2>3 DEF RecordsTyped, TableInv
  <2>5. TypeOK'
    BY <1>0, <1>2, <1>6, <2>4 DEF IInv, TypeOK, RecordsTyped, VerifierIdle
  <2>6. TaskInv' /\ SentInv' /\ ProofInv'
    BY <1>0, <1>2, <1>6 DEF IInv, TaskInv, SentInv, ProofInv, VerifierIdle
  <2>7. QED
    BY <2>4, <2>5, <2>6 DEF IInv
<1>7. QED
  BY <1>4, <1>5, <1>6 DEF UpdateRecord

-----------------------------------------------------------------------------
(* Time                                                                     *)

LEMMA TickStep ==
  ASSUME IInv, Tick
  PROVE  IInv'
<1>0. /\ UNCHANGED <<config, faults, profiles, verified, fails, feed, writer, verifier, sent>>
      /\ verifier.at \notin {"store", "record"}
      /\ ok' = [e \in Profiles |-> OlderSuccess(e)]
      /\ bad' = [e \in Profiles |-> Older(bad[e], AgeCap)]
      /\ said' = [who \in Authors \X Names |-> Older(said[who], SaidCap)]
  BY DEF Tick, settingVars
<1>1. /\ RecordsTyped /\ said \in [Authors \X Names -> 0..SaidCap]
      /\ AgeCap \in Nat /\ SaidCap \in Nat /\ Jitter \in Nat
  BY Caps, VerifierAssumption DEF IInv, TypeOK, RecordsTyped, VerifierAssumption
<1>2. ok' \in [Profiles -> Ages] /\ bad' \in [Profiles -> (0 - Jitter)..AgeCap]
  <2>1. \A e \in Profiles : OlderSuccess(e) \in Ages
    BY <1>1, VerifierAssumption, OlderSuccessIsAge DEF RecordsTyped
  <2>2. ok' \in [Profiles -> Ages]
    BY <1>0, <2>1
  <2>3. bad' \in [Profiles -> (0 - Jitter)..AgeCap]
    BY <1>0, <1>1 DEF RecordsTyped, Older
  <2>4. QED
    BY <2>2, <2>3
<1>3. said' \in [Authors \X Names -> 0..SaidCap]
  BY <1>0, <1>1 DEF Older
<1>4. TypeOK'
  BY <1>0, <1>2, <1>3 DEF IInv, TypeOK
<1>5. TaskInv' /\ TableInv' /\ SentInv'
  BY <1>0 DEF IInv, TaskInv, TableInv, SentInv
<1>6. ASSUME NEW f \in verified'
      PROVE  said'[<<f.author, f.name>>] <= ok'[f] + Jitter
  <2> DEFINE who == <<f.author, f.name>>
  <2>1. f \in verified /\ f \in Profiles /\ who \in Authors \X Names
    BY <1>0, <1>1, Identities DEF RecordsTyped, IInv, TableInv
  <2>2. /\ said[who] \in 0..SaidCap /\ ok[f] \in Int
        /\ said[who] <= ok[f] + Jitter
    BY <1>1, <2>1 DEF RecordsTyped, IInv, ProofInv, Ages
  <2>3. said'[who] = Older(said[who], SaidCap) /\ ok'[f] = OlderSuccess(f)
    BY <1>0, <2>1
  <2>4. SaidCap <= AgeCap + Jitter
    BY Caps, <1>1, VerifierAssumption DEF VerifierAssumption
  <2>5. /\ OlderSuccess(f) \in Int
        /\ OlderSuccess(f) >= ok[f] + 1 \/ OlderSuccess(f) >= AgeCap
    BY <1>1, <2>1, VerifierAssumption, OlderSuccessIsAge DEF RecordsTyped, Ages
  <2>6. Older(said[who], SaidCap) <= said[who] + 1 /\ Older(said[who], SaidCap) <= SaidCap
        /\ Older(said[who], SaidCap) \in Int
    BY <1>1, <2>2 DEF Older
  <2>7. QED
    BY <1>1, <2>2, <2>3, <2>4, <2>5, <2>6
<1>7. ProofInv'
  BY <1>0, <1>6 DEF IInv, ProofInv
<1>8. QED
  BY <1>4, <1>5, <1>7 DEF IInv

-----------------------------------------------------------------------------
(* The theorems                                                             *)

LEMMA NextKeeps == IInv /\ [Next]_vars => IInv'
<1> SUFFICES ASSUME IInv, [Next]_vars PROVE IInv'
  OBVIOUS
<1>1. CASE UNCHANGED vars
  BY <1>1 DEF vars, IInv, TypeOK, TaskInv, TableInv, SentInv, ProofInv
<1>2. CASE Next
  <2>1. CASE \E e \in Profiles : AdmitProfile(e)
    BY <2>1, AdmitStep
  <2>2. CASE WriteProfile
    BY <2>2, WriteStep
  <2>3. CASE WriteFails \/ VerifierFails \/ Restart
    BY <2>3, FaultStep
  <2>4. CASE TakeProfile
    BY <2>4, TakeStep
  <2>5. CASE Reverify
    BY <2>5, ReverifyStep
  <2>6. CASE VerifierStep
    BY <2>6, StoreCandidateStep, CreateStep, CheckStep, UpdateStep DEF VerifierStep
  <2>7. CASE Tick
    BY <2>7, TickStep
  <2>8. QED
    BY <1>2, <2>1, <2>2, <2>3, <2>4, <2>5, <2>6, <2>7 DEF Next
<1>3. QED
  BY <1>1, <1>2

LEMMA Inductive == Spec => []IInv
  BY InitInv, NextKeeps, PTL DEF Spec

\* The tables, channel and tasks keep their shape, and the metadata channel its
\* capacity.
THEOREM TypeCorrect == Spec => []TypeOK
<1>1. IInv => TypeOK
  BY DEF IInv
<1>2. QED
  BY <1>1, Inductive, PTL

\* The gate opens only to authors with a recent proof of an allowed domain that
\* was not taken back, for all durations and settings.
THEOREM GateIsProven == Spec => []VouchedFor
  BY InvImplies, Inductive, PTL

\* A name has one holder, an author one record, about the author's profile of
\* today, in whatever order writer and verifier write.
THEOREM OneRecord == Spec => []RecordsExclusive
  BY InvImplies, Inductive, PTL

\* Writer and verifier between them broadcast a profile at most once.
THEOREM OneBroadcast == Spec => []BroadcastOnce
  BY InvImplies, Inductive, PTL
=============================================================================
