------------------------- MODULE PocketEventsProofs -------------------------
(***************************************************************************)
(* What withdraws a text of Pocket only grows, and it is written before it *)
(* is answered: so a read never serves what had been withdrawn before it   *)
(* began, but for a row of which a check raised, and a request that began  *)
(* after a revocation stores nothing.                                      *)
(***************************************************************************)
EXTENDS PocketEvents, TLAPS

Threads == {Loop} \cup Workers

(* The steps that only webhooks take.                                      *)
Arriving == {"register", "tombstone", "deletion_sequence", "sequence"}

(* The three reasons for which a stored text is withheld.                  *)
OfRevoked == {s \in DOMAIN stored : stored[s] \in revoked}
Withdrawn == tombstones \cup Superseded \cup OfRevoked

-----------------------------------------------------------------------------
(* The inductive invariant.                                                *)
ReqOK == req \in [Threads -> [message : Messages \cup Records \cup {NoDelivery},
                              barred : SUBSET Consents]]

(* A request p, q beside the revoked consents R.                           *)
RequestOK(p, q, R) ==
    /\ q.barred \subseteq R
    /\ p \in {"revoked", "attach"} => q.message.consent \in Consents
    /\ p = "attach" => q.message.purpose \in Purposes
    /\ p \in {"attach", "ingest"} => q.message.consent \notin q.barred
    /\ p \in Arriving => q.message \in Messages
    /\ p = "supersede" => q.message.supersedes \in Deliveries

RequestsOK == \A t \in Threads : RequestOK(pc[t], req[t], revoked)

(* Deliveries are registered once, and the loop has registered what it is  *)
(* about; what it deletes has a tombstone before the deletion is answered. *)
LoopOK ==
    /\ \A m, n \in registered : m.delivery = n.delivery => m = n
    /\ pc[Loop] \in Arriving \ {"register"} => M(Loop) \in registered
    /\ pc[Loop] \in {"tombstone", "deletion_sequence"} => M(Loop).kind = "tombstone"
    /\ pc[Loop] = "deletion_sequence" => M(Loop).source \in tombstones

(* What was answered is in the tables, and what the tables hold was        *)
(* answered or belongs to a deletion that is under way or was cut.         *)
Deleting(s) == \E m \in registered :
                  /\ m.kind = "tombstone" /\ m.source = s
                  /\ \/ pc[Loop] = "deletion_sequence" /\ M(Loop) = m
                     \/ m \in cut

AnswersOK ==
    /\ \A s \in Sources : <<"source", s>> \in announced => s \in tombstones
    /\ \A s \in tombstones : <<"source", s>> \in announced \/ Deleting(s)
    /\ \A d \in Deliveries :
          <<"delivery", d>> \in announced <=> superseded[d] # NotSuperseded
    /\ \A d \in Deliveries :
          superseded[d] \in Sources => SourceOf(d) = {superseded[d]}
    /\ \A c \in Consents : <<"consent", c>> \in announced <=> c \in revoked

(* A row that a reader has past a check was not withdrawn for the reason of*)
(* that check when the read began, unless a check of it has raised.        *)
ReadOK(x) ==
    /\ x.gone \subseteq Withdrawn \cap DOMAIN stored
    /\ x.kept \cap x.gone \subseteq x.unchecked
    /\ x.step \in {"superseded", "consent"} => \E s \in Sources : x.row = {s}
    /\ x.step = "superseded" => x.row \cap x.gone \subseteq Superseded \cup OfRevoked
    /\ x.step = "consent" => x.row \cap x.gone \subseteq OfRevoked

ReadsOK == \A r \in Readers : ReadOK(read[r])

TablesInv == TypeOK /\ ReqOK /\ RequestsOK /\ LoopOK /\ AnswersOK

-----------------------------------------------------------------------------
(* The text of a message or a record.                                      *)
LEMMA MessageFields ==
    ASSUME NEW m \in Messages \cup Records
    PROVE  /\ m \in Message
           /\ m.sequence \in Nat /\ m.conversation \in Conversations
           /\ m.source \in Sources
           /\ m.supersedes \in Deliveries \cup {NoDelivery}
           /\ m.consent \in Consents \cup {NoConsent}
           /\ m.purpose \in Purposes \cup {NoPurpose}
           /\ m.delivery \in Deliveries \cup {NoDelivery}
           /\ m.kind \in {"content", "tombstone"}
<1>1. m \in Message
  BY PocketAssumption
<1> QED
  BY <1>1 DEF Message

LEMMA InitOK == Init => TablesInv /\ ReadsOK
<1> SUFFICES ASSUME Init PROVE TablesInv /\ ReadsOK
  OBVIOUS
<1> USE PocketAssumption DEF Init, NoRequest
<1>1. TypeOK
  BY DEF TypeOK, Reading, NotReading, Steps
<1>2. ReqOK /\ RequestsOK
  BY DEF ReqOK, RequestsOK, RequestOK, Threads, Arriving
<1>3. LoopOK
  BY DEF LoopOK, Arriving
<1>4. AnswersOK
  BY DEF AnswersOK
<1>5. ReadsOK
  BY DEF ReadsOK, ReadOK, NotReading
<1> QED
  BY <1>1, <1>2, <1>3, <1>4, <1>5 DEF TablesInv

(* A reader changes nothing but what it is about itself.                   *)
LEMMA ReadStep ==
    ASSUME NEW r \in Readers, Read(r)
    PROVE  UNCHANGED <<tables, pc, req, history>>
BY DEF Read, ReadRows, CheckState, CheckTombstone, CheckSuperseded, CheckConsent,
       CheckFails, Keep, Serve, ReadOn

(* A call that raises ends its request, and cuts short what the loop is    *)
(* about.                                                                  *)
LEMMA CallFailsStep ==
    ASSUME TypeOK, ReqOK, NEW t \in Threads, CallFails(t)
    PROVE  /\ Done(t) /\ cut \subseteq cut'
           /\ \/ UNCHANGED <<cut, pc[Loop], M(Loop)>>
              \/ pc'[Loop] = "idle" /\ cut' = cut \cup {m \in registered : InHand(m)}
           /\ UNCHANGED stored \/ (pc[t] = "ingest" /\ stored' = Observed(M(t)))
           /\ UNCHANGED <<registered, applied, superseded, tombstones, purposes,
                          revoked, read, announced, contested>>
<1>1. pc \in [Threads -> Steps \cup {"idle"}]
  BY DEF TypeOK, Threads
<1>2. Done(t) /\ (t = Loop => cut' = cut \cup {m \in registered : InHand(m)})
      /\ (t # Loop => cut' = cut)
  BY DEF CallFails
<1>3. t # Loop => UNCHANGED <<pc[Loop], M(Loop)>>
  BY <1>1, <1>2 DEF Done, M, ReqOK, Threads
<1>4. t = Loop => pc'[Loop] = "idle"
  BY <1>1, <1>2 DEF Done
<1>5. UNCHANGED stored \/ (pc[t] = "ingest" /\ stored' = Observed(M(t)))
  BY DEF CallFails
<1> QED
  BY <1>2, <1>3, <1>4, <1>5 DEF CallFails

(* The actions of Next, by name.                                           *)
LEMMA TypesStay == TablesInv /\ [Next]_vars => TypeOK' /\ ReqOK'
<1> SUFFICES ASSUME TablesInv, [Next]_vars PROVE TypeOK' /\ ReqOK'
  OBVIOUS
<1> USE PocketAssumption DEF vars, tables, history
<1>0. TypeOK /\ ReqOK
  BY DEF TablesInv
<1>a. pc \in [Threads -> Steps \cup {"idle"}]
  BY <1>0 DEF TypeOK, Threads
<1>b. Loop \in Threads
  BY DEF Threads
<1>c. ASSUME NEW t \in Threads, pc[t] # "idle"
      PROVE  req[t].message \in Messages \cup Records
  BY <1>0, <1>c DEF TypeOK, Threads
<1>d. ASSUME NEW t \in Threads, NEW step \in Steps, pc[t] # "idle", Go(t, step)
      PROVE  /\ pc' \in [Threads -> Steps \cup {"idle"}] /\ ReqOK'
             /\ \A u \in Threads : pc'[u] # "idle" =>
                   req'[u].message \in Messages \cup Records
                   /\ req'[u].barred \subseteq Consents
  BY <1>0, <1>a, <1>c, <1>d DEF Go, ReqOK
<1>e. ASSUME NEW t \in Threads, Done(t)
      PROVE  /\ pc' \in [Threads -> Steps \cup {"idle"}] /\ ReqOK'
             /\ \A u \in Threads : pc'[u] # "idle" =>
                   req'[u].message \in Messages \cup Records
                   /\ req'[u].barred \subseteq Consents
  BY <1>0, <1>a, <1>c, <1>e DEF Done, ReqOK, NoRequest
<1>f. ASSUME NEW t \in Threads, NEW m \in Messages \cup Records,
             NEW step \in Steps, Begin(t, m, step)
      PROVE  TypeOK' /\ ReqOK'
  <2>1. /\ pc' \in [Threads -> Steps \cup {"idle"}] /\ ReqOK'
        /\ \A u \in Threads : pc'[u] # "idle" =>
              req'[u].message \in Messages \cup Records
              /\ req'[u].barred \subseteq Consents
    BY <1>0, <1>a, <1>c, <1>f DEF Begin, ReqOK
  <2> QED
    BY <2>1, <1>0, <1>f DEF Begin, TypeOK, Threads
<1>g. "idle" \notin Steps
  BY DEF Steps
<1>1. CASE \E m \in Messages : Deliver(m)
  BY <1>1, <1>f, <1>b DEF Deliver, Steps
<1>2. CASE \E t \in Threads, m \in Records : Bring(t, m)
  BY <1>2, <1>f DEF Bring, Steps
<1>3. CASE Register
  <2>1. M(Loop) \in Messages
    BY <1>3, <1>b DEF TablesInv, RequestsOK, RequestOK, Register, Arriving, M
  <2>2. PICK step \in Steps : Go(Loop, step) \/ Done(Loop)
    BY <1>3 DEF Register, Steps
  <2> QED
    BY <2>1, <2>2, <1>0, <1>3, <1>b, <1>d, <1>e, <1>g
    DEF Register, TypeOK, Threads, Steps
<1>4. CASE Tombstone
  <2>1. M(Loop).source \in Sources
    BY <1>4, <1>b, <1>c, MessageFields DEF Tombstone, M
  <2> QED
    BY <2>1, <1>0, <1>4, <1>b, <1>d DEF Tombstone, TypeOK, Threads, Steps
<1>h. ASSUME NEW m \in Messages \cup Records, ApplySequence(m)
      PROVE  applied' \in [Conversations -> Nat \cup {-1}]
  BY <1>0, <1>h, MessageFields DEF ApplySequence, TypeOK
<1>5. CASE DeletionSequence
  <2>1. M(Loop) \in Messages \cup Records /\ M(Loop).source \in Sources
    BY <1>5, <1>b, <1>c, MessageFields DEF DeletionSequence, M
  <2>2. applied' \in [Conversations -> Nat \cup {-1}]
    BY <2>1, <1>5, <1>h DEF DeletionSequence
  <2>3. announced' \subseteq {"source"} \X Sources \cup {"delivery"} \X Deliveries
                             \cup {"consent"} \X Consents
    BY <2>1, <1>0, <1>5 DEF DeletionSequence, TypeOK
  <2> QED
    BY <2>2, <2>3, <1>0, <1>5, <1>b, <1>e DEF DeletionSequence, TypeOK, Threads
<1>6. CASE Sequence
  <2>1. M(Loop) \in Messages \cup Records
    BY <1>6, <1>b, <1>c DEF Sequence, M
  <2>2. applied' \in [Conversations -> Nat \cup {-1}]
    BY <2>1, <1>6, <1>h DEF Sequence
  <2>3. Go(Loop, "purpose") \/ Done(Loop)
    BY <1>6 DEF Sequence
  <2> QED
    BY <2>2, <2>3, <1>0, <1>6, <1>b, <1>d, <1>e DEF Sequence, TypeOK, Threads, Steps
<1>7. CASE Supersede
  <2>1. \A d \in Deliveries : SourceOf(d) \subseteq Sources
    BY <1>0, MessageFields DEF SourceOf, TypeOK
  <2>2. M(Loop).supersedes \in Deliveries
    BY <1>7, <1>b DEF Supersede, TablesInv, RequestsOK, RequestOK, M
  <2>3. superseded' \in [Deliveries -> Sources \cup {NotSuperseded, Unknown}]
    BY <2>1, <2>2, <1>0, <1>7 DEF Supersede, TypeOK
  <2>4. announced' \subseteq {"source"} \X Sources \cup {"delivery"} \X Deliveries
                             \cup {"consent"} \X Consents
    BY <2>2, <1>0, <1>7 DEF Supersede, TypeOK
  <2> QED
    BY <2>3, <2>4, <1>0, <1>7, <1>b, <1>e DEF Supersede, TypeOK, Threads
<1>8. CASE \E t \in Threads : CheckPurpose(t)
  <2>1. PICK t \in Threads : CheckPurpose(t)
    BY <1>8
  <2>2. PICK step \in Steps : Go(t, step) \/ Done(t)
    BY <2>1 DEF CheckPurpose, Steps
  <2> QED
    BY <2>1, <2>2, <1>0, <1>d, <1>e DEF CheckPurpose, TypeOK, Threads
<1>9. CASE \E t \in Threads : CheckRevoked(t)
  <2>1. PICK t \in Threads : CheckRevoked(t)
    BY <1>9
  <2>2. PICK step \in Steps : Go(t, step) \/ Done(t)
    BY <2>1 DEF CheckRevoked, Steps
  <2> QED
    BY <2>1, <2>2, <1>0, <1>d, <1>e DEF CheckRevoked, TypeOK, Threads
<1>10. CASE \E t \in Threads : Attach(t)
  <2>1. PICK t \in Threads : Attach(t)
    BY <1>10
  <2>2. M(t).consent \in Consents /\ M(t).purpose \in Purposes
    BY <2>1 DEF Attach, TablesInv, RequestsOK, RequestOK, M
  <2>3. /\ purposes' \in [Consents -> Purposes \cup {NoPurpose}]
        /\ revoked' \subseteq {c \in Consents : purposes'[c] # NoPurpose}
        /\ contested' \subseteq Consents
    BY <2>1, <2>2, <1>0 DEF Attach, Contests, TypeOK
  <2> QED
    BY <2>1, <2>3, <1>0, <1>d DEF Attach, TypeOK, Threads, Steps
<1>i. ASSUME NEW t \in Threads, pc[t] = "ingest", stored' = Observed(M(t))
      PROVE  /\ DOMAIN stored' \subseteq Sources
             /\ \A s \in DOMAIN stored' : stored'[s] \in Consents \cup {NoConsent}
  <2>1. M(t).source \in Sources /\ M(t).consent \in Consents \cup {NoConsent}
    BY <1>i, <1>c, MessageFields DEF M
  <2> QED
    BY <2>1, <1>0, <1>i DEF Observed, TypeOK
<1>11. CASE \E t \in Threads : Ingest(t)
  <2>1. PICK t \in Threads : Ingest(t)
    BY <1>11
  <2>3. /\ DOMAIN stored' \subseteq Sources
        /\ \A s \in DOMAIN stored' : stored'[s] \in Consents \cup {NoConsent}
    BY <2>1, <1>i DEF Ingest
  <2>4. pc[t] # "idle" /\ (Go(t, "supersede") \/ Done(t))
    BY <2>1 DEF Ingest
  <2>5. /\ pc' \in [Threads -> Steps \cup {"idle"}] /\ ReqOK'
        /\ \A u \in Threads : pc'[u] # "idle" =>
              req'[u].message \in Messages \cup Records
              /\ req'[u].barred \subseteq Consents
    BY <2>4, <1>d, <1>e DEF Steps
  <2>6. UNCHANGED <<registered, applied, superseded, tombstones, purposes,
                    revoked, read, history>>
    BY <2>1 DEF Ingest
  <2> QED
    BY <2>3, <2>5, <2>6, <1>0 DEF TypeOK, Threads
<1>12. CASE \E c \in Consents : Revoke(c)
  BY <1>12, <1>0 DEF Revoke, TypeOK, ReqOK
<1>13. CASE \E s \in Sources : DeleteSource(s)
  BY <1>13, <1>0 DEF DeleteSource, TypeOK, ReqOK
<1>14. CASE \E r \in Readers : Read(r)
  <2>1. PICK r \in Readers : Read(r)
    BY <1>14
  <2>2. read[r] \in Reading
    BY <1>0 DEF TypeOK
  <2>3. UNCHANGED <<tables, pc, req, history>>
    BY <2>1, ReadStep
  <2>4. read' \in [Readers -> Reading]
    <3>a. ASSUME NEW new \in Reading, ReadOn(r, new)
          PROVE  read' \in [Readers -> Reading]
      BY <1>0, <3>a DEF ReadOn, TypeOK
    <3>1. CASE ReadRows(r)
      <4>1. Gone \subseteq Sources /\ DOMAIN stored \subseteq Sources
        BY <1>0 DEF Gone, TypeOK
      <4>2. [NotReading EXCEPT !.step = "state", !.todo = DOMAIN stored,
                               !.gone = Gone] \in Reading
        BY <4>1 DEF NotReading, Reading
      <4> QED
        BY <3>1, <4>2, <3>a DEF ReadRows
    <3>2. CASE CheckState(r)
      <4>1. /\ [read[r] EXCEPT !.step = "tombstone"] \in Reading
            /\ [read[r] EXCEPT !.step = "tombstone", !.todo = {},
                               !.kept = read[r].todo] \in Reading
        BY <2>2 DEF Reading
      <4> QED
        BY <3>2, <4>1, <3>a DEF CheckState
    <3>b. Drop(r) \in Reading
      BY <2>2 DEF Drop, Reading
    <3>3. CASE CheckTombstone(r)
      <4>1. PICK s \in read[r].todo :
               ReadOn(r, [read[r] EXCEPT
                            !.todo = @ \ {s},
                            !.row = IF s \in tombstones THEN {} ELSE {s},
                            !.step = IF s \in tombstones THEN @ ELSE "superseded"])
        BY <3>3 DEF CheckTombstone
      <4>2. [read[r] EXCEPT
               !.todo = @ \ {s},
               !.row = IF s \in tombstones THEN {} ELSE {s},
               !.step = IF s \in tombstones THEN @ ELSE "superseded"] \in Reading
        BY <2>2 DEF Reading
      <4> QED
        BY <4>1, <4>2, <3>a
    <3>4. CASE CheckSuperseded(r)
      <4>1. [read[r] EXCEPT !.step = "consent"] \in Reading
        BY <2>2 DEF Reading
      <4> QED
        BY <3>4, <3>b, <4>1, <3>a DEF CheckSuperseded
    <3>5. CASE CheckConsent(r)
      <4>1. \A s \in read[r].row : [Drop(r) EXCEPT !.kept = @ \cup {s}] \in Reading
        BY <2>2 DEF Drop, Reading
      <4> QED
        BY <3>5, <3>b, <4>1, <3>a DEF CheckConsent
    <3>6. CASE Serve(r)
      <4>1. NotReading \in Reading
        BY DEF NotReading, Reading
      <4> QED
        BY <3>6, <4>1, <3>a DEF Serve
    <3>7. CASE CheckFails(r)
      <4>1. PICK S \in SUBSET Sources : Keep(r, S)
        BY <3>7, <2>2 DEF CheckFails, Reading
      <4>2. [Drop(r) EXCEPT !.todo = @ \ S, !.kept = @ \cup S,
                            !.unchecked = @ \cup (S \cap read[r].gone)] \in Reading
        BY <2>2, <3>b DEF Reading
      <4> QED
        BY <4>1, <4>2, <3>a DEF Keep
    <3> QED
      BY <2>1, <3>1, <3>2, <3>3, <3>4, <3>5, <3>6, <3>7 DEF Read
  <2> QED
    BY <2>3, <2>4, <1>0 DEF TypeOK, ReqOK
<1>15. CASE Crash
  BY <1>15, <1>0 DEF Crash, TypeOK, ReqOK, NoRequest, Reading, NotReading, Threads
<1>16. CASE UNCHANGED vars
  BY <1>16, <1>0 DEF TypeOK, ReqOK
<1>17. CASE \E t \in Threads : CallFails(t)
  <2>1. PICK t \in Threads : CallFails(t)
    BY <1>17
  <2>2. /\ DOMAIN stored' \subseteq Sources
        /\ \A s \in DOMAIN stored' : stored'[s] \in Consents \cup {NoConsent}
    BY <2>1, <1>0, <1>i, CallFailsStep DEF TypeOK
  <2>3. /\ pc' \in [Threads -> Steps \cup {"idle"}] /\ ReqOK'
        /\ \A u \in Threads : pc'[u] # "idle" =>
              req'[u].message \in Messages \cup Records
              /\ req'[u].barred \subseteq Consents
    BY <2>1, <1>0, <1>e, CallFailsStep
  <2>4. faults' \in 0..MaxFaults /\ cut' \subseteq Messages
    BY <2>1, <1>0 DEF CallFails, TypeOK
  <2>5. UNCHANGED <<registered, applied, superseded, tombstones, purposes,
                    revoked, read, announced, contested>>
    BY <2>1 DEF CallFails
  <2> QED
    BY <2>2, <2>3, <2>4, <2>5, <1>0 DEF TypeOK, Threads
<1> QED
  BY <1>1, <1>2, <1>3, <1>4, <1>5, <1>6, <1>7, <1>8, <1>9, <1>10, <1>11, <1>12,
     <1>13, <1>14, <1>15, <1>16, <1>17 DEF Next, Materialize, Threads

-----------------------------------------------------------------------------
(* What withdraws a text is never taken back, and a text keeps its consent.*)
LEMMA TablesGrow ==
    ASSUME TablesInv, [Next]_vars
    PROVE  /\ registered \subseteq registered' /\ tombstones \subseteq tombstones'
           /\ revoked \subseteq revoked' /\ announced \subseteq announced'
           /\ cut \subseteq cut' /\ contested \subseteq contested'
           /\ \A s \in DOMAIN stored : s \in DOMAIN stored' /\ stored'[s] = stored[s]
           /\ \A d \in Deliveries : superseded[d] # NotSuperseded =>
                                    superseded'[d] # NotSuperseded
           /\ Superseded \subseteq Superseded'
<1> DEFINE Grown ==
              /\ registered \subseteq registered' /\ tombstones \subseteq tombstones'
              /\ revoked \subseteq revoked' /\ announced \subseteq announced'
              /\ cut \subseteq cut' /\ contested \subseteq contested'
              /\ \A s \in DOMAIN stored : s \in DOMAIN stored' /\ stored'[s] = stored[s]
<1> USE PocketAssumption DEF vars, tables, history
<1>0. Loop \in Threads
  BY DEF Threads
<1>1. CASE Supersede
  <2>1. M(Loop).supersedes \in Deliveries
    BY <1>0, <1>1 DEF Supersede, TablesInv, RequestsOK, RequestOK, M
  <2>2. PICK d \in Deliveries : d = M(Loop).supersedes
    BY <2>1
  <2>3. /\ superseded' = [superseded EXCEPT ![d] =
                            IF SourceOf(d) = {} THEN Unknown
                            ELSE CHOOSE s \in SourceOf(d) : TRUE]
        /\ announced \subseteq announced'
        /\ UNCHANGED <<registered, tombstones, revoked, stored, cut, contested>>
    BY <1>1, <2>2 DEF Supersede
  <2>4. superseded \in [Deliveries -> Sources \cup {NotSuperseded, Unknown}]
    BY DEF TablesInv, TypeOK
  <2>5. SourceOf(d) \subseteq Sources
    BY MessageFields DEF SourceOf, TablesInv, TypeOK
  <2>6. /\ SourceOf(d) = {} => superseded'[d] = Unknown
        /\ SourceOf(d) # {} => superseded'[d] \in SourceOf(d)
        /\ \A e \in Deliveries \ {d} : superseded'[e] = superseded[e]
    <3>1. SourceOf(d) # {} => (CHOOSE s \in SourceOf(d) : TRUE) \in SourceOf(d)
      OBVIOUS
    <3> QED
      BY <2>3, <2>4, <3>1
  <2>7. \A e \in Deliveries : superseded[e] # NotSuperseded =>
                              superseded'[e] # NotSuperseded
    BY <2>5, <2>6 DEF NotSuperseded, Unknown
  <2>8. ASSUME NEW s \in Sources, NEW e \in Deliveries,
               superseded[e] = s \/ (superseded[e] = Unknown /\ s \in SourceOf(e))
        PROVE  superseded'[e] = s \/ (superseded'[e] = Unknown /\ s \in SourceOf(e))
    <3>1. CASE e # d
      BY <2>6, <2>8, <3>1
    <3>2. CASE e = d
      <4>1. \A m, n \in registered : m.delivery = n.delivery => m = n
        BY DEF TablesInv, LoopOK
      <4>2. \A x, y \in SourceOf(d) : x = y
        BY <4>1 DEF SourceOf
      <4>3. superseded[d] \in Sources => SourceOf(d) = {superseded[d]}
        BY DEF TablesInv, AnswersOK
      <4>4. s \in SourceOf(d)
        BY <2>8, <3>2, <4>3
      <4> QED
        BY <4>2, <4>4, <2>6, <3>2
    <3> QED
      BY <3>1, <3>2
  <2>9. \A e \in Deliveries : SourceOf(e)' = SourceOf(e)
    BY <2>3 DEF SourceOf
  <2>10. Superseded \subseteq Superseded'
    BY <2>8, <2>9 DEF Superseded
  <2> QED
    BY <2>3, <2>7, <2>10
<1>2. CASE Grown /\ UNCHANGED superseded
  <2>1. \A d \in Deliveries : SourceOf(d) \subseteq SourceOf(d)'
    BY <1>2 DEF SourceOf
  <2>2. Superseded \subseteq Superseded'
    BY <1>2, <2>1 DEF Superseded
  <2> QED
    BY <1>2, <2>2
<1>3. CASE \E t \in Threads : Ingest(t) \/ CallFails(t)
  <2>1. PICK t \in Threads : Ingest(t) \/ CallFails(t)
    BY <1>3
  <2>2. /\ UNCHANGED <<registered, superseded, tombstones, revoked, announced,
                       contested>>
        /\ cut \subseteq cut'
        /\ UNCHANGED stored \/ stored' = Observed(M(t))
    BY <2>1, CallFailsStep DEF Ingest, TablesInv
  <2>3. \A s \in DOMAIN stored : s \in DOMAIN stored' /\ stored'[s] = stored[s]
    BY <2>2 DEF Observed
  <2> QED
    BY <2>2, <2>3, <1>2
<1>4. CASE UNCHANGED vars \/ \E r \in Readers : Read(r)
  <2>1. UNCHANGED <<tables, history>>
    BY <1>4, ReadStep
  <2> QED
    BY <2>1, <1>2
<1>5. CASE Register \/ Tombstone \/ DeletionSequence \/ Sequence \/ Crash
           \/ (\E c \in Consents : Revoke(c)) \/ \E s \in Sources : DeleteSource(s)
  <2>1. Grown /\ UNCHANGED superseded
    BY <1>5 DEF Register, Tombstone, DeletionSequence, Sequence, Crash, Revoke,
                DeleteSource
  <2> QED
    BY <2>1, <1>2
<1>6. CASE \/ \E m \in Messages : Deliver(m)
           \/ \E t \in Threads : \/ \E m \in Records : Bring(t, m)
                                 \/ CheckPurpose(t) \/ CheckRevoked(t) \/ Attach(t)
  <2>1. Grown /\ UNCHANGED superseded
    BY <1>6 DEF Deliver, Bring, Begin, CheckPurpose, CheckRevoked, Attach, Contests
  <2> QED
    BY <2>1, <1>2
<1> QED
  BY <1>1, <1>3, <1>4, <1>5, <1>6 DEF Next, Materialize, Threads

LEMMA ReasonsGrow ==
    ASSUME TablesInv, [Next]_vars
    PROVE  OfRevoked \subseteq OfRevoked' /\ Withdrawn \subseteq Withdrawn'
<1>1. OfRevoked \subseteq OfRevoked'
  BY TablesGrow DEF OfRevoked
<1> QED
  BY <1>1, TablesGrow DEF Withdrawn

(* Each request checks its consent before it uses it.                      *)
LEMMA RequestsStay == TablesInv /\ [Next]_vars => RequestsOK'
<1> SUFFICES ASSUME TablesInv, [Next]_vars PROVE RequestsOK'
  OBVIOUS
<1> USE PocketAssumption DEF vars, tables, history
<1>0. TypeOK /\ ReqOK /\ RequestsOK
  BY DEF TablesInv
<1>a. revoked \subseteq revoked'
  BY TablesGrow
<1>b. Loop \in Threads /\ pc \in [Threads -> Steps \cup {"idle"}]
  BY <1>0 DEF Threads, TypeOK
<1>c. ASSUME NEW t \in Threads, pc[t] # "idle"
      PROVE  req[t].message \in Messages \cup Records
  BY <1>0, <1>c DEF TypeOK, Threads
(* A step of thread t leaves the others as they are.                       *)
<1>d. ASSUME NEW t \in Threads, NEW p, NEW q,
             pc' = [pc EXCEPT ![t] = p], req' = [req EXCEPT ![t] = q],
             RequestOK(p, q, revoked')
      PROVE  RequestsOK'
  <2> SUFFICES ASSUME NEW u \in Threads PROVE RequestOK(pc'[u], req'[u], revoked')
    BY DEF RequestsOK
  <2>1. CASE u = t
    BY <2>1, <1>0, <1>b, <1>d DEF ReqOK
  <2>2. CASE u # t
    BY <2>2, <1>0, <1>a, <1>b, <1>d DEF ReqOK, RequestsOK, RequestOK
  <2> QED
    BY <2>1, <2>2
<1>e. ASSUME NEW t \in Threads, NEW step, Go(t, step),
             RequestOK(step, req[t], revoked)
      PROVE  RequestsOK'
  <2>1. req' = [req EXCEPT ![t] = req[t]]
    BY <1>0, <1>e DEF Go, ReqOK
  <2>2. RequestOK(step, req[t], revoked')
    BY <1>e, <1>a DEF RequestOK
  <2> QED
    BY <2>1, <2>2, <1>d, <1>e DEF Go
<1>f. ASSUME NEW t \in Threads, Done(t) PROVE RequestsOK'
  <2>1. RequestOK("idle", NoRequest, revoked')
    BY DEF RequestOK, NoRequest, Arriving
  <2> QED
    BY <2>1, <1>d, <1>f DEF Done
<1>g. ASSUME NEW t \in Threads, NEW m \in Messages \cup Records,
             NEW step \in {"register", "purpose"}, step = "register" => m \in Messages,
             Begin(t, m, step)
      PROVE  RequestsOK'
  <2> DEFINE q == [message |-> m, barred |->
                      {c \in Consents : <<"consent", c>> \in announced}]
  <2>1. RequestOK(step, q, revoked')
    <3>1. {c \in Consents : <<"consent", c>> \in announced} \subseteq revoked
      BY DEF TablesInv, AnswersOK
    <3> QED
      BY <3>1, <1>a, <1>g DEF RequestOK, Arriving
  <2>2. pc' = [pc EXCEPT ![t] = step] /\ req' = [req EXCEPT ![t] = q]
    BY <1>g DEF Begin
  <2> HIDE DEF q
  <2> QED
    BY <2>1, <2>2, <1>d
<1>h. ASSUME NEW t \in Threads
      PROVE  /\ RequestOK(pc[t], req[t], revoked)
             /\ M(t) = req[t].message
             /\ pc[t] # "idle" => M(t).consent \in Consents \cup {NoConsent}
                                  /\ M(t).purpose \in Purposes \cup {NoPurpose}
                                  /\ M(t).supersedes \in Deliveries \cup {NoDelivery}
             /\ req[t].barred \subseteq Consents
  BY <1>0, <1>c, MessageFields DEF RequestsOK, ReqOK, M
<1>1. CASE \E m \in Messages : Deliver(m)
  BY <1>1, <1>g, <1>b DEF Deliver
<1>2. CASE \E t \in Threads, m \in Records : Bring(t, m)
  BY <1>2, <1>g DEF Bring
<1>3. CASE Register
  <2>1. /\ RequestOK("tombstone", req[Loop], revoked)
        /\ RequestOK("sequence", req[Loop], revoked)
    BY <1>3, <1>b, <1>h DEF Register, RequestOK, Arriving
  <2> QED
    BY <2>1, <1>3, <1>b, <1>e, <1>f DEF Register
<1>4. CASE Tombstone
  <2>1. RequestOK("deletion_sequence", req[Loop], revoked)
    BY <1>4, <1>b, <1>h DEF Tombstone, RequestOK, Arriving
  <2> QED
    BY <2>1, <1>4, <1>b, <1>e DEF Tombstone
<1>5. CASE DeletionSequence \/ Supersede
  BY <1>5, <1>b, <1>f DEF DeletionSequence, Supersede
<1>6. CASE Sequence
  <2>1. RequestOK("purpose", req[Loop], revoked)
    BY <1>6, <1>b, <1>h DEF Sequence, RequestOK, Arriving
  <2> QED
    BY <2>1, <1>6, <1>b, <1>e, <1>f DEF Sequence
<1>7. CASE \E t \in Threads : CheckPurpose(t)
  <2>1. PICK t \in Threads : CheckPurpose(t)
    BY <1>7
  <2>2. /\ M(t).consent = NoConsent => RequestOK("ingest", req[t], revoked)
        /\ M(t).consent # NoConsent => RequestOK("revoked", req[t], revoked)
    BY <2>1, <1>h DEF CheckPurpose, RequestOK, Arriving
  <2> QED
    BY <2>1, <2>2, <1>e, <1>f DEF CheckPurpose
<1>8. CASE \E t \in Threads : CheckRevoked(t)
  <2>1. PICK t \in Threads : CheckRevoked(t)
    BY <1>8
  <2>2. M(t).consent \notin revoked =>
           /\ M(t).purpose = NoPurpose => RequestOK("ingest", req[t], revoked)
           /\ M(t).purpose # NoPurpose => RequestOK("attach", req[t], revoked)
    BY <2>1, <1>h DEF CheckRevoked, RequestOK, Arriving
  <2> QED
    BY <2>1, <2>2, <1>e, <1>f DEF CheckRevoked
<1>9. CASE \E t \in Threads : Attach(t)
  <2>1. PICK t \in Threads : Attach(t)
    BY <1>9
  <2>2. RequestOK("ingest", req[t], revoked)
    BY <2>1, <1>h DEF Attach, RequestOK, Arriving
  <2> QED
    BY <2>1, <2>2, <1>e DEF Attach
<1>10. CASE \E t \in Threads : Ingest(t)
  <2>1. PICK t \in Threads : Ingest(t)
    BY <1>10
  <2>2. M(t).supersedes # NoDelivery => RequestOK("supersede", req[t], revoked)
    BY <2>1, <1>h DEF Ingest, RequestOK, Arriving
  <2> QED
    BY <2>1, <2>2, <1>e, <1>f DEF Ingest
<1>11. CASE UNCHANGED <<pc, req>>
  BY <1>11, <1>0, <1>a DEF RequestsOK, RequestOK
<1>14. CASE \E t \in Threads : CallFails(t)
  BY <1>14, <1>0, <1>f, CallFailsStep
<1>12. CASE Crash
  BY <1>12 DEF Crash, RequestsOK, RequestOK, NoRequest, Arriving, Threads
<1>13. CASE \/ UNCHANGED vars \/ \E r \in Readers : Read(r)
            \/ (\E c \in Consents : Revoke(c)) \/ \E s \in Sources : DeleteSource(s)
  BY <1>13, <1>11, ReadStep DEF Revoke, DeleteSource
<1> QED
  BY <1>1, <1>2, <1>3, <1>4, <1>5, <1>6, <1>7, <1>8, <1>9, <1>10, <1>12, <1>13,
     <1>14 DEF Next, Materialize, Threads

(* A step of the loop's thread, for the proofs below.                      *)
LEMMA LoopStep ==
    ASSUME TablesInv, NEW p, Go(Loop, p) \/ Done(Loop)
    PROVE  /\ pc'[Loop] \in {p, "idle"}
           /\ pc'[Loop] # "idle" => M(Loop)' = M(Loop)
           /\ Go(Loop, p) => pc'[Loop] = p /\ M(Loop)' = M(Loop)
BY DEF TablesInv, TypeOK, ReqOK, Go, Done, M

(* Steps that leave the tables of deliveries alone: what the loop is about *)
(* stays, or it turns to something that no webhook brings.                 *)
LEMMA LoopElsewhere ==
    ASSUME TablesInv,
           \/ UNCHANGED vars \/ \E r \in Readers : Read(r)
           \/ (\E c \in Consents : Revoke(c)) \/ \E s \in Sources : DeleteSource(s)
           \/ Supersede \/ Crash
           \/ \E t \in Threads : \/ \E m \in Records : Bring(t, m)
                                 \/ Materialize(t) \/ CallFails(t)
    PROVE  /\ UNCHANGED registered
           /\ \/ UNCHANGED <<pc[Loop], M(Loop)>>
              \/ pc'[Loop] \notin Arriving
<1> USE DEF vars, tables, history
<1>0. /\ pc \in [Threads -> Steps \cup {"idle"}] /\ ReqOK /\ Loop \in Threads
  BY DEF TablesInv, TypeOK, Threads
<1>a. ASSUME NEW t \in Threads, NEW p, p \notin Arriving, Go(t, p) \/ Done(t)
      PROVE  UNCHANGED <<pc[Loop], M(Loop)>> \/ pc'[Loop] \notin Arriving
  BY <1>0, <1>a DEF Go, Done, M, ReqOK, Arriving
<1>1. CASE UNCHANGED <<pc, req, registered>>
  BY <1>1 DEF M
<1>2. CASE \/ UNCHANGED vars \/ \E r \in Readers : Read(r)
           \/ (\E c \in Consents : Revoke(c)) \/ \E s \in Sources : DeleteSource(s)
  BY <1>2, <1>1, ReadStep DEF Revoke, DeleteSource
<1>3. CASE Supersede
  BY <1>3, <1>0, <1>a DEF Supersede, Arriving
<1>4. CASE Crash
  BY <1>4, <1>0 DEF Crash, Arriving, Threads
<1>5. CASE \E t \in Threads, m \in Records : Bring(t, m)
  BY <1>5, <1>0 DEF Bring, Begin, M, ReqOK, Arriving
<1>6. CASE \E t \in Threads : Materialize(t)
  <2>1. PICK t \in Threads : CheckPurpose(t) \/ CheckRevoked(t) \/ Attach(t) \/ Ingest(t)
    BY <1>6 DEF Materialize
  <2>2. /\ UNCHANGED registered
        /\ \E p \in {"revoked", "attach", "ingest", "supersede"} : Go(t, p) \/ Done(t)
    BY <2>1 DEF CheckPurpose, CheckRevoked, Attach, Ingest
  <2>3. \A p \in {"revoked", "attach", "ingest", "supersede"} : p \notin Arriving
    BY DEF Arriving
  <2> QED
    BY <2>2, <2>3, <1>a
<1>7. CASE \E t \in Threads : CallFails(t)
  BY <1>7, <1>0, CallFailsStep DEF Arriving, TablesInv
<1> QED
  BY <1>2, <1>3, <1>4, <1>5, <1>6, <1>7

LEMMA LoopStays == TablesInv /\ [Next]_vars => LoopOK'
<1> SUFFICES ASSUME TablesInv, [Next]_vars PROVE LoopOK'
  OBVIOUS
<1> USE DEF vars, tables, history
<1>0. /\ TypeOK /\ ReqOK /\ LoopOK /\ Loop \in Threads
      /\ pc \in [Threads -> Steps \cup {"idle"}]
  BY DEF TablesInv, TypeOK, Threads
<1>a. tombstones \subseteq tombstones'
  BY TablesGrow
<1>1. CASE \E m \in Messages : Deliver(m)
  BY <1>1, <1>0 DEF Deliver, Begin, LoopOK, Arriving
<1>2. CASE Register
  <2>1. UNCHANGED <<tombstones>>
    BY <1>2 DEF Register
  <2>2. CASE Seen(M(Loop))
    BY <2>2, <1>2, <1>0, LoopStep DEF Register, LoopOK, Arriving
  <2>3. CASE ~Seen(M(Loop))
    <3>1. registered' = registered \cup {M(Loop)}
      BY <2>3, <1>2 DEF Register
    <3>2. \A m, n \in registered' : m.delivery = n.delivery => m = n
      BY <3>1, <2>3, <1>0 DEF Seen, LoopOK
    <3>3. /\ M(Loop)' = M(Loop)
          /\ \/ pc'[Loop] = "sequence"
             \/ pc'[Loop] = "tombstone" /\ M(Loop).kind = "tombstone"
      BY <2>3, <1>2, LoopStep DEF Register
    <3> QED
      BY <3>1, <3>2, <3>3 DEF LoopOK, Arriving
  <2> QED
    BY <2>2, <2>3
<1>3. CASE Tombstone
  BY <1>3, <1>0, LoopStep DEF Tombstone, LoopOK, Arriving
<1>4. CASE DeletionSequence
  BY <1>4, <1>0 DEF DeletionSequence, Done, LoopOK, Arriving
<1>5. CASE Sequence
  BY <1>5, <1>0, LoopStep DEF Sequence, LoopOK, Arriving
<1>6. CASE /\ UNCHANGED registered
           /\ UNCHANGED <<pc[Loop], M(Loop)>> \/ pc'[Loop] \notin Arriving
  <2>1. CASE UNCHANGED <<pc[Loop], M(Loop)>>
    BY <2>1, <1>6, <1>a, <1>0 DEF LoopOK
  <2>2. CASE pc'[Loop] \notin Arriving
    BY <2>2, <1>6, <1>0 DEF LoopOK, Arriving
  <2> QED
    BY <2>1, <2>2, <1>6
<1> QED
  BY <1>1, <1>2, <1>3, <1>4, <1>5, <1>6, LoopElsewhere DEF Next, Threads

(* What was answered is in the tables, and the other way round.            *)
LEMMA AnswersStay == TablesInv /\ [Next]_vars => AnswersOK'
<1> SUFFICES ASSUME TablesInv, [Next]_vars PROVE AnswersOK'
  OBVIOUS
<1> USE PocketAssumption DEF vars, tables, history
<1>0. /\ TypeOK /\ ReqOK /\ LoopOK /\ AnswersOK /\ Loop \in Threads
      /\ pc \in [Threads -> Steps \cup {"idle"}]
  BY DEF TablesInv, TypeOK, Threads
<1>a. /\ registered \subseteq registered' /\ tombstones \subseteq tombstones'
      /\ announced \subseteq announced' /\ cut \subseteq cut'
  BY TablesGrow
(* A deletion under way stays under way, unless it is answered or cut.     *)
<1>c. ASSUME pc[Loop] # "deletion_sequence" \/ UNCHANGED <<pc[Loop], M(Loop)>>
      PROVE  \A s \in tombstones : <<"source", s>> \in announced' \/ Deleting(s)'
  BY ZenonT(60), <1>0, <1>a, <1>c DEF AnswersOK, Deleting
<1>d. ASSUME UNCHANGED <<registered, superseded, tombstones, revoked, announced>>,
             pc[Loop] # "deletion_sequence" \/ UNCHANGED <<pc[Loop], M(Loop)>>
      PROVE  AnswersOK'
  <2>1. \A d \in Deliveries : SourceOf(d)' = SourceOf(d)
    BY <1>d DEF SourceOf
  <2> QED
    BY <2>1, <1>c, <1>d, <1>0 DEF AnswersOK
<1>1. CASE \E m \in Messages : Deliver(m)
  BY <1>1, <1>d DEF Deliver, Begin
<1>2. CASE \E t \in Threads, m \in Records : Bring(t, m)
  <2>1. PICK t \in Threads, m \in Records : Begin(t, m, "purpose")
    BY <1>2 DEF Bring
  <2>2. UNCHANGED <<pc[Loop], M(Loop)>> \/ pc[Loop] = "idle"
    BY <2>1, <1>0 DEF Begin, M, ReqOK
  <2> QED
    BY <2>1, <2>2, <1>d DEF Begin
<1>3. CASE Register
  <2>1. UNCHANGED <<superseded, tombstones, revoked, announced>>
        /\ pc[Loop] # "deletion_sequence"
    BY <1>3 DEF Register
  <2>2. CASE Seen(M(Loop))
    BY <2>1, <2>2, <1>3, <1>d DEF Register
  <2>3. CASE ~Seen(M(Loop))
    <3>1. registered' = registered \cup {M(Loop)}
      BY <2>3, <1>3 DEF Register
    <3>2. ASSUME NEW d \in Deliveries, superseded[d] \in Sources
          PROVE  SourceOf(d)' = {superseded[d]}
      <4>1. SourceOf(d) = {superseded[d]}
        BY <3>2, <1>0 DEF AnswersOK
      <4>2. M(Loop).delivery # d
        BY <4>1, <2>3 DEF Seen, SourceOf
      <4>3. SourceOf(d)' = SourceOf(d)
        BY <4>2, <3>1 DEF SourceOf
      <4> QED
        BY <4>1, <4>3
    <3> QED
      BY <2>1, <3>2, <1>c, <1>0 DEF AnswersOK
  <2> QED
    BY <2>2, <2>3
<1>4. CASE Tombstone
  <2>1. /\ pc[Loop] = "tombstone" /\ tombstones' = tombstones \cup {M(Loop).source}
        /\ UNCHANGED <<registered, superseded, revoked, announced>>
    BY <1>4 DEF Tombstone
  <2>2. pc'[Loop] = "deletion_sequence" /\ M(Loop)' = M(Loop)
    BY <1>4, LoopStep DEF Tombstone
  <2>3. M(Loop) \in registered /\ M(Loop).kind = "tombstone"
    BY <2>1, <1>0 DEF LoopOK, Arriving
  <2>4. \A d \in Deliveries : SourceOf(d)' = SourceOf(d)
    BY <2>1 DEF SourceOf
  <2>5. \A s \in tombstones' : <<"source", s>> \in announced' \/ Deleting(s)'
    <3>1. \A s \in tombstones : <<"source", s>> \in announced' \/ Deleting(s)'
      BY <2>1, <1>c
    <3>2. \A s \in tombstones' : s \in tombstones \/ s = M(Loop).source
      BY <2>1
    <3>3. PICK x : x = M(Loop).source
      OBVIOUS
    <3>4. Deleting(x)'
      BY <2>1, <2>2, <2>3, <3>3 DEF Deleting
    <3> QED
      BY <3>1, <3>2, <3>3, <3>4
  <2> QED
    BY <2>1, <2>4, <2>5, <1>0 DEF AnswersOK
<1>5. CASE DeletionSequence
  <2>1. /\ pc[Loop] = "deletion_sequence"
        /\ announced' = announced \cup {<<"source", M(Loop).source>>}
        /\ UNCHANGED <<registered, superseded, tombstones, revoked, cut>>
    BY <1>5 DEF DeletionSequence
  <2>2. M(Loop).source \in tombstones
    BY <2>1, <1>0 DEF LoopOK
  <2>3. \A s \in tombstones : <<"source", s>> \in announced' \/ Deleting(s)'
    <3> SUFFICES ASSUME NEW s \in tombstones, <<"source", s>> \notin announced'
        PROVE  Deleting(s)'
      OBVIOUS
    <3>1. <<"source", s>> \notin announced /\ s # M(Loop).source
      BY <2>1
    <3>2. PICK m \in registered : m.kind = "tombstone" /\ m.source = s /\ m \in cut
      BY <3>1, <1>0 DEF AnswersOK, Deleting
    <3> QED
      BY <3>2, <2>1 DEF Deleting
  <2>4. \A d \in Deliveries : SourceOf(d)' = SourceOf(d)
    BY <2>1 DEF SourceOf
  <2> QED
    BY <2>1, <2>2, <2>3, <2>4, <1>0 DEF AnswersOK
<1>6. CASE Sequence
  BY <1>6, <1>d DEF Sequence
<1>7. CASE Supersede
  <2>1. M(Loop).supersedes \in Deliveries
    BY <1>0, <1>7 DEF Supersede, TablesInv, RequestsOK, RequestOK, M
  <2>2. PICK d \in Deliveries : d = M(Loop).supersedes
    BY <2>1
  <2>3. /\ superseded' = [superseded EXCEPT ![d] =
                            IF SourceOf(d) = {} THEN Unknown
                            ELSE CHOOSE s \in SourceOf(d) : TRUE]
        /\ announced' = announced \cup {<<"delivery", d>>}
        /\ pc[Loop] = "supersede"
        /\ UNCHANGED <<registered, tombstones, revoked>>
    BY <1>7, <2>2 DEF Supersede
  <2>4. SourceOf(d) \subseteq Sources
    BY MessageFields, <1>0 DEF SourceOf, TypeOK
  <2>5. /\ SourceOf(d) = {} => superseded'[d] = Unknown
        /\ SourceOf(d) # {} => superseded'[d] \in SourceOf(d)
        /\ \A e \in Deliveries \ {d} : superseded'[e] = superseded[e]
    <3>1. SourceOf(d) # {} => (CHOOSE s \in SourceOf(d) : TRUE) \in SourceOf(d)
      OBVIOUS
    <3> QED
      BY <2>3, <3>1, <1>0 DEF TypeOK
  <2>6. \A x, y \in SourceOf(d) : x = y
    BY <1>0 DEF SourceOf, LoopOK
  <2>7. \A e \in Deliveries : SourceOf(e)' = SourceOf(e)
    BY <2>3 DEF SourceOf
  <2>8. superseded'[d] \in Sources => SourceOf(d) = {superseded'[d]}
    BY <2>5, <2>6
  <2>9. superseded'[d] # NotSuperseded
    BY <2>4, <2>5 DEF NotSuperseded, Unknown
  <2>10. \A e \in Deliveries : superseded'[e] \in Sources =>
                               SourceOf(e)' = {superseded'[e]}
    BY <2>5, <2>7, <2>8, <1>0 DEF AnswersOK
  <2>11. \A e \in Deliveries :
            <<"delivery", e>> \in announced' <=> superseded'[e] # NotSuperseded
    BY <2>3, <2>5, <2>9, <1>0 DEF AnswersOK
  <2>12. \A s \in tombstones : <<"source", s>> \in announced' \/ Deleting(s)'
    BY <2>3, <1>c
  <2> QED
    BY <2>3, <2>10, <2>11, <2>12, <1>0 DEF AnswersOK
<1>8. CASE \E t \in Threads : Materialize(t)
  <2>1. PICK t \in Threads : Materialize(t)
    BY <1>8
  <2>2. UNCHANGED <<pc[Loop], M(Loop)>> \/ pc[Loop] # "deletion_sequence"
    BY <2>1, <1>0 DEF Materialize, CheckPurpose, CheckRevoked, Attach, Ingest, Go,
                      Done, M, ReqOK
  <2>3. UNCHANGED <<registered, superseded, tombstones, revoked, announced>>
    BY <2>1 DEF Materialize, CheckPurpose, CheckRevoked, Attach, Ingest
  <2> QED
    BY <2>2, <2>3, <1>d
<1>9. CASE \E c \in Consents : Revoke(c)
  <2>1. PICK c \in Consents : Revoke(c)
    BY <1>9
  <2>2. /\ revoked' = revoked \cup {c}
        /\ announced' = announced \cup {<<"consent", c>>}
        /\ UNCHANGED <<registered, superseded, tombstones, pc, req>>
    BY <2>1 DEF Revoke
  <2>3. \A d \in Deliveries : SourceOf(d)' = SourceOf(d)
    BY <2>2 DEF SourceOf
  <2>4. \A s \in tombstones : <<"source", s>> \in announced' \/ Deleting(s)'
    BY <2>2, <1>c DEF M
  <2> QED
    BY <2>2, <2>3, <2>4, <1>0 DEF AnswersOK
<1>10. CASE \E s \in Sources : DeleteSource(s)
  <2>1. PICK x \in Sources : DeleteSource(x)
    BY <1>10
  <2>2. /\ tombstones' = tombstones \cup {x}
        /\ announced' = announced \cup {<<"source", x>>}
        /\ UNCHANGED <<registered, superseded, revoked, pc, req>>
    BY <2>1 DEF DeleteSource
  <2>3. \A d \in Deliveries : SourceOf(d)' = SourceOf(d)
    BY <2>2 DEF SourceOf
  <2>4. \A s \in tombstones : <<"source", s>> \in announced' \/ Deleting(s)'
    BY <2>2, <1>c DEF M
  <2> QED
    BY <2>2, <2>3, <2>4, <1>0 DEF AnswersOK
<1>11. CASE UNCHANGED vars \/ \E r \in Readers : Read(r)
  <2>1. UNCHANGED <<tables, pc, req, history>>
    BY <1>11, ReadStep
  <2> QED
    BY <2>1, <1>d DEF M
<1>12. CASE Crash \/ \E t \in Threads : CallFails(t)
  <2>1. /\ \/ cut' = cut \cup {m \in registered : InHand(m)}
           \/ UNCHANGED <<cut, pc[Loop], M(Loop)>>
        /\ UNCHANGED <<registered, superseded, tombstones, revoked, announced>>
    BY <1>12, <1>0, CallFailsStep DEF Crash
  <2>2. \A s \in tombstones : Deleting(s) => Deleting(s)'
    BY <2>1 DEF Deleting, InHand
  <2>3. \A d \in Deliveries : SourceOf(d)' = SourceOf(d)
    BY <2>1 DEF SourceOf
  <2> QED
    BY <2>1, <2>2, <2>3, <1>0 DEF AnswersOK
<1> QED
  BY <1>1, <1>2, <1>3, <1>4, <1>5, <1>6, <1>7, <1>8, <1>9, <1>10, <1>11, <1>12
  DEF Next, Threads

-----------------------------------------------------------------------------
(* What was answered to be withdrawn is withdrawn in the tables.           *)
LEMMA GoneIsWithdrawn == TablesInv => Gone \subseteq Withdrawn \cap DOMAIN stored
<1> SUFFICES ASSUME TablesInv, NEW s \in Gone PROVE s \in Withdrawn
  BY DEF Gone
<1>0. s \in DOMAIN stored /\ s \in Sources
  BY DEF Gone, TablesInv, TypeOK
<1>1. CASE <<"source", s>> \in announced
  BY <1>0, <1>1 DEF TablesInv, AnswersOK, Withdrawn
<1>2. CASE \E d \in Deliveries : <<"delivery", d>> \in announced /\ s \in SourceOf(d)
  <2>1. PICK d \in Deliveries : superseded[d] # NotSuperseded /\ s \in SourceOf(d)
    BY <1>2 DEF TablesInv, AnswersOK
  <2>2. superseded[d] = Unknown \/ SourceOf(d) = {superseded[d]}
    BY <2>1 DEF TablesInv, AnswersOK, TypeOK
  <2>3. s \in Superseded
    BY <1>0, <2>1, <2>2 DEF Superseded
  <2> QED
    BY <2>3 DEF Withdrawn
<1>3. CASE <<"consent", stored[s]>> \in announced
  <2>1. stored[s] \in Consents
    BY <1>3 DEF TablesInv, TypeOK
  <2> QED
    BY <1>0, <1>3, <2>1 DEF TablesInv, AnswersOK, Withdrawn, OfRevoked
<1> QED
  BY <1>1, <1>2, <1>3 DEF Gone

(* Without any deletion, edit or consent nothing is withdrawn.             *)
LEMMA NoStateWithdrawsNothing == TablesInv /\ ~HasPocketState => Withdrawn = {}
<1> SUFFICES ASSUME TablesInv, ~HasPocketState PROVE Withdrawn = {}
  OBVIOUS
<1>1. tombstones = {}
  BY DEF HasPocketState
<1>2. Superseded = {}
  BY PocketAssumption
  DEF HasPocketState, HasSupersessions, Superseded, NotSuperseded, Unknown
<1>3. revoked = {}
  BY DEF HasPocketState, TablesInv, TypeOK
<1> QED
  BY <1>1, <1>2, <1>3 DEF Withdrawn, OfRevoked

(* A reader's own step, and the steps of everyone else.                    *)
LEMMA ReadsStay == TablesInv /\ ReadsOK /\ [Next]_vars => ReadsOK'
<1> SUFFICES ASSUME TablesInv, ReadsOK, [Next]_vars PROVE ReadsOK'
  OBVIOUS
<1> USE DEF vars, tables, history
<1>0. read \in [Readers -> Reading]
  BY DEF TablesInv, TypeOK
<1>a. /\ Superseded \subseteq Superseded' /\ OfRevoked \subseteq OfRevoked'
      /\ Withdrawn \subseteq Withdrawn' /\ DOMAIN stored \subseteq DOMAIN stored'
  BY TablesGrow, ReasonsGrow
<1>1. CASE UNCHANGED read
  BY <1>1, <1>a DEF ReadsOK, ReadOK
<1>2. CASE Crash
  BY <1>2 DEF Crash, ReadsOK, ReadOK, NotReading
<1>3. CASE \E r \in Readers : Read(r)
  <2>1. PICK r \in Readers : Read(r)
    BY <1>3
  <2>2. PICK x : x = read[r]
    OBVIOUS
  <2>3. x \in Reading /\ ReadOK(x)
    BY <2>2, <1>0 DEF ReadsOK
  <2>4. UNCHANGED <<tables, history>>
    BY <2>1, ReadStep
  <2>a. ASSUME NEW new, ReadOn(r, new), ReadOK(new) PROVE ReadsOK'
    <3>1. ReadOK(new)'
      BY <2>a, <1>a DEF ReadOK
    <3>2. read' = [read EXCEPT ![r] = new]
      BY <2>a DEF ReadOn
    <3> SUFFICES ASSUME NEW u \in Readers PROVE ReadOK(read[u])'
      BY DEF ReadsOK
    <3>3. CASE u = r
      BY <3>1, <3>2, <3>3, <1>0 DEF ReadOK
    <3>4. CASE u # r
      <4>1. read'[u] = read[u] /\ ReadOK(read[u])
        BY <3>2, <3>4, <1>0 DEF ReadsOK
      <4> QED
        BY <4>1, <1>a DEF ReadOK
    <3> QED
      BY <3>3, <3>4
  <2>5. CASE ReadRows(r)
    <3>1. ReadOK([NotReading EXCEPT !.step = "state", !.todo = DOMAIN stored,
                                    !.gone = Gone])
      BY GoneIsWithdrawn DEF ReadOK, NotReading
    <3> QED
      BY <2>5, <3>1, <2>a DEF ReadRows
  <2>6. CASE CheckState(r)
    <3>1. ReadOK([x EXCEPT !.step = "tombstone"])
      BY <2>3 DEF ReadOK, Reading
    <3>2. ~HasPocketState => x.gone = {}
      BY <2>3, NoStateWithdrawsNothing DEF ReadOK
    <3>3. ~HasPocketState => ReadOK([x EXCEPT !.step = "tombstone", !.todo = {},
                                              !.kept = x.todo])
      BY <2>3, <3>2 DEF ReadOK, Reading
    <3> QED
      BY <2>6, <2>2, <3>1, <3>3, <2>a DEF CheckState
  <2>b. ReadOK(Drop(r))
    BY <2>2, <2>3 DEF ReadOK, Reading, Drop
  <2>7. CASE CheckTombstone(r)
    <3>1. PICK s \in x.todo :
             ReadOn(r, [x EXCEPT
                          !.todo = @ \ {s},
                          !.row = IF s \in tombstones THEN {} ELSE {s},
                          !.step = IF s \in tombstones THEN @ ELSE "superseded"])
             /\ x.step = "tombstone"
      BY <2>7, <2>2 DEF CheckTombstone
    <3>2. s \in Sources
      BY <2>3, <3>1 DEF Reading
    <3>3. s \in x.gone \ tombstones => s \in Superseded \cup OfRevoked
      BY <2>3 DEF ReadOK, Withdrawn
    <3>4. CASE s \in tombstones
      <4>1. ReadOK([x EXCEPT !.todo = @ \ {s}, !.row = {}, !.step = x.step])
        BY <2>3, <3>1, <3>4 DEF ReadOK, Reading
      <4> QED
        BY <3>1, <3>4, <4>1, <2>a
    <3>5. CASE s \notin tombstones
      <4>1. ReadOK([x EXCEPT !.todo = @ \ {s}, !.row = {s}, !.step = "superseded"])
        BY <2>3, <3>2, <3>3, <3>5 DEF ReadOK, Reading
      <4> QED
        BY <3>1, <3>5, <4>1, <2>a
    <3> QED
      BY <3>4, <3>5
  <2>8. CASE CheckSuperseded(r)
    <3>1. ASSUME ~(x.row \subseteq Superseded)
          PROVE  ReadOK([x EXCEPT !.step = "consent"])
      <4>1. x.step = "superseded"
        BY <2>8, <2>2 DEF CheckSuperseded
      <4>2. PICK s \in Sources : x.row = {s}
        BY <4>1, <2>3 DEF ReadOK
      <4>3. x.row \cap x.gone \subseteq OfRevoked
        BY <4>1, <4>2, <3>1, <2>3 DEF ReadOK
      <4> QED
        BY <4>2, <4>3, <2>3 DEF ReadOK, Reading
    <3> QED
      BY <2>8, <2>2, <3>1, <2>a, <2>b DEF CheckSuperseded
  <2>9. CASE CheckConsent(r)
    <3>1. PICK s \in x.row :
             ReadOn(r, IF stored[s] \in revoked THEN Drop(r)
                       ELSE [Drop(r) EXCEPT !.kept = @ \cup {s}])
             /\ x.step = "consent"
      BY <2>9, <2>2 DEF CheckConsent
    <3>2. stored[s] \notin revoked => s \notin x.gone
      BY <2>3, <3>1 DEF ReadOK, OfRevoked
    <3>3. stored[s] \notin revoked => ReadOK([Drop(r) EXCEPT !.kept = @ \cup {s}])
      BY <2>2, <2>3, <3>2 DEF ReadOK, Reading, Drop
    <3> QED
      BY <3>1, <3>3, <2>a, <2>b
  <2>10. CASE Serve(r)
    <3>1. ReadOK(NotReading)
      BY DEF ReadOK, NotReading
    <3> QED
      BY <2>10, <3>1, <2>a DEF Serve
(* What is kept without a check is unchecked.                              *)
  <2>11. CASE CheckFails(r)
    <3>1. PICK S : Keep(r, S)
      BY <2>11 DEF CheckFails
    <3>2. PICK y : y = Drop(r)
      OBVIOUS
    <3>3. ReadOn(r, [y EXCEPT !.todo = @ \ S, !.kept = @ \cup S,
                              !.unchecked = @ \cup (S \cap y.gone)])
      BY <3>1, <3>2, <2>2, <2>3 DEF Keep, Drop, Reading
    <3>4. y \in [step : {"tombstone"}, todo : SUBSET Sources, row : {{}},
                kept : SUBSET Sources, gone : SUBSET Sources,
                unchecked : SUBSET Sources]
      BY <3>2, <2>2, <2>3 DEF Drop, Reading
    <3>5. ReadOK([y EXCEPT !.todo = @ \ S, !.kept = @ \cup S,
                           !.unchecked = @ \cup (S \cap y.gone)])
      BY <3>2, <3>4, <2>b DEF ReadOK
    <3> QED
      BY <3>3, <3>5, <2>a
  <2> QED
    BY <2>1, <2>5, <2>6, <2>7, <2>8, <2>9, <2>10, <2>11 DEF Read
<1>4. CASE \/ UNCHANGED vars \/ \E m \in Messages : Deliver(m)
           \/ \E t \in Threads : \/ \E m \in Records : Bring(t, m)
                                 \/ Materialize(t) \/ CallFails(t)
           \/ Register \/ Tombstone \/ DeletionSequence \/ Sequence \/ Supersede
           \/ (\E c \in Consents : Revoke(c)) \/ \E s \in Sources : DeleteSource(s)
  <2>1. UNCHANGED read
    BY <1>4 DEF Deliver, Bring, Begin, Register, Tombstone, DeletionSequence,
                Sequence, Supersede, Materialize, CheckPurpose, CheckRevoked, Attach,
                Ingest, CallFails, Revoke, DeleteSource
  <2> QED
    BY <2>1, <1>1
<1> QED
  BY <1>2, <1>3, <1>4 DEF Next, Threads

-----------------------------------------------------------------------------
(* Deliveries are not lost.  A consent that forbids one does so for good;  *)
(* a high-water mark is the number of a delivery whose turn has passed.    *)
ForbiddenForGood(m) ==
    /\ m.consent # NoConsent
    /\ \/ m.consent \in revoked \cup contested
       \/ purposes[m.consent] \notin {NoPurpose, m.purpose}

Settled(m) == \/ m \in cut \/ ForbiddenForGood(m)
              \/ m.supersedes = NoDelivery /\ Outdated(m)
              \/ /\ m.source \in DOMAIN stored
                 /\ \/ m.supersedes = NoDelivery
                    \/ superseded[m.supersedes] # NotSuperseded

MarksOK == \A v \in Conversations : applied[v] # -1 =>
              \E n \in registered : /\ n.conversation = v /\ n.sequence = applied[v]
                                    /\ ~(pc[Loop] \in Arriving \ {"register"}
                                         /\ M(Loop) = n)

KeptOK == /\ \A m \in registered : m.kind = "content" /\ m.valid /\ ~m.live =>
                InHand(m) \/ Settled(m)
          /\ pc[Loop] = "supersede" => M(Loop).source \in DOMAIN stored

DeletionsOK == \A m \in registered : m.kind = "tombstone" =>
                  \/ pc[Loop] = "tombstone" /\ M(Loop) = m
                  \/ m.source \in tombstones \/ m \in cut

(* A message that is settled stays so.                                     *)
LEMMA SettledStays ==
    ASSUME TablesInv, [Next]_vars, NEW m \in registered, Settled(m)
    PROVE  Settled(m)'
<1> USE DEF vars, tables, history
<1>0. /\ m \in Messages /\ m.consent \in Consents \cup {NoConsent}
      /\ m.supersedes \in Deliveries \cup {NoDelivery}
  BY MessageFields DEF TablesInv, TypeOK
<1>1. CASE \/ m \in cut
           \/ /\ m.source \in DOMAIN stored
              /\ \/ m.supersedes = NoDelivery
                 \/ superseded[m.supersedes] # NotSuperseded
  BY <1>0, <1>1, TablesGrow DEF Settled
<1>2. CASE m.supersedes = NoDelivery /\ Outdated(m)
  BY <1>2, TablesGrow DEF Settled, Outdated
<1>3. CASE ForbiddenForGood(m)
  <2>1. CASE m.consent \in revoked \cup contested
    BY <1>3, <2>1, TablesGrow DEF Settled, ForbiddenForGood
  <2>2. CASE /\ purposes[m.consent] \notin {NoPurpose, m.purpose}
             /\ m.consent \notin revoked \cup contested
    <3>1. m.consent \in Consents
      BY <1>0, <1>3 DEF ForbiddenForGood
    <3>2. CASE \E t \in Threads : Attach(t)
      <4>1. PICK t \in Threads : Attach(t)
        BY <3>2
      <4>2. \/ UNCHANGED <<purposes, contested>>
            \/ /\ purposes' = [purposes EXCEPT ![M(t).consent] = M(t).purpose]
               /\ contested' = IF purposes[M(t).consent] \in {NoPurpose, M(t).purpose}
                               THEN contested ELSE contested \cup {M(t).consent}
        BY <4>1 DEF Attach, Contests
      <4>3. purposes \in [Consents -> Purposes \cup {NoPurpose}]
        BY DEF TablesInv, TypeOK
      <4>4. \/ m.consent \in contested'
            \/ purposes'[m.consent] = purposes[m.consent]
        BY <4>2, <4>3, <3>1, <2>2
      <4> QED
        BY <4>4, <2>2, <1>3 DEF Settled, ForbiddenForGood
    <3>3. CASE UNCHANGED purposes
      BY <3>3, <2>2, <1>3 DEF Settled, ForbiddenForGood
    <3>4. UNCHANGED purposes \/ \E t \in Threads : Attach(t)
      BY ReadStep
      DEF Next, Threads, Deliver, Bring, Begin, Register, Tombstone,
          DeletionSequence, Sequence, Supersede, Materialize, CheckPurpose,
          CheckRevoked, Ingest, CallFails, Revoke, DeleteSource, Crash
    <3> QED
      BY <3>2, <3>3, <3>4
  <2> QED
    BY <2>1, <2>2, <1>3 DEF ForbiddenForGood
<1> QED
  BY <1>1, <1>2, <1>3 DEF Settled

LEMMA MarksStay == TablesInv /\ MarksOK /\ [Next]_vars => MarksOK'
<1> SUFFICES ASSUME TablesInv, MarksOK, [Next]_vars PROVE MarksOK'
  OBVIOUS
<1> USE PocketAssumption DEF vars, tables, history
<1>0. /\ TypeOK /\ ReqOK /\ LoopOK /\ Loop \in Threads
      /\ pc \in [Threads -> Steps \cup {"idle"}]
  BY DEF TablesInv, TypeOK, Threads
<1>a. ASSUME UNCHANGED <<registered, applied>>,
             UNCHANGED <<pc[Loop], M(Loop)>> \/ pc'[Loop] \notin Arriving
      PROVE  MarksOK'
  <2>1. CASE UNCHANGED <<pc[Loop], M(Loop)>>
    BY <1>a, <2>1 DEF MarksOK
  <2>2. CASE pc'[Loop] \notin Arriving
    BY <1>a, <2>2 DEF MarksOK
  <2> QED
    BY <1>a, <2>1, <2>2
<1>1. CASE \E m \in Messages : Deliver(m)
  BY <1>1, <1>0 DEF Deliver, Begin, MarksOK, Arriving
<1>2. CASE Register
  <2>1. UNCHANGED applied /\ pc[Loop] = "register"
    BY <1>2 DEF Register
  <2>2. CASE Seen(M(Loop))
    BY <2>2, <1>2, <1>0, <1>a DEF Register, Done, Arriving
  <2>3. CASE ~Seen(M(Loop))
    <3>1. registered' = registered \cup {M(Loop)} /\ M(Loop) \notin registered
      BY <2>3, <1>2 DEF Register, Seen
    <3>2. M(Loop)' = M(Loop)
      BY <2>3, <1>2, LoopStep DEF Register
    <3> QED
      BY <2>1, <3>1, <3>2 DEF MarksOK
  <2> QED
    BY <2>2, <2>3
<1>3. CASE Tombstone
  BY <1>3, <1>0, LoopStep DEF Tombstone, MarksOK, Arriving
<1>4. CASE DeletionSequence \/ Sequence
  <2>1. PICK n \in registered : n = M(Loop)
    BY <1>4, <1>0 DEF DeletionSequence, Sequence, LoopOK, Arriving
  <2>2. /\ n.conversation \in Conversations /\ n.sequence \in Nat
        /\ applied \in [Conversations -> Nat \cup {-1}]
    BY <1>0, MessageFields DEF TypeOK
  <2>3. /\ applied' = IF n.sequence > applied[n.conversation]
                      THEN [applied EXCEPT ![n.conversation] = n.sequence]
                      ELSE applied
        /\ UNCHANGED registered
    BY <1>4, <2>1 DEF DeletionSequence, Sequence, ApplySequence, Fresh
  <2>4. pc'[Loop] \notin Arriving
    BY <1>4, <1>0 DEF DeletionSequence, Sequence, Go, Done, Arriving
  <2>5. ASSUME NEW v \in Conversations, applied'[v] # -1
        PROVE  \E k \in registered : k.conversation = v /\ k.sequence = applied'[v]
    <3>1. CASE applied'[v] = applied[v]
      BY <3>1, <2>5 DEF MarksOK
    <3>2. CASE applied'[v] # applied[v]
      BY <3>2, <2>2, <2>3
    <3> QED
      BY <3>1, <3>2
  <2> QED
    BY <2>3, <2>4, <2>5 DEF MarksOK
<1>5. CASE \/ UNCHANGED vars \/ \E r \in Readers : Read(r)
           \/ (\E c \in Consents : Revoke(c)) \/ \E s \in Sources : DeleteSource(s)
           \/ Supersede \/ Crash
           \/ \E t \in Threads : \/ \E m \in Records : Bring(t, m)
                                 \/ Materialize(t) \/ CallFails(t)
  <2>1. UNCHANGED applied
    BY <1>5, ReadStep
    DEF Bring, Begin, Supersede, Materialize, CheckPurpose, CheckRevoked, Attach,
        Ingest, CallFails, Revoke, DeleteSource, Crash
  <2>2. /\ UNCHANGED registered
        /\ UNCHANGED <<pc[Loop], M(Loop)>> \/ pc'[Loop] \notin Arriving
    BY <1>5, LoopElsewhere
  <2> QED
    BY <2>1, <2>2, <1>a
<1> QED
  BY <1>1, <1>2, <1>3, <1>4, <1>5 DEF Next, Threads

(* What the loop lets go of is settled.                                    *)
LEMMA KeptStays == TablesInv /\ MarksOK /\ KeptOK /\ [Next]_vars => KeptOK'
<1> SUFFICES ASSUME TablesInv, MarksOK, KeptOK, [Next]_vars PROVE KeptOK'
  OBVIOUS
<1> USE PocketAssumption DEF vars, tables, history
<1>0. /\ TypeOK /\ ReqOK /\ LoopOK /\ Loop \in Threads
      /\ pc \in [Threads -> Steps \cup {"idle"}]
  BY DEF TablesInv, TypeOK, Threads
<1>a. DOMAIN stored \subseteq DOMAIN stored'
  BY TablesGrow
<1>b. \A m \in registered : Settled(m) => Settled(m)'
  BY SettledStays
(* Enough: nothing is registered, and the loop goes on with what it is     *)
(* about unless that is settled.                                           *)
<1>c. ASSUME UNCHANGED registered,
             \A m \in registered : /\ m.kind = "content" /\ m.valid /\ ~m.live
                                   /\ InHand(m)
                                   => InHand(m)' \/ Settled(m)',
             pc'[Loop] = "supersede" => M(Loop)'.source \in DOMAIN stored'
      PROVE  KeptOK'
  BY <1>b, <1>c DEF KeptOK
<1>1. CASE \/ \E m \in Messages : Deliver(m)
           \/ \E t \in Threads, m \in Records : Bring(t, m)
  <2>1. UNCHANGED registered
    BY <1>1 DEF Deliver, Bring, Begin
  <2>2. \/ UNCHANGED <<pc[Loop], M(Loop)>>
        \/ pc[Loop] = "idle" /\ pc'[Loop] \in {"register", "purpose"}
    BY <1>1, <1>0 DEF Deliver, Bring, Begin, M, ReqOK
  <2>3. \A m : InHand(m) => InHand(m)'
    BY <2>2 DEF InHand
  <2>4. pc'[Loop] = "supersede" => M(Loop)'.source \in DOMAIN stored'
    BY <2>2, <1>a DEF KeptOK
  <2> QED
    BY <2>1, <2>3, <2>4, <1>c
<1>2. CASE Register
  <2>1. pc[Loop] = "register"
    BY <1>2 DEF Register
  <2>2. \A m : ~InHand(m)
    BY <2>1 DEF InHand
  <2>3. CASE Seen(M(Loop))
    <3>1. UNCHANGED registered /\ pc'[Loop] = "idle"
      BY <2>3, <1>2, <1>0 DEF Register, Done
    <3> QED
      BY <3>1, <2>2, <1>c
  <2>4. CASE ~Seen(M(Loop))
    <3>1. /\ registered' = registered \cup {M(Loop)}
          /\ M(Loop)' = M(Loop) /\ pc'[Loop] \in {"tombstone", "sequence"}
      BY <2>4, <1>2, LoopStep DEF Register
    <3>2. InHand(M(Loop))'
      BY <3>1 DEF InHand
    <3>3. PICK x : x = M(Loop)
      OBVIOUS
    <3>4. registered' = registered \cup {x} /\ InHand(x)'
      BY <3>1, <3>3 DEF InHand
    <3>5. \A m \in registered : m.kind = "content" /\ m.valid /\ ~m.live => Settled(m)'
      BY <2>2, <1>b DEF KeptOK
    <3> QED
      BY <3>1, <3>4, <3>5 DEF KeptOK
  <2> QED
    BY <2>3, <2>4
<1>3. CASE Tombstone \/ DeletionSequence
  <2>1. /\ UNCHANGED registered /\ pc'[Loop] \in {"deletion_sequence", "idle"}
        /\ M(Loop).kind = "tombstone"
    BY <1>3, <1>0 DEF Tombstone, DeletionSequence, Go, Done, LoopOK
  <2>2. \A m \in registered : InHand(m) => m.kind = "tombstone"
    BY <2>1 DEF InHand
  <2> QED
    BY <2>1, <2>2, <1>c
(* A stale message is outdated by the one that set the mark.               *)
<1>4. CASE Sequence
  <2>1. PICK m \in registered : m = M(Loop) /\ pc[Loop] = "sequence"
    BY <1>4, <1>0 DEF Sequence, LoopOK, Arriving
  <2>2. UNCHANGED registered /\ pc'[Loop] # "supersede"
    BY <1>4, <1>0 DEF Sequence, Go, Done
  <2>3. \/ pc'[Loop] = "purpose" /\ M(Loop)' = m
        \/ m.live
        \/ m.supersedes = NoDelivery /\ ~Fresh(m)
    BY <1>4, <2>1, LoopStep DEF Sequence
  <2>4. ASSUME ~Fresh(m), m.supersedes = NoDelivery PROVE Settled(m)'
    <3>1. /\ m.conversation \in Conversations /\ m.sequence \in Nat
          /\ applied[m.conversation] \in Nat \cup {-1}
      BY <1>0, MessageFields DEF TypeOK
    <3>2. applied[m.conversation] # -1 /\ applied[m.conversation] >= m.sequence
      BY <3>1, <2>4 DEF Fresh
    <3>3. PICK n \in registered : /\ n.conversation = m.conversation
                                  /\ n.sequence = applied[m.conversation]
                                  /\ n # m
      BY <3>1, <3>2, <2>1 DEF MarksOK, Arriving
    <3>4. Outdated(m)
      BY <3>2, <3>3 DEF Outdated
    <3> QED
      BY <3>4, <2>4, <1>b DEF Settled
  <2>5. \A n \in registered : InHand(n) => n = m
    BY <2>1 DEF InHand
  <2>6. ~m.live => InHand(m)' \/ Settled(m)'
    BY <2>3, <2>4 DEF InHand
  <2> QED
    BY <2>2, <2>5, <2>6, <1>c
<1>5. CASE Supersede
  <2>1. /\ pc[Loop] = "supersede" /\ UNCHANGED registered /\ pc'[Loop] = "idle"
        /\ M(Loop).source \in DOMAIN stored
    BY <1>5, <1>0 DEF Supersede, Done, KeptOK
  <2>2. PICK d \in Deliveries : d = M(Loop).supersedes
    BY <2>1, <1>0 DEF TablesInv, RequestsOK, RequestOK, M
  <2>3. <<"delivery", d>> \in announced'
    BY <1>5, <2>2 DEF Supersede
  <2>4. superseded'[d] # NotSuperseded
    BY <2>3, AnswersStay DEF AnswersOK
  <2>5. \A m \in registered : InHand(m) => m.source \in DOMAIN stored'
                                          /\ m.supersedes = d
    BY <2>1, <2>2, <1>a DEF InHand
  <2>6. \A m \in registered : InHand(m) => Settled(m)'
    BY <2>4, <2>5 DEF Settled
  <2> QED
    BY <2>1, <2>6, <1>c
<1>6. ASSUME NEW t \in Threads, t # Loop, Materialize(t) \/ CallFails(t)
      PROVE  KeptOK'
  <2>1. UNCHANGED <<registered, pc[Loop], M(Loop)>>
    BY <1>6, <1>0 DEF Materialize, CheckPurpose, CheckRevoked, Attach, Ingest,
                      CallFails, Go, Done, M, ReqOK
  <2> QED
    BY <2>1, <1>a, <1>c DEF InHand, KeptOK
<1>d. \A m \in registered : InHand(m) => m = M(Loop)
  BY DEF InHand
<1>7. CASE CheckPurpose(Loop)
  <2>1. /\ pc[Loop] = "purpose" /\ UNCHANGED registered
        /\ pc'[Loop] \in {"idle", "ingest", "revoked"}
    BY <1>7, <1>0 DEF CheckPurpose, Go, Done
  <2>2. \/ pc'[Loop] \in {"ingest", "revoked"} /\ M(Loop)' = M(Loop)
        \/ ~M(Loop).valid \/ ForbiddenForGood(M(Loop))
    BY <1>7, LoopStep DEF CheckPurpose, ForbiddenForGood
  <2>3. \A m \in registered : m.valid /\ InHand(m) => InHand(m)' \/ Settled(m)
    BY <2>2, <1>d DEF InHand, Settled
  <2> QED
    BY <2>1, <2>3, <1>b, <1>c
<1>8. CASE CheckRevoked(Loop)
  <2>1. /\ pc[Loop] = "revoked" /\ UNCHANGED registered
        /\ pc'[Loop] \in {"idle", "ingest", "attach"}
    BY <1>8, <1>0 DEF CheckRevoked, Go, Done
  <2>2. M(Loop).consent \in Consents
    BY <2>1, <1>0 DEF TablesInv, RequestsOK, RequestOK, M
  <2>3. \/ pc'[Loop] \in {"ingest", "attach"} /\ M(Loop)' = M(Loop)
        \/ ForbiddenForGood(M(Loop))
    BY <1>8, <2>2, LoopStep DEF CheckRevoked, ForbiddenForGood
  <2>4. \A m \in registered : InHand(m) => InHand(m)' \/ Settled(m)
    BY <2>3, <1>d DEF InHand, Settled
  <2> QED
    BY <2>1, <2>4, <1>b, <1>c
<1>9. CASE Attach(Loop)
  <2>1. UNCHANGED registered /\ pc'[Loop] = "ingest" /\ M(Loop)' = M(Loop)
    BY <1>9, LoopStep DEF Attach
  <2>2. \A m : InHand(m) => InHand(m)'
    BY <2>1 DEF InHand
  <2> QED
    BY <2>1, <2>2, <1>c
<1>10. CASE Ingest(Loop)
  <2>1. /\ UNCHANGED registered /\ M(Loop).source \in DOMAIN stored'
        /\ pc'[Loop] # "idle" => M(Loop)' = M(Loop)
        /\ M(Loop).supersedes # NoDelivery =>
              pc'[Loop] = "supersede" /\ M(Loop)' = M(Loop)
    BY <1>10, LoopStep DEF Ingest, Observed
  <2>2. \A m \in registered : InHand(m) =>
           m.source \in DOMAIN stored' /\ (m.supersedes = NoDelivery \/ InHand(m)')
    BY <2>1, <1>d DEF InHand
  <2>3. \A m \in registered : InHand(m) => InHand(m)' \/ Settled(m)'
    BY <2>2 DEF Settled
  <2> QED
    BY <2>1, <2>3, <1>c
<1>11. CASE \/ UNCHANGED vars \/ \E r \in Readers : Read(r)
            \/ (\E c \in Consents : Revoke(c)) \/ \E s \in Sources : DeleteSource(s)
  <2>1. UNCHANGED <<registered, pc, req>>
    BY <1>11, ReadStep DEF Revoke, DeleteSource
  <2> QED
    BY <2>1, <1>a, <1>c DEF InHand, KeptOK, M
<1>12. CASE Crash \/ CallFails(Loop)
  <2>1. /\ UNCHANGED registered /\ pc'[Loop] = "idle"
        /\ cut' = cut \cup {m \in registered : InHand(m)}
    BY <1>12, <1>0 DEF Crash, CallFails, Done, Threads
  <2>2. \A m \in registered : InHand(m) => Settled(m)'
    BY <2>1 DEF Settled
  <2> QED
    BY <2>1, <2>2, <1>c
<1> QED
  BY <1>1, <1>2, <1>3, <1>4, <1>5, <1>6, <1>7, <1>8, <1>9, <1>10, <1>11, <1>12
  DEF Next, Materialize, Threads

(* A deletion that is registered is carried out at once.                   *)
LEMMA DeletionsStay == TablesInv /\ DeletionsOK /\ [Next]_vars => DeletionsOK'
<1> SUFFICES ASSUME TablesInv, DeletionsOK, [Next]_vars PROVE DeletionsOK'
  OBVIOUS
<1> USE DEF vars, tables, history
<1>0. TypeOK /\ ReqOK /\ pc \in [Threads -> Steps \cup {"idle"}] /\ Loop \in Threads
  BY DEF TablesInv, TypeOK, Threads
<1>a. tombstones \subseteq tombstones' /\ cut \subseteq cut'
  BY TablesGrow
<1>b. ASSUME UNCHANGED registered,
             pc[Loop] # "tombstone" \/ UNCHANGED <<pc[Loop], M(Loop)>>
      PROVE  DeletionsOK'
  BY <1>a, <1>b DEF DeletionsOK
<1>1. CASE \/ \E m \in Messages : Deliver(m)
           \/ \E t \in Threads, m \in Records : Bring(t, m)
  <2>1. UNCHANGED registered
        /\ (pc[Loop] # "tombstone" \/ UNCHANGED <<pc[Loop], M(Loop)>>)
    BY <1>1, <1>0 DEF Deliver, Bring, Begin, M, ReqOK
  <2> QED
    BY <2>1, <1>b
<1>2. CASE Register
  <2>1. pc[Loop] = "register"
    BY <1>2 DEF Register
  <2>2. CASE Seen(M(Loop))
    BY <2>1, <2>2, <1>2, <1>b DEF Register
  <2>3. CASE ~Seen(M(Loop))
    <3>1. PICK x : x = M(Loop)
      OBVIOUS
    <3>2. /\ registered' = registered \cup {x} /\ M(Loop)' = x
          /\ x.kind = "tombstone" => pc'[Loop] = "tombstone"
      BY <2>3, <1>2, <3>1, LoopStep DEF Register
    <3> QED
      BY <2>1, <3>2, <1>a DEF DeletionsOK
  <2> QED
    BY <2>2, <2>3
<1>3. CASE Tombstone
  <2>1. UNCHANGED registered /\ M(Loop).source \in tombstones'
    BY <1>3 DEF Tombstone
  <2> QED
    BY <2>1, <1>a DEF DeletionsOK
<1>4. CASE DeletionSequence \/ Sequence \/ Supersede
  BY <1>4, <1>b DEF DeletionSequence, Sequence, Supersede
<1>5. CASE \E t \in Threads : Materialize(t)
  <2>1. UNCHANGED registered
        /\ (pc[Loop] # "tombstone" \/ UNCHANGED <<pc[Loop], M(Loop)>>)
    BY <1>5, <1>0 DEF Materialize, CheckPurpose, CheckRevoked, Attach, Ingest, Go,
                      Done, M, ReqOK
  <2> QED
    BY <2>1, <1>b
<1>6. CASE \/ UNCHANGED vars \/ \E r \in Readers : Read(r)
           \/ (\E c \in Consents : Revoke(c)) \/ \E s \in Sources : DeleteSource(s)
  <2>1. UNCHANGED <<registered, pc, req>>
    BY <1>6, ReadStep DEF Revoke, DeleteSource
  <2> QED
    BY <2>1, <1>b DEF M
<1>7. CASE Crash \/ \E t \in Threads : CallFails(t)
  <2>1. /\ UNCHANGED registered
        /\ \/ cut' = cut \cup {m \in registered : InHand(m)}
           \/ UNCHANGED <<pc[Loop], M(Loop)>>
    BY <1>7, <1>0, CallFailsStep DEF Crash
  <2>2. CASE cut' = cut \cup {m \in registered : InHand(m)}
    BY <2>1, <2>2, <1>a DEF DeletionsOK, InHand
  <2> QED
    BY <2>1, <2>2, <1>b
<1> QED
  BY <1>1, <1>2, <1>3, <1>4, <1>5, <1>6, <1>7 DEF Next, Threads

-----------------------------------------------------------------------------
IInv == TablesInv /\ ReadsOK /\ MarksOK /\ KeptOK /\ DeletionsOK

LEMMA Invariance == Spec => []IInv
<1>1. Init => IInv
  <2>1. Init => MarksOK /\ KeptOK /\ DeletionsOK
    BY DEF Init, MarksOK, KeptOK, DeletionsOK
  <2> QED
    BY <2>1, InitOK DEF IInv
<1>2. IInv /\ [Next]_vars => IInv'
  BY TypesStay, RequestsStay, LoopStays, AnswersStay, ReadsStay, MarksStay, KeptStays,
     DeletionsStay DEF IInv, TablesInv
<1> QED
  BY <1>1, <1>2, PTL DEF Spec

(* The tables, the requests and the readers are what TypeOK says.          *)
THEOREM TypeCorrect == Spec => []TypeOK
<1>1. IInv => TypeOK
  BY DEF IInv, TablesInv
<1> QED
  BY <1>1, Invariance, PTL

(* What was withdrawn before a read began is not served by it, but for rows*)
(* of which a check raised.                                                *)
THEOREM NothingWithdrawnServed == Spec => []WithdrawnIsNotServed
<1>1. IInv => WithdrawnIsNotServed
  BY DEF IInv, ReadsOK, ReadOK, WithdrawnIsNotServed
<1> QED
  BY <1>1, Invariance, PTL

(* Nothing else is withheld from reads.                                    *)
THEOREM NothingElseWithheld == Spec => []WithheldIsWithdrawn
<1>1. IInv => WithheldIsWithdrawn
  <2> SUFFICES ASSUME TablesInv, NEW s \in DOMAIN stored, s \notin Gone,
                      s \in tombstones \/ s \in Superseded \/ stored[s] \in revoked
               PROVE  \E m \in Messages : Withdraws(m, s) /\ (InHand(m) \/ m \in cut)
    BY DEF IInv, WithheldIsWithdrawn
  <2>1. s \notin Superseded
    <3> SUFFICES ASSUME s \in Superseded PROVE s \in Gone
      OBVIOUS
    <3>1. PICK d \in Deliveries :
             superseded[d] = s \/ (superseded[d] = Unknown /\ s \in SourceOf(d))
      BY DEF Superseded
    <3>2. s \in Sources
      BY DEF Superseded
    <3>3. superseded[d] # NotSuperseded /\ s \in SourceOf(d)
      BY <3>1, <3>2, PocketAssumption
      DEF TablesInv, AnswersOK, NotSuperseded, Unknown
    <3> QED
      BY <3>3 DEF Gone, TablesInv, AnswersOK
  <2>2. stored[s] \notin revoked
    BY DEF Gone, TablesInv, AnswersOK, TypeOK
  <2>3. s \in tombstones /\ <<"source", s>> \notin announced
    BY <2>1, <2>2 DEF Gone
  <2>4. PICK m \in registered : /\ m.kind = "tombstone" /\ m.source = s
                                /\ \/ pc[Loop] = "deletion_sequence" /\ M(Loop) = m
                                   \/ m \in cut
    BY <2>3 DEF TablesInv, AnswersOK, Deleting
  <2> QED
    BY <2>4 DEF Withdraws, InHand, TablesInv, TypeOK
<1> QED
  BY <1>1, Invariance, PTL

(* What was answered to be an edit of a delivery withdraws what it brought.*)
LEMMA SupersededIsWithdrawn ==
    ASSUME TablesInv, NEW d \in Deliveries, superseded[d] # NotSuperseded
    PROVE  SourceOf(d) \subseteq Superseded
<1>1. SourceOf(d) \subseteq Sources
  BY MessageFields DEF SourceOf, TablesInv, TypeOK
<1>2. superseded[d] = Unknown \/ SourceOf(d) = {superseded[d]}
  BY DEF TablesInv, AnswersOK, TypeOK
<1> QED
  BY <1>1, <1>2 DEF Superseded

(* A delivery that was accepted takes effect, or it is known why not.      *)
THEOREM OnlyCutsLoseDeliveries == Spec => []LostOnlyIfCut
<1>1. IInv => LostOnlyIfCut
  <2> SUFFICES ASSUME IInv, NEW m \in registered, ~InHand(m), m \notin cut
               PROVE  TakesEffect(m)
    BY DEF LostOnlyIfCut
  <2>1. m \in Messages /\ m.supersedes \in Deliveries \cup {NoDelivery}
        /\ m.kind \in {"content", "tombstone"}
    BY MessageFields DEF IInv, TablesInv, TypeOK
  <2>2. CASE m.kind = "tombstone"
    BY <2>2 DEF IInv, DeletionsOK, InHand, TakesEffect
  <2>3. CASE m.kind = "content"
    <3>1. ~m.valid \/ m.live \/ Settled(m)
      BY <2>3 DEF IInv, KeptOK
    <3>2. CASE m.supersedes = NoDelivery
      <4>1. SourceOf(NoDelivery) = {}
        BY PocketAssumption DEF SourceOf, IInv, TablesInv, TypeOK
      <4> QED
        BY <2>3, <3>1, <3>2, <4>1
        DEF TakesEffect, Settled, ForbiddenForGood, Forbidden
    <3>3. CASE m.supersedes \in Deliveries
      <4>1. m.supersedes # NoDelivery
        BY <3>3, PocketAssumption
      <4>2. superseded[m.supersedes] # NotSuperseded =>
               SourceOf(m.supersedes) \subseteq Superseded
        BY <3>3, SupersededIsWithdrawn DEF IInv
      <4> QED
        BY <2>3, <3>1, <4>1, <4>2
        DEF TakesEffect, Settled, ForbiddenForGood, Forbidden
    <3> QED
      BY <2>1, <3>2, <3>3
  <2> QED
    BY <2>1, <2>2, <2>3
<1> QED
  BY <1>1, Invariance, PTL

(* No request that began after a revocation stores under that consent.     *)
THEOREM NothingStoredUnderRevoked == Spec => RevokedStoresNothing
<1>1. IInv /\ [Next]_vars =>
         [\A s \in DOMAIN stored' \ DOMAIN stored :
            \E t \in {Loop} \cup Workers : /\ pc[t] = "ingest" /\ M(t).source = s
                                           /\ stored'[s] \notin req[t].barred]_vars
  <2> SUFFICES ASSUME TablesInv, [Next]_vars, NEW s \in DOMAIN stored' \ DOMAIN stored
               PROVE  \E t \in Threads : /\ pc[t] = "ingest" /\ M(t).source = s
                                         /\ stored'[s] \notin req[t].barred
    BY DEF IInv, Threads
  <2> USE DEF vars, tables, history
  <2>1. \/ UNCHANGED stored
        \/ \E t \in Threads : pc[t] = "ingest" /\ stored' = Observed(M(t))
    BY ReadStep
    DEF Next, Threads, Deliver, Bring, Begin, Register, Tombstone,
        DeletionSequence, Sequence, Supersede, Materialize, CheckPurpose,
        CheckRevoked, Attach, Ingest, CallFails, Revoke, DeleteSource, Crash
  <2>2. PICK t \in Threads : pc[t] = "ingest" /\ stored' = Observed(M(t))
    BY <2>1
  <2>3. s = M(t).source /\ stored'[s] = M(t).consent
    BY <2>2 DEF Observed
  <2>4. M(t).consent \notin req[t].barred
    BY <2>2 DEF TablesInv, RequestsOK, RequestOK, M
  <2> QED
    BY <2>2, <2>3, <2>4
<1> QED
  BY <1>1, Invariance, PTL DEF Spec, RevokedStoresNothing
=============================================================================
