----------------------------- MODULE PocketEvents -----------------------------
(***************************************************************************)
(* The event plane of the Pocket connector (pocket.py, and the webhook and *)
(* the endpoints of api.py): how one tenant's deliveries, edits, deletions *)
(* and revoked consents decide what reads serve.                           *)
(*                                                                         *)
(* The webhook and POST /pocket/ingest run on the event loop and never     *)
(* await between their store calls: the loop handles one of them at a time.*)
(* Workers materialise what they fetched from the provider, administrators *)
(* revoke and delete, and readers read, each on a thread of its own.  One  *)
(* action is one store call with the computation on what it returned; all  *)
(* tables are durable.  Any call may raise, which ends a delivery or a     *)
(* request where it is and makes a read serve what it could not check; and *)
(* a crash may come between two calls.                                     *)
(*                                                                         *)
(* Signatures are left out.  The reconciliation a live webhook asks for,   *)
(* and revisions of one source, are in module Reconcile; what ingest makes *)
(* of an observation is in module Intake.                                  *)
(***************************************************************************)
EXTENDS Integers, FiniteSets

CONSTANTS Sources, Conversations, Deliveries, IdemKeys, Consents, Purposes,
          NoDelivery, NoKey, NoConsent, NoPurpose,
          Messages,         \* webhooks the provider may send, in any order
                            \*   and any number of times
          Records,          \* records that REST clients and workers bring
          Loop,             \* the event loop's thread
          Workers,          \* threads that materialise what they fetched
          Readers,          \* threads that serve reads
          MaxFaults         \* bound of the model: crashes, and calls of
                            \*   deliveries and requests that raise

(* A pocket-source record; kind and the fields before it are the webhook's.*)
Message == [delivery : Deliveries \cup {NoDelivery}, key : IdemKeys \cup {NoKey},
            sequence : Nat, conversation : Conversations,
            supersedes : Deliveries \cup {NoDelivery}, live : BOOLEAN,
            kind : {"content", "tombstone"}, source : Sources, valid : BOOLEAN,
            consent : Consents \cup {NoConsent},
            purpose : Purposes \cup {NoPurpose}]

(* superseded[d] is NotSuperseded without a row for d, and Unknown in a row*)
(* that was written before d was received.                                 *)
NotSuperseded == "none"
Unknown == "unknown"

ASSUME PocketAssumption ==
    /\ {NotSuperseded, Unknown} \cap Sources = {}
    /\ NoDelivery \notin Deliveries /\ NoKey \notin IdemKeys
    /\ NoConsent \notin Consents /\ NoPurpose \notin Purposes
    /\ Messages \subseteq {m \in Message : m.delivery # NoDelivery}
    /\ Records \subseteq {m \in Message : /\ m.delivery = NoDelivery
                                          /\ m.kind = "content"
                                          /\ m.supersedes = NoDelivery}
    /\ Loop \notin Workers /\ MaxFaults \in Nat

VARIABLES registered,       \* pocket_deliveries: the messages
          applied,          \* pocket_sequences: the high-water marks
          superseded,       \* pocket_supersessions: delivery to source_ref
          tombstones,       \* pocket_tombstones: source_refs
          purposes, revoked,\* pocket_consents
          stored,           \* Pocket observations: source_ref to consent_ref
          pc, req,          \* where Loop and Workers stand, with what
          read,             \* what each reader is about
          faults,           \* so many of them so far
          announced,        \* history: withdrawals that were carried out
          cut,              \* history: messages whose delivery was ended by a
                            \*   crash or by a call that raised
          contested         \* history: consents whose purpose has changed

vars == <<registered, applied, superseded, tombstones, purposes, revoked,
          stored, pc, req, read, faults, announced, cut, contested>>

tables == <<registered, applied, superseded, tombstones, purposes, revoked,
            stored>>

Steps == {"register", "tombstone", "deletion_sequence", "sequence", "purpose",
          "revoked", "attach", "ingest", "supersede"}

NoRequest == [message |-> NoDelivery, barred |-> {}]
Reading == [step : {"idle", "state", "tombstone", "superseded", "consent"},
            todo : SUBSET Sources, row : SUBSET Sources, kept : SUBSET Sources,
            gone : SUBSET Sources, unchecked : SUBSET Sources]
NotReading == [step |-> "idle", todo |-> {}, row |-> {}, kept |-> {}, gone |-> {},
               unchecked |-> {}]

TypeOK ==
    /\ registered \subseteq Messages
    /\ applied \in [Conversations -> Nat \cup {-1}]
    /\ superseded \in [Deliveries -> Sources \cup {NotSuperseded, Unknown}]
    /\ tombstones \subseteq Sources
    /\ purposes \in [Consents -> Purposes \cup {NoPurpose}]
    /\ revoked \subseteq {c \in Consents : purposes[c] # NoPurpose}
    /\ DOMAIN stored \subseteq Sources
    /\ \A s \in DOMAIN stored : stored[s] \in Consents \cup {NoConsent}
    /\ pc \in [{Loop} \cup Workers -> Steps \cup {"idle"}]
    /\ \A t \in {Loop} \cup Workers : pc[t] # "idle" =>
          req[t].message \in Messages \cup Records /\ req[t].barred \subseteq Consents
    /\ read \in [Readers -> Reading]
    /\ faults \in 0..MaxFaults
    /\ announced \subseteq {"source"} \X Sources \cup {"delivery"} \X Deliveries
                           \cup {"consent"} \X Consents
    /\ cut \subseteq Messages /\ contested \subseteq Consents

Init == /\ registered = {} /\ tombstones = {} /\ revoked = {}
        /\ applied = [v \in Conversations |-> -1]
        /\ superseded = [d \in Deliveries |-> NotSuperseded]
        /\ purposes = [c \in Consents |-> NoPurpose]
        /\ stored = [s \in {} |-> NoConsent]
        /\ pc = [t \in {Loop} \cup Workers |-> "idle"]
        /\ req = [t \in {Loop} \cup Workers |-> NoRequest]
        /\ read = [r \in Readers |-> NotReading]
        /\ faults = 0 /\ announced = {} /\ cut = {} /\ contested = {}

-----------------------------------------------------------------------------
(* Requests.  "barred" is history: the consents revoked when one began.    *)
history == <<announced, cut, faults, contested>>

Go(t, step) == pc' = [pc EXCEPT ![t] = step] /\ UNCHANGED req

Done(t) == /\ pc' = [pc EXCEPT ![t] = "idle"]
           /\ req' = [req EXCEPT ![t] = NoRequest]

Begin(t, m, step) ==
    /\ pc[t] = "idle"
    /\ pc' = [pc EXCEPT ![t] = step]
    /\ req' = [req EXCEPT ![t] = [message |-> m, barred |->
                  {c \in Consents : <<"consent", c>> \in announced}]]
    /\ UNCHANGED <<tables, read, history>>

Deliver(m) == Begin(Loop, m, "register")
Bring(t, m) == Begin(t, m, "purpose")       \* on the loop, or by a worker

M(t) == req[t].message

(* register_delivery: a delivery id or an idempotency key that was seen    *)
(* ends the request (409, and 200 "deduped").                              *)
Seen(m) == \E n \in registered : \/ n.delivery = m.delivery
                                 \/ n.key = m.key /\ m.key # NoKey

Register ==
    LET m == M(Loop) IN
    /\ pc[Loop] = "register"
    /\ IF Seen(m) THEN Done(Loop) /\ UNCHANGED registered
       ELSE /\ registered' = registered \cup {m}
            /\ Go(Loop, IF m.kind = "tombstone" THEN "tombstone" ELSE "sequence")
    /\ UNCHANGED <<applied, superseded, tombstones, purposes, revoked, stored,
                   read, history>>

(* A deletion needs no sequence and no content.                            *)
Tombstone ==
    /\ pc[Loop] = "tombstone"
    /\ tombstones' = tombstones \cup {M(Loop).source}
    /\ Go(Loop, "deletion_sequence")
    /\ UNCHANGED <<registered, applied, superseded, purposes, revoked, stored,
                   read, history>>

(* apply_sequence                                                          *)
Fresh(m) == m.sequence > applied[m.conversation]

ApplySequence(m) ==
    applied' = IF Fresh(m) THEN [applied EXCEPT ![m.conversation] = m.sequence]
               ELSE applied

DeletionSequence ==
    /\ pc[Loop] = "deletion_sequence"
    /\ ApplySequence(M(Loop))
    /\ announced' = announced \cup {<<"source", M(Loop).source>>}
    /\ Done(Loop)
    /\ UNCHANGED <<registered, superseded, tombstones, purposes, revoked, stored,
                   read, cut, faults, contested>>

(* A stale message ends here (202), unless it is an edit; a live one asks  *)
(* for a reconciliation.                                                   *)
SequenceStaleEdits ==              \* mutant: stale edits are ignored as well
    LET m == M(Loop) IN
    /\ pc[Loop] = "sequence"
    /\ ApplySequence(m)
    /\ IF ~Fresh(m) \/ m.live THEN Done(Loop) ELSE Go(Loop, "purpose")
    /\ UNCHANGED <<registered, superseded, tombstones, purposes, revoked, stored,
                   read, history>>

Sequence ==
    LET m == M(Loop) IN
    /\ pc[Loop] = "sequence"
    /\ ApplySequence(m)
    /\ IF m.live \/ (~Fresh(m) /\ m.supersedes = NoDelivery)
       THEN Done(Loop) ELSE Go(Loop, "purpose")
    /\ UNCHANGED <<registered, superseded, tombstones, purposes, revoked, stored,
                   read, history>>

-----------------------------------------------------------------------------
(* validate_pocket_record: the contract, then the consent in two calls; a  *)
(* record that is refused ends its request (422).                          *)
CheckPurpose(t) ==
    LET m == M(t)
        expected == IF m.consent = NoConsent THEN NoPurpose ELSE purposes[m.consent]
    IN
    /\ pc[t] = "purpose"
    /\ IF ~m.valid \/ expected \notin {NoPurpose, m.purpose} THEN Done(t)
       ELSE Go(t, IF m.consent = NoConsent THEN "ingest" ELSE "revoked")
    /\ UNCHANGED <<tables, read, history>>

CheckRevokedNever(t) ==                \* mutant: a revoked consent is accepted
    /\ pc[t] = "revoked"
    /\ Go(t, "attach")
    /\ UNCHANGED <<tables, read, history>>

CheckRevoked(t) ==
    /\ pc[t] = "revoked"
    /\ IF M(t).consent \in revoked THEN Done(t)
       ELSE Go(t, IF M(t).purpose = NoPurpose THEN "ingest" ELSE "attach")
    /\ UNCHANGED <<tables, read, history>>

(* attach_consent leaves a revoked consent as it is.                       *)
Contests(m) == contested' = IF purposes[m.consent] \in {NoPurpose, m.purpose}
                            THEN contested ELSE contested \cup {m.consent}

AttachRenews(t) ==          \* mutant: ON CONFLICT DO UPDATE SET revoked = 0 too
    LET m == M(t) IN
    /\ pc[t] = "attach"
    /\ purposes' = [purposes EXCEPT ![m.consent] = m.purpose]
    /\ revoked' = revoked \ {m.consent}
    /\ Contests(m)
    /\ Go(t, "ingest")
    /\ UNCHANGED <<registered, applied, superseded, tombstones, stored, read,
                   announced, cut, faults>>

Attach(t) ==
    LET m == M(t) IN
    /\ pc[t] = "attach"
    /\ IF m.consent \in revoked THEN UNCHANGED <<purposes, contested>>
       ELSE purposes' = [purposes EXCEPT ![m.consent] = m.purpose] /\ Contests(m)
    /\ Go(t, "ingest")
    /\ UNCHANGED <<registered, applied, superseded, tombstones, revoked, stored,
                   read, announced, cut, faults>>

(* ingest: an external id, made of the source_ref, is stored once.         *)
Observed(m) == [s \in DOMAIN stored \cup {m.source} |->
                  IF s \in DOMAIN stored THEN stored[s] ELSE m.consent]

Ingest(t) ==
    LET m == M(t) IN
    /\ pc[t] = "ingest"
    /\ stored' = Observed(m)
    /\ IF m.supersedes = NoDelivery THEN Done(t) ELSE Go(t, "supersede")
    /\ UNCHANGED <<registered, applied, superseded, tombstones, purposes,
                   revoked, read, history>>

(* source_ref_for_delivery, whose table only the loop writes, and          *)
(* mark_superseded.                                                        *)
SourceOf(d) == {m.source : m \in {n \in registered : n.delivery = d}}

SupersedeItself ==               \* mutant: the edit's own source_ref is recorded
    LET m == M(Loop) IN
    /\ pc[Loop] = "supersede"
    /\ superseded' = [superseded EXCEPT ![m.supersedes] = m.source]
    /\ announced' = announced \cup {<<"delivery", m.supersedes>>}
    /\ Done(Loop)
    /\ UNCHANGED <<registered, applied, tombstones, purposes, revoked, stored,
                   read, cut, faults, contested>>

Supersede ==
    LET m == M(Loop) IN
    /\ pc[Loop] = "supersede"
    /\ superseded' = [superseded EXCEPT ![m.supersedes] =
                        IF SourceOf(m.supersedes) = {} THEN Unknown
                        ELSE CHOOSE s \in SourceOf(m.supersedes) : TRUE]
    /\ announced' = announced \cup {<<"delivery", m.supersedes>>}
    /\ Done(Loop)
    /\ UNCHANGED <<registered, applied, tombstones, purposes, revoked, stored,
                   read, cut, faults, contested>>

(* A store call raises: what the request has written stays, and so does    *)
(* the observation when it is the item's transaction of ingest that fails. *)
(* A delivery that is registered by then is refused when it is sent again. *)
InHand(m) == pc[Loop] \notin {"idle", "register"} /\ M(Loop) = m

CallFails(t) ==
    /\ pc[t] # "idle" /\ faults < MaxFaults
    /\ faults' = faults + 1
    /\ cut' = IF t = Loop THEN cut \cup {m \in registered : InHand(m)} ELSE cut
    /\ stored' \in {stored} \cup (IF pc[t] = "ingest" THEN {Observed(M(t))} ELSE {})
    /\ Done(t)
    /\ UNCHANGED <<registered, applied, superseded, tombstones, purposes,
                   revoked, read, announced, contested>>

-----------------------------------------------------------------------------
(* Administrators; a consent that is unknown is a 404.                     *)
RevokeAny(c) ==                            \* mutant: unknown consents as well
    /\ revoked' = revoked \cup {c}
    /\ announced' = announced \cup {<<"consent", c>>}
    /\ UNCHANGED <<registered, applied, superseded, tombstones, purposes, stored,
                   pc, req, read, cut, faults, contested>>

Revoke(c) ==
    /\ purposes[c] # NoPurpose
    /\ revoked' = revoked \cup {c}
    /\ announced' = announced \cup {<<"consent", c>>}
    /\ UNCHANGED <<registered, applied, superseded, tombstones, purposes, stored,
                   pc, req, read, cut, faults, contested>>

DeleteSource(s) ==
    /\ tombstones' = tombstones \cup {s}
    /\ announced' = announced \cup {<<"source", s>>}
    /\ UNCHANGED <<registered, applied, superseded, purposes, revoked, stored,
                   pc, req, read, cut, faults, contested>>

-----------------------------------------------------------------------------
(* What was withdrawn, in terms of the requests.                           *)
Gone == {s \in DOMAIN stored :
            \/ <<"source", s>> \in announced
            \/ \E d \in Deliveries : <<"delivery", d>> \in announced
                                     /\ s \in SourceOf(d)
            \/ <<"consent", stored[s]>> \in announced}

(* A read: the rows, then whether anything withdraws at all, then one row  *)
(* after the other (filter_withdrawn_pocket_rows).  "gone" is history, and *)
(* so is "unchecked": the rows of it of which a check has raised.          *)
ReadOn(r, new) == /\ read' = [read EXCEPT ![r] = new]
                  /\ UNCHANGED <<tables, pc, req, history>>

ReadRows(r) ==
    /\ read[r].step = "idle" /\ DOMAIN stored # {}
    /\ ReadOn(r, [NotReading EXCEPT !.step = "state", !.todo = DOMAIN stored,
                                    !.gone = Gone])

Superseded == {s \in Sources : \E d \in Deliveries :
                 \/ superseded[d] = s
                 \/ (superseded[d] = Unknown /\ s \in SourceOf(d))}

HasSupersessions == \E d \in Deliveries : superseded[d] # NotSuperseded

HasPocketState ==
    \/ tombstones # {} \/ HasSupersessions
    \/ \E c \in Consents : purposes[c] # NoPurpose

CheckState(r) ==
    /\ read[r].step = "state"
    /\ ReadOn(r, IF HasPocketState THEN [read[r] EXCEPT !.step = "tombstone"]
                 ELSE [read[r] EXCEPT !.step = "tombstone", !.todo = {},
                                      !.kept = read[r].todo])

Drop(r) == [read[r] EXCEPT !.step = "tombstone", !.row = {}]

(* is_withdrawn looks at a row in three calls; the two queries of          *)
(* _superseded_source_refs, of which the second resolves rows of the first,*)
(* are one step.                                                           *)
CheckTombstone(r) ==
    /\ read[r].step = "tombstone"
    /\ \E s \in read[r].todo :
         ReadOn(r, [read[r] EXCEPT
                      !.todo = @ \ {s},
                      !.row = IF s \in tombstones THEN {} ELSE {s},
                      !.step = IF s \in tombstones THEN @ ELSE "superseded"])

CheckSuperseded(r) ==
    /\ read[r].step = "superseded"
    /\ ReadOn(r, IF read[r].row \subseteq Superseded THEN Drop(r)
                 ELSE [read[r] EXCEPT !.step = "consent"])

CheckConsent(r) ==
    /\ read[r].step = "consent"
    /\ \E s \in read[r].row :
         ReadOn(r, IF stored[s] \in revoked THEN Drop(r)
                   ELSE [Drop(r) EXCEPT !.kept = @ \cup {s}])

(* The filter is fail-open: when the first check raises, it returns all    *)
(* rows, and when a check of a row raises, or the metadata that name its   *)
(* consent cannot be read, it keeps the row.                               *)
Keep(r, S) == ReadOn(r, [Drop(r) EXCEPT !.todo = @ \ S, !.kept = @ \cup S,
                                        !.unchecked = @ \cup (S \cap read[r].gone)])

CheckFails(r) ==
    \/ read[r].step = "state" /\ Keep(r, read[r].todo)
    \/ read[r].step = "tombstone" /\ \E s \in read[r].todo : Keep(r, {s})
    \/ read[r].step \in {"superseded", "consent"} /\ Keep(r, read[r].row)

Serve(r) ==
    /\ read[r].step = "tombstone" /\ read[r].todo = {}
    /\ ReadOn(r, NotReading)

-----------------------------------------------------------------------------
(* The process dies: requests end where they are.                          *)
Crash ==
    /\ faults < MaxFaults
    /\ faults' = faults + 1
    /\ cut' = cut \cup {m \in registered : InHand(m)}
    /\ pc' = [t \in {Loop} \cup Workers |-> "idle"]
    /\ req' = [t \in {Loop} \cup Workers |-> NoRequest]
    /\ read' = [r \in Readers |-> NotReading]
    /\ UNCHANGED <<tables, announced, contested>>

Materialize(t) == CheckPurpose(t) \/ CheckRevoked(t) \/ Attach(t) \/ Ingest(t)

Read(r) == \/ ReadRows(r) \/ CheckState(r) \/ CheckTombstone(r)
           \/ CheckSuperseded(r) \/ CheckConsent(r) \/ CheckFails(r)
           \/ Serve(r)

Next == \/ \E m \in Messages : Deliver(m)
        \/ \E t \in {Loop} \cup Workers : \E m \in Records : Bring(t, m)
        \/ Register \/ Tombstone \/ DeletionSequence \/ Sequence \/ Supersede
        \/ \E t \in {Loop} \cup Workers : Materialize(t) \/ CallFails(t)
        \/ \E c \in Consents : Revoke(c)
        \/ \E s \in Sources : DeleteSource(s)
        \/ \E r \in Readers : Read(r)
        \/ Crash

Spec == Init /\ [][Next]_vars

-----------------------------------------------------------------------------
(* Properties.                                                             *)

(* What was withdrawn before a read began is not served by it, but for rows*)
(* of which a check raised: deletions, edits and revocations hold whatever *)
(* arrives later, twice or out of order, and whatever fails or crashes     *)
(* (PCK-014 to 016, 021 to 023).                                           *)
WithdrawnIsNotServed ==
    \A r \in Readers : read[r].kept \cap read[r].gone \subseteq read[r].unchecked

(* And nothing else is withheld: what the tables withdraw, a request has   *)
(* withdrawn, or a delivery under way or cut.                              *)
Withdraws(m, s) == \/ m.kind = "tombstone" /\ m.source = s
                   \/ m.supersedes # NoDelivery /\ s \in SourceOf(m.supersedes)

WithheldIsWithdrawn ==
    \A s \in DOMAIN stored :
        s \in tombstones \/ s \in Superseded \/ stored[s] \in revoked =>
            \/ s \in Gone
            \/ \E m \in Messages : Withdraws(m, s) /\ (InHand(m) \/ m \in cut)

(* A delivery is accepted once, so it must take effect unless it is cut: a *)
(* deletion withdraws its source; content is stored, and what it is an     *)
(* edit of is withdrawn, unless a message of its conversation is as new or *)
(* its consent forbids it or was given for two purposes at once.           *)
Outdated(m) == \E n \in registered : /\ n # m /\ n.conversation = m.conversation
                                     /\ n.sequence >= m.sequence

Forbidden(m) == m.consent # NoConsent /\ (\/ m.consent \in revoked \cup contested
                                          \/ purposes[m.consent] # m.purpose)

TakesEffect(m) ==
    IF m.kind = "tombstone" THEN m.source \in tombstones
    ELSE \/ ~m.valid \/ m.live \/ Forbidden(m)
         \/ m.supersedes = NoDelivery /\ Outdated(m)
         \/ m.source \in DOMAIN stored /\ SourceOf(m.supersedes) \subseteq Superseded

LostOnlyIfCut ==
    \A m \in registered : TakesEffect(m) \/ InHand(m) \/ m \in cut

(* A request that began after a consent was revoked stores nothing under   *)
(* it (PCK-021).                                                           *)
RevokedStoresNothing ==
    [][\A s \in DOMAIN stored' \ DOMAIN stored :
          \E t \in {Loop} \cup Workers : /\ pc[t] = "ingest" /\ M(t).source = s
                                         /\ stored'[s] \notin req[t].barred]_vars
=============================================================================
