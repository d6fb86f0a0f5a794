----------------------------- MODULE Publication -----------------------------
(***************************************************************************)
(* Tenant policies and the publication of work items: the policy and       *)
(* publish endpoints of api.py, PolicyStore (policy.py), PublishRouter and *)
(* its publishers (publishers.py), the tables tenant_policies and          *)
(* intake_publications (store.py).                                         *)
(*                                                                         *)
(* The endpoints run on the server's threads and share, without a lock,    *)
(* the policies and the WORKS token.  One action is one access to what is  *)
(* shared: the policies in memory, the token, one store call, one HTTP     *)
(* call to a destination.  The tables survive a crash, the rest does not.  *)
(* WORKS and the other destinations are outside: WORKS keeps one work for  *)
(* each idempotency key and honours the tokens of its current process.     *)
(***************************************************************************)
EXTENDS Integers, FiniteSets

CONSTANTS Publishers,       \* threads that serve these endpoints
          Articles,         \* the work items of one tenant
          KeyOf,            \* the canonical key of each
          Direct,           \* destinations posted to without a token
          Elsewhere,        \* a destination that is not configured
          NoRow,            \* the tenant has no row in tenant_policies
          Updates,          \* policy updates an administrator may send
          MaxPubRequests,   \* bound of the model: requests received
          MaxEpoch          \* bound of the model: processes of WORKS

Destinations == Direct \cup {"works", Elsewhere}

(* What a TenantPolicy says of destinations (all of them when it names     *)
(* none), and one more field.  An update gives some of the fields.         *)
TenantPolicy == [destinations : SUBSET Destinations, works : BOOLEAN]

DefaultTenantPolicy == [destinations |-> Destinations, works |-> FALSE]

Fields == {"destinations", "works"}

ASSUME PublicationAssumption ==
    /\ \A u \in Updates : /\ u.gives \subseteq Fields
                          /\ u.to \in TenantPolicy
    /\ Articles # {} /\ Updates # {}
    /\ "works" \notin Direct /\ Elsewhere \notin Direct \cup {"works"}
    /\ NoRow \notin TenantPolicy
    /\ DOMAIN KeyOf = Articles
    /\ MaxPubRequests \in Nat /\ MaxEpoch \in Nat \ {0}

VARIABLES policies,         \* the tenant's entry of the PolicyStore
          policyRow,        \* its row in tenant_policies
          shared,           \* whether the router asks that PolicyStore
          token,            \* WorksPublisher._token, by the process of WORKS
                            \*   that minted it; 0 when there is none
          epoch,            \* the current process of WORKS
          works,            \* idempotency keys WORKS holds a work for
          publications,     \* intake_publications: [n, item, to]
          at, request,      \* where each thread stands, in which request
          taken,            \* how many requests were received
          accepted,         \* history: requests a destination accepted
          unheard,          \* history: of these, the answer was lost or the
                            \*   receipt was not written
          intended,         \* history: the policy all updates amount to
          lost, doubtful    \* history: updates overlapped; row and memory may
                            \*   differ

pubVars == <<policies, policyRow, shared, token, epoch, works, publications,
             at, request, taken, accepted, unheard, intended, lost, doubtful>>

policyVars == <<policies, policyRow, intended, lost, doubtful>>

outsideVars == <<epoch, works, accepted, unheard>>

PubAnswered == {"idle", "ok", "bad_request", "not_found", "bad_gateway",
                "unauthorized", "server_error"}

PubSteps == {"put", "persist", "delete", "route", "token", "enroll", "post",
             "keep", "save", "rows", "fetch", "reenroll", "refetch"}

(* A request and its locals: what is asked for, the policy an update has   *)
(* built and whether it ran alone, the token in hand and whether the       *)
(* request has minted it itself.                                           *)
PubRequest == [n : Nat, op : {"update", "delete", "publish", "status"},
               item : Articles, to : Destinations, update : Updates,
               policy : TenantPolicy, alone : BOOLEAN, bearer : Nat,
               fresh : BOOLEAN]

Idle == [op |-> "none"]

PubTypeOK ==
    /\ policies \in TenantPolicy
    /\ policyRow \in TenantPolicy \cup {NoRow}
    /\ shared \in BOOLEAN
    /\ epoch \in 1..MaxEpoch /\ token \in 0..epoch
    /\ works \subseteq {KeyOf[i] : i \in Articles}
    /\ publications \subseteq [n : 1..taken, item : Articles, to : Destinations]
    /\ at \in [Publishers -> PubAnswered \cup PubSteps]
    /\ request \in [Publishers -> PubRequest \cup {Idle}]
    /\ \A t \in Publishers : at[t] \in PubSteps =>
          /\ request[t] \in PubRequest
          /\ request[t].bearer <= epoch
    /\ taken \in 0..MaxPubRequests
    /\ unheard \subseteq accepted /\ accepted \subseteq 1..taken
    /\ intended \in TenantPolicy
    /\ lost \in BOOLEAN /\ doubtful \in BOOLEAN

(* How the application was put together: publisher_from_env gives the      *)
(* router a PolicyStore of its own that nobody ever writes to; a caller of *)
(* create_app may pass one that shares the application's.                  *)
PubInit ==
    /\ policies = DefaultTenantPolicy /\ policyRow = NoRow
    /\ shared \in BOOLEAN
    /\ token = 0 /\ epoch = 1 /\ works = {}
    /\ publications = {}
    /\ at = [t \in Publishers |-> "idle"]
    /\ request = [t \in Publishers |-> Idle]
    /\ taken = 0
    /\ accepted = {} /\ unheard = {}
    /\ intended = DefaultTenantPolicy /\ lost = FALSE /\ doubtful = FALSE

-----------------------------------------------------------------------------
Busy(t) == at[t] \in PubSteps

GoTo(t, step) == at' = [at EXCEPT ![t] = step]

Reply(t, a) == GoTo(t, a) /\ UNCHANGED request

Locals(t, r) == request' = [request EXCEPT ![t] = r]

Take(t, r, step) ==
    /\ ~Busy(t)
    /\ taken < MaxPubRequests
    /\ taken' = taken + 1
    /\ GoTo(t, step)

(* Any item, destination and update do for the fields a request leaves     *)
(* unused: they are never read.                                            *)
Blank(n) == [n |-> n, op |-> "none", item |-> CHOOSE i \in Articles : TRUE,
             to |-> Elsewhere, update |-> CHOOSE u \in Updates : TRUE,
             policy |-> DefaultTenantPolicy, alone |-> TRUE, bearer |-> 0,
             fresh |-> FALSE]

-----------------------------------------------------------------------------
(* update_tenant_policy: the policy in memory is read and the fields the   *)
(* update gives are laid over it; the whole is put into memory, then into  *)
(* the table.  A failure of the table is answered "persisted": false.      *)
Updating == {t \in Publishers : at[t] \in {"put", "persist"}}

MergedOverDefault(u, p) ==      \* mutant: what is not given falls to default
    [f \in Fields |-> IF f \in u.gives THEN u.to[f] ELSE DefaultTenantPolicy[f]]

Merged(u, p) == [f \in Fields |-> IF f \in u.gives THEN u.to[f] ELSE p[f]]

ReadPolicy(t, u) ==
    LET overlaps == Updating # {}
        mine == [Blank(taken + 1) EXCEPT !.op = "update", !.update = u,
                                         !.policy = Merged(u, policies),
                                         !.alone = ~overlaps]
    IN
    /\ Take(t, mine, "put")
    /\ request' = [s \in Publishers |->
                     IF s = t THEN mine
                     ELSE IF s \in Updating
                          THEN [request[s] EXCEPT !.alone = FALSE]
                          ELSE request[s]]
    /\ lost' = (lost \/ overlaps)
    /\ doubtful' = (doubtful \/ overlaps)
    /\ UNCHANGED <<policies, policyRow, intended, shared, token, publications,
                   outsideVars>>

PutPolicyInMemory(t) ==
    /\ at[t] = "put"
    /\ policies' = request[t].policy
    /\ LET u == request[t].update IN
         intended' = [f \in Fields |-> IF f \in u.gives THEN u.to[f]
                                       ELSE intended[f]]
    /\ GoTo(t, "persist")
    /\ UNCHANGED <<policyRow, lost, doubtful, shared, token, publications,
                   request, taken, outsideVars>>

PersistPolicy(t) ==
    /\ at[t] = "persist"
    /\ policyRow' = request[t].policy
    /\ doubtful' = (doubtful /\ ~request[t].alone)
    /\ Reply(t, "ok")
    /\ UNCHANGED <<policies, lost, intended, shared, token, publications,
                   taken, outsideVars>>

PersistFails(t) ==
    /\ at[t] = "persist"
    /\ doubtful' = TRUE
    /\ Reply(t, "ok")
    /\ UNCHANGED <<policies, policyRow, lost, intended, shared, token,
                   publications, taken, outsideVars>>

(* delete_persisted_policy: the row goes, the policy in memory stays.      *)
AskDelete(t) ==
    LET r == [Blank(taken + 1) EXCEPT !.op = "delete"] IN
    /\ Take(t, r, "delete") /\ Locals(t, r)
    /\ UNCHANGED <<policyVars, shared, token, publications, outsideVars>>

DeleteRow(t) ==
    /\ at[t] = "delete"
    /\ policyRow' = NoRow
    /\ doubtful' = TRUE
    /\ Reply(t, IF policyRow = NoRow THEN "not_found" ELSE "ok")
    /\ UNCHANGED <<policies, intended, lost, shared, token, publications,
                   taken, outsideVars>>

-----------------------------------------------------------------------------
(* publish_work_item: the item is read; the router asks its PolicyStore    *)
(* and looks the destination up.  The item's status plays no part, and     *)
(* publishing leaves it alone.                                             *)
AskPublish(t, i, d) ==
    LET r == [Blank(taken + 1) EXCEPT !.op = "publish", !.item = i, !.to = d]
    IN
    /\ Take(t, r, "route") /\ Locals(t, r)
    /\ UNCHANGED <<policyVars, shared, token, publications, outsideVars>>

RouterPolicy == IF shared THEN policies ELSE DefaultTenantPolicy

Route(t) ==
    /\ at[t] = "route"
    /\ LET to == request[t].to IN
         Reply(t, IF to \in RouterPolicy.destinations \ {Elsewhere}
                  THEN IF to = "works" THEN "token" ELSE "post"
                  ELSE "bad_request")
    /\ UNCHANGED <<policyVars, shared, token, publications, taken, outsideVars>>

(* token = self._token or self._enroll()                                   *)
NextCall(t) == IF request[t].op = "publish" THEN "post" ELSE "fetch"

ReadToken(t) ==
    /\ at[t] = "token"
    /\ GoTo(t, IF token = 0 THEN "enroll" ELSE NextCall(t))
    /\ Locals(t, [request[t] EXCEPT !.bearer = token])
    /\ UNCHANGED <<policyVars, shared, token, publications, taken, outsideVars>>

Enroll(t) ==
    /\ at[t] \in {"enroll", "reenroll"}
    /\ \/ /\ GoTo(t, IF at[t] = "enroll" THEN NextCall(t) ELSE "refetch")
          /\ Locals(t, [request[t] EXCEPT !.bearer = epoch, !.fresh = TRUE])
       \/ Reply(t, "bad_gateway")
    /\ UNCHANGED <<policyVars, shared, token, publications, taken, outsideVars>>

(* One POST.  A destination may be out of reach, or accept and its answer  *)
(* be lost; both are a RuntimeError, a 502.  So is a refused token:        *)
(* _http_post_json raises on any HTTP error, so the test of the status     *)
(* that follows it in WorksPublisher.publish never sees 401 or 403.        *)
Honoured(t) == request[t].to # "works" \/ request[t].bearer = epoch

Accept(t) ==
    /\ accepted' = accepted \cup {request[t].n}
    /\ works' = IF request[t].to = "works"
                THEN works \cup {KeyOf[request[t].item]} ELSE works

Post(t) ==
    /\ at[t] = "post"
    /\ Honoured(t)
    /\ Accept(t)
    /\ \/ /\ Reply(t, IF request[t].to = "works" THEN "keep" ELSE "save")
          /\ UNCHANGED unheard
       \/ /\ Reply(t, "bad_gateway")
          /\ unheard' = unheard \cup {request[t].n}
    /\ UNCHANGED <<policyVars, shared, token, publications, taken, epoch>>

PostFails(t) ==
    /\ at[t] = "post"
    /\ Reply(t, IF Honoured(t) THEN "bad_gateway" ELSE "unauthorized")
    /\ UNCHANGED <<policyVars, shared, token, publications, taken, outsideVars>>

(* self._token = token                                                     *)
KeepToken(t) ==
    /\ at[t] = "keep"
    /\ token' = request[t].bearer
    /\ Reply(t, IF request[t].op = "publish" THEN "save" ELSE "ok")
    /\ UNCHANGED <<policyVars, shared, publications, taken, outsideVars>>

(* save_publication, under a new id                                        *)
SaveUnlessPublished(t) ==       \* mutant: one row per item and destination
    /\ at[t] = "save"
    /\ LET r == request[t] IN
         publications' = IF \E p \in publications : p.item = r.item /\ p.to = r.to
                         THEN publications
                         ELSE publications \cup
                                {[n |-> r.n, item |-> r.item, to |-> r.to]}
    /\ Reply(t, "ok")
    /\ UNCHANGED <<policyVars, shared, token, taken, outsideVars>>

Save(t) ==
    /\ at[t] = "save"
    /\ LET r == request[t] IN
         publications' = publications \cup
                           {[n |-> r.n, item |-> r.item, to |-> r.to]}
    /\ Reply(t, "ok")
    /\ UNCHANGED <<policyVars, shared, token, taken, outsideVars>>

(* The insertion raises, which the endpoint does not catch.                *)
SaveFails(t) ==
    /\ at[t] = "save"
    /\ unheard' = unheard \cup {request[t].n}
    /\ Reply(t, "server_error")
    /\ UNCHANGED <<policyVars, shared, token, publications, taken, epoch, works,
                   accepted>>

-----------------------------------------------------------------------------
(* get_execution_status: the last publication to WORKS is looked up, its   *)
(* work asked for, with a second token when the first is refused.          *)
AskStatus(t, i) ==
    LET r == [Blank(taken + 1) EXCEPT !.op = "status", !.item = i,
                                      !.to = "works"] IN
    /\ Take(t, r, "rows") /\ Locals(t, r)
    /\ UNCHANGED <<policyVars, shared, token, publications, outsideVars>>

ToWorks(i) == {p \in publications : p.item = i /\ p.to = "works"}

FindRows(t) ==
    /\ at[t] = "rows"
    /\ Reply(t, IF ToWorks(request[t].item) = {} THEN "not_found" ELSE "token")
    /\ UNCHANGED <<policyVars, shared, token, publications, taken, outsideVars>>

Fetch(t) ==
    /\ at[t] \in {"fetch", "refetch"}
    /\ \/ Reply(t, IF Honoured(t) THEN "keep"
                   ELSE IF at[t] = "fetch" THEN "reenroll" ELSE "unauthorized")
       \/ Reply(t, "bad_gateway")
    /\ UNCHANGED <<policyVars, shared, token, publications, taken, outsideVars>>

-----------------------------------------------------------------------------
(* The surroundings: WORKS starts a new process (or a token expires); this *)
(* one crashes and starts again, with no policy loaded from the table.     *)
WorksRestarts ==
    /\ epoch < MaxEpoch
    /\ epoch' = epoch + 1
    /\ UNCHANGED <<policyVars, shared, token, publications, at, request, taken,
                   works, accepted, unheard>>

CutOff == {request[t].n : t \in {s \in Publishers : at[s] \in {"keep", "save"}}}

PubCrash ==
    /\ policies' = DefaultTenantPolicy
    /\ token' = 0
    /\ at' = [t \in Publishers |-> "idle"]
    /\ request' = [t \in Publishers |-> Idle]
    /\ unheard' = unheard \cup (CutOff \cap accepted)
    /\ intended' = DefaultTenantPolicy /\ lost' = FALSE /\ doubtful' = TRUE
    /\ UNCHANGED <<policyRow, shared, publications, taken, epoch, works,
                   accepted>>

ServePublisher(t) ==
    \/ \E u \in Updates : ReadPolicy(t, u)
    \/ PutPolicyInMemory(t) \/ PersistPolicy(t) \/ PersistFails(t)
    \/ AskDelete(t) \/ DeleteRow(t)
    \/ \E i \in Articles, d \in Destinations : AskPublish(t, i, d)
    \/ Route(t) \/ ReadToken(t) \/ Enroll(t) \/ Post(t) \/ PostFails(t)
    \/ KeepToken(t) \/ Save(t) \/ SaveFails(t)
    \/ \E i \in Articles : AskStatus(t, i)
    \/ FindRows(t) \/ Fetch(t)

PubNext == (\E t \in Publishers : ServePublisher(t)) \/ WorksRestarts \/ PubCrash

PubSpec == PubInit /\ [][PubNext]_pubVars

-----------------------------------------------------------------------------
(* Properties.                                                             *)

(* What a destination accepted has its row in intake_publications, or is   *)
(* about to get it from the request that published it; only a lost answer, *)
(* a failed insertion or a crash in between leaves it without, and nothing *)
(* else has a row.                                                         *)
AcceptedIsRecorded ==
    LET recorded == {p.n : p \in publications} IN
    /\ recorded \subseteq accepted
    /\ accepted \subseteq recorded \cup unheard \cup CutOff

(* The policy in force is what all updates since the start amount to; and  *)
(* while nobody is updating, the table holds it.  Two updates that overlap *)
(* may undo each other; the table may differ after that, after a failed    *)
(* write, a deletion of the row or a restart, until the next update that   *)
(* runs alone.                                                             *)
PolicyIsKept ==
    /\ ~lost => policies = intended
    /\ Updating = {} /\ ~doubtful => policyRow \in {policies, NoRow}

(* On 401 or 403 the publisher re-enrolls, once and by itself (API.md 119; *)
(* publishers.py 301-303): only a token minted by the very request can be  *)
(* refused for good.                                                       *)
PublishReenrolls ==
    \A t \in Publishers :
        at[t] = "unauthorized" /\ request[t].op = "publish" => request[t].fresh
=============================================================================
