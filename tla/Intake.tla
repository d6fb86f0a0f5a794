------------------------------- MODULE Intake -------------------------------
(***************************************************************************)
(* WorkIntelligenceService.ingest (service.py) over SQLiteStore (store.py):*)
(* how an observation of one tenant and one source becomes a work item, is *)
(* merged into one, or stays an observation.                               *)
(*                                                                         *)
(* ingest runs on the server's threads.  The store's lock covers one store *)
(* call and ingest makes up to six of them, so that other requests, status *)
(* changes of the items and a crash of the process come in between.  One   *)
(* action is one store call with the computation on what it returned; the  *)
(* two transactions (create_work_item, merge_work_item) are one action     *)
(* each, done or undone as a whole (module ConnectionTx).  Any call may    *)
(* raise, which nobody on the way to the client catches.  Rows are         *)
(* durable; requests and policies live in memory.                          *)
(***************************************************************************)
EXTENDS Integers, Sequences, FiniteSets

CONSTANTS Threads,          \* threads that serve requests
          Externals,        \* external ids an observation may carry
          NoExternal,       \* an observation without one
          Keys,             \* canonical keys of actionable texts
          NoKey,            \* a text the extractor finds nothing to do in
          Similarity,       \* percentage of canonical tokens two keys share
          Priorities,       \* 0..n, from "low" on
          Policies,         \* policies an administrator may put
          DefaultPolicy,    \* TenantPolicy()
          ListLimit,        \* open items _resolve looks at (200)
          MayCrash,         \* whether the process may crash
          MaxRequests,      \* bound of the model: requests received
          MaxTime           \* bound of the model: when items stop moving

(* What ingest reads of a TenantPolicy; allowsSource answers for the one   *)
(* source of the model.  The threshold is a percentage.                    *)
PolicyFields == [allowsSource : BOOLEAN, autoCreate : BOOLEAN, quota : Nat,
                 maxPriority : Priorities, threshold : 1..100]

(* An item counts as open in any status but DONE, CANCELLED, SNOOZED and   *)
(* REJECTED, which are closed here.  Ingest tells no more apart, and the   *)
(* transition engine may make any change: a snoozed item comes back, and   *)
(* two transitions that race may leave a terminal status (module           *)
(* Lifecycle, run lifecycle_terminal).                                     *)
ItemStatus == {"open", "closed"}

ASSUME IntakeAssumption ==
    /\ NoExternal \notin Externals /\ NoKey \notin Keys
    /\ Similarity \in [Keys \X Keys -> 0..100]
    /\ Priorities \subseteq Nat
    /\ Policies \subseteq PolicyFields /\ DefaultPolicy \in PolicyFields
    /\ ListLimit \in Nat \ {0}
    /\ MayCrash \in BOOLEAN
    /\ MaxRequests \in Nat /\ MaxTime \in Nat

VARIABLES observations,     \* intake_observations, in the order of insertion
          items,            \* intake_work_items, in the order of insertion
          links,            \* intake_work_item_observations: observation_id,
                            \*   which is UNIQUE, to work_item_id
          replays,          \* intake_replays: observation ids
          policy,           \* the tenant's entry of the PolicyStore
          now,              \* the server's clock
          pc, req,          \* where each thread stands, in which request
          received,         \* how many requests were received
          cut               \* history: observations whose request ended by
                            \*   a crash or because a call raised

vars == <<observations, items, links, replays, policy, now, pc, req, received,
          cut>>

Observation == [external : Externals \cup {NoExternal}, key : Keys \cup {NoKey},
                policy : PolicyFields]      \* history: the policy in force then

Item == [key : Keys, status : ItemStatus, priority : Priorities, count : Nat,
         updated : Nat]

(* A request and its locals: the policy read at its start, the ids it has  *)
(* read so far (0 when there is none), the items that were open when it    *)
(* counted them and when it listed them, the item found by _resolve as it  *)
(* was then.                                                               *)
Request == [external : Externals \cup {NoExternal}, key : Keys \cup {NoKey},
            priority : Priorities, policy : PolicyFields, observation : Nat,
            stamp : Nat, counted : SUBSET Nat, listed : SUBSET Nat, item : Nat,
            itemPriority : Nat, itemCount : Nat]

NoRequest == [external |-> NoExternal]

Answered == {"idle", "created", "merged", "observed", "replayed", "failed"}

Steps == {"lookup", "replay_item", "record_replay", "create_observation",
          "count_open", "by_key", "resolve", "merge", "create_item"}

TypeOK == /\ observations \in Seq(Observation)
          /\ items \in Seq(Item)
          /\ DOMAIN links \subseteq DOMAIN observations
          /\ \A o \in DOMAIN links : links[o] \in DOMAIN items
          /\ replays \in Seq(DOMAIN observations)
          /\ policy \in PolicyFields
          /\ now \in Nat
          /\ pc \in [Threads -> Answered \cup Steps]
          /\ req \in [Threads -> Request \cup {NoRequest}]
          /\ \A t \in Threads : pc[t] \in Steps => req[t] \in Request
          /\ received \in Nat
          /\ cut \subseteq DOMAIN observations

Init == /\ observations = <<>>
        /\ items = <<>>
        /\ links = <<>>
        /\ replays = <<>>
        /\ policy \in Policies \cup {DefaultPolicy}
        /\ now = 0
        /\ pc = [t \in Threads |-> "idle"]
        /\ req = [t \in Threads |-> NoRequest]
        /\ received = 0
        /\ cut = {}

-----------------------------------------------------------------------------
Open(i) == items[i].status = "open"

OpenItems == {i \in DOMAIN items : Open(i)}

(* cap_priority                                                            *)
Capped(p, pol) == IF p > pol.maxPriority THEN pol.maxPriority ELSE p

Go(t, step) == pc' = [pc EXCEPT ![t] = step]

(* The request is answered and its locals are gone.                        *)
Answer(t, a) == Go(t, a) /\ req' = [req EXCEPT ![t] = NoRequest]

-----------------------------------------------------------------------------
(* A request is received: ingest reads the policy, once.                   *)
Receive(t, e, k, p) ==
    /\ pc[t] \in Answered
    /\ received < MaxRequests
    /\ received' = received + 1
    /\ req' = [req EXCEPT ![t] =
                 [external |-> e, key |-> k, priority |-> p, policy |-> policy,
                  observation |-> 0, stamp |-> 0, counted |-> {}, listed |-> {},
                  item |-> 0, itemPriority |-> 0, itemCount |-> 0]]
    /\ Go(t, IF e # NoExternal THEN "lookup" ELSE "create_observation")
    /\ UNCHANGED <<observations, items, links, replays, policy, now, cut>>

(* get_observation_by_external                                             *)
WithExternal(e) == {o \in DOMAIN observations : observations[o].external = e}

Lookup(t) ==
    /\ pc[t] = "lookup"
    /\ LET same == WithExternal(req[t].external) IN
         IF same = {} THEN Go(t, "create_observation") /\ UNCHANGED req
         ELSE /\ Go(t, "replay_item")
              /\ \E o \in same : req' = [req EXCEPT ![t].observation = o]
    /\ UNCHANGED <<observations, items, links, replays, policy, now, received,
                   cut>>

(* A replay answers with the item of the first observation, if it has one. *)
ReplayItem(t) ==
    /\ pc[t] = "replay_item"
    /\ LET o == req[t].observation IN
         req' = [req EXCEPT ![t].item = IF o \in DOMAIN links THEN links[o]
                                        ELSE 0]
    /\ Go(t, "record_replay")
    /\ UNCHANGED <<observations, items, links, replays, policy, now, received,
                   cut>>

RecordReplay(t) ==
    /\ pc[t] = "record_replay"
    /\ replays' = Append(replays, req[t].observation)
    /\ Answer(t, "replayed")
    /\ UNCHANGED <<observations, items, links, policy, now, received, cut>>

(* create_observation: the unique index refuses a second row with the same *)
(* external id, which ingest does not catch.  The gates on the source, the *)
(* candidate and auto_create follow without a store call.                  *)
Gated(o) == \/ ~observations[o].policy.allowsSource
            \/ observations[o].key = NoKey
            \/ ~observations[o].policy.autoCreate

NextGateRereads(t, r) ==         \* mutant: the policy is asked for again
    IF ~policy.allowsSource \/ r.key = NoKey \/ ~policy.autoCreate
    THEN Answer(t, "observed")
    ELSE /\ Go(t, IF policy.quota > 0 THEN "count_open" ELSE "resolve")
         /\ req' = [req EXCEPT ![t] = [r EXCEPT !.policy = policy]]

NextGate(t, r) ==
    IF ~r.policy.allowsSource \/ r.key = NoKey \/ ~r.policy.autoCreate
    THEN Answer(t, "observed")
    ELSE /\ Go(t, IF r.policy.quota > 0 THEN "count_open" ELSE "resolve")
         /\ req' = [req EXCEPT ![t] = r]

CreateObservation(t) ==
    LET r == req[t]
        o == Len(observations) + 1
    IN
    /\ pc[t] = "create_observation"
    /\ IF r.external # NoExternal /\ WithExternal(r.external) # {}
       THEN Answer(t, "failed") /\ UNCHANGED <<observations, now>>
       ELSE /\ observations' = Append(observations,
                 [external |-> r.external, key |-> r.key, policy |-> r.policy])
            /\ now' = now + 1
            /\ NextGate(t, [r EXCEPT !.observation = o, !.stamp = now])
    /\ UNCHANGED <<items, links, replays, policy, received, cut>>

(* The quota gate: the open items are counted, then the key is looked up,  *)
(* among the items of any status.                                          *)
CountOpen(t) ==
    /\ pc[t] = "count_open"
    /\ req' = [req EXCEPT ![t].counted = OpenItems]
    /\ Go(t, "by_key")
    /\ UNCHANGED <<observations, items, links, replays, policy, now, received,
                   cut>>

ByKeyOffByOne(t) ==                              \* mutant: open > quota
    /\ pc[t] = "by_key"
    /\ LET known == \E i \in DOMAIN items : items[i].key = req[t].key IN
         IF ~known /\ Cardinality(req[t].counted) > req[t].policy.quota
         THEN Answer(t, "observed")
         ELSE Go(t, "resolve") /\ UNCHANGED req
    /\ UNCHANGED <<observations, items, links, replays, policy, now, received,
                   cut>>

ByKey(t) ==
    /\ pc[t] = "by_key"
    /\ LET known == \E i \in DOMAIN items : items[i].key = req[t].key IN
         IF ~known /\ Cardinality(req[t].counted) >= req[t].policy.quota
         THEN Answer(t, "observed")
         ELSE Go(t, "resolve") /\ UNCHANGED req
    /\ UNCHANGED <<observations, items, links, replays, policy, now, received,
                   cut>>

ListedInAnyStatus ==                \* mutant: without status NOT IN (...)
    {i \in DOMAIN items :
       Cardinality({j \in DOMAIN items : items[j].updated > items[i].updated})
         < ListLimit}

(* list_open_work_items: the ListLimit open items updated last.  _resolve  *)
(* takes the first with the same key, else the first of those most alike,  *)
(* if they are alike enough for the policy of the moment.                  *)
Listed == {i \in OpenItems :
             Cardinality({j \in OpenItems : items[j].updated > items[i].updated})
               < ListLimit}

FirstOf(S) == {i \in S : \A j \in S : items[j].updated <= items[i].updated}

Alike(k, threshold) ==
    LET Score(i) == Similarity[k, items[i].key]
        enough == {i \in Listed : Score(i) >= threshold}
    IN  {i \in enough : \A j \in enough : Score(j) <= Score(i)}

ResolvedFirstRow(k, threshold) ==   \* mutant: the first item with the key
    LET same == {i \in DOMAIN items :
                   /\ items[i].key = k
                   /\ \A j \in 1..(i - 1) : items[j].key # k}
    IN  FirstOf(IF same # {} THEN same \cap OpenItems ELSE Alike(k, threshold))

Resolved(k, threshold) ==
    LET same == {i \in Listed : items[i].key = k}
    IN  FirstOf(IF same # {} THEN same ELSE Alike(k, threshold))

Resolve(t) ==
    /\ pc[t] = "resolve"
    /\ LET found == Resolved(req[t].key, policy.threshold) IN
         IF found = {}
         THEN /\ Go(t, "create_item")
              /\ req' = [req EXCEPT ![t].listed = OpenItems]
         ELSE /\ Go(t, "merge")
              /\ \E i \in found :
                   req' = [req EXCEPT ![t].listed = OpenItems,
                                      ![t].item = i,
                                      ![t].itemPriority = items[i].priority,
                                      ![t].itemCount = items[i].count]
    /\ UNCHANGED <<observations, items, links, replays, policy, now, received,
                   cut>>

Link(o, i) == [x \in DOMAIN links \cup {o} |-> IF x = o THEN i ELSE links[x]]

(* merge_work_item: the priority is computed from the item as _resolve saw *)
(* it, before the transaction that writes it, adds one to the count and    *)
(* links the observation.                                                  *)
MergeCountsOldItem(t) ==       \* mutant: the count is of the item as it was read
    LET r == req[t]
        p == Capped(r.priority, r.policy)
    IN
    /\ pc[t] = "merge"
    /\ items' = [items EXCEPT
                   ![r.item].priority = IF p > r.itemPriority THEN p
                                        ELSE r.itemPriority,
                   ![r.item].count = r.itemCount + 1,
                   ![r.item].updated = r.stamp]
    /\ links' = Link(r.observation, r.item)
    /\ Answer(t, "merged")
    /\ UNCHANGED <<observations, replays, policy, now, received, cut>>

MergeTakesPriority(t) ==        \* mutant: the priority is the new observation's
    LET r == req[t]
        p == Capped(r.priority, r.policy)
    IN
    /\ pc[t] = "merge"
    /\ items' = [items EXCEPT
                   ![r.item].priority = p,
                   ![r.item].count = @ + 1,
                   ![r.item].updated = r.stamp]
    /\ links' = Link(r.observation, r.item)
    /\ Answer(t, "merged")
    /\ UNCHANGED <<observations, replays, policy, now, received, cut>>

Merge(t) ==
    LET r == req[t]
        p == Capped(r.priority, r.policy)
    IN
    /\ pc[t] = "merge"
    /\ items' = [items EXCEPT
                   ![r.item].priority = IF p > r.itemPriority THEN p
                                        ELSE r.itemPriority,
                   ![r.item].count = @ + 1,
                   ![r.item].updated = r.stamp]
    /\ links' = Link(r.observation, r.item)
    /\ Answer(t, "merged")
    /\ UNCHANGED <<observations, replays, policy, now, received, cut>>

(* create_work_item: the item and its first link, in one transaction.      *)
CreateItem(t) ==
    LET r == req[t] IN
    /\ pc[t] = "create_item"
    /\ items' = Append(items,
                  [key |-> r.key, status |-> "open", count |-> 1,
                   priority |-> Capped(r.priority, r.policy),
                   updated |-> r.stamp])
    /\ links' = Link(r.observation, Len(items) + 1)
    /\ Answer(t, "created")
    /\ UNCHANGED <<observations, replays, policy, now, received, cut>>

-----------------------------------------------------------------------------
(* The surroundings: the transition engine changes a status, an            *)
(* administrator puts a policy, the process crashes.                       *)
Move(i, s) ==
    /\ now < MaxTime
    /\ items' = [items EXCEPT ![i].status = s, ![i].updated = now]
    /\ now' = now + 1
    /\ UNCHANGED <<observations, links, replays, policy, pc, req, received, cut>>

PutPolicy(p) ==
    /\ policy' = p
    /\ UNCHANGED <<observations, items, links, replays, now, pc, req, received,
                   cut>>

Owns(t, o) == pc[t] \in Steps \ {"replay_item", "record_replay"}
              /\ req[t].observation = o

InHand(t) == {o \in DOMAIN observations : Owns(t, o)}

(* A store call raises: the transactions are rolled back, what the request *)
(* has stored before stays.                                                *)
CallFails(t) ==
    /\ pc[t] \in Steps
    /\ cut' = cut \cup InHand(t)
    /\ Answer(t, "failed")
    /\ UNCHANGED <<observations, items, links, replays, policy, now, received>>

(* Requests are cut where they stand; policies are not read back from the  *)
(* database when the process starts again.                                 *)
Crash == /\ MayCrash
         /\ cut' = cut \cup UNION {InHand(t) : t \in Threads}
         /\ pc' = [t \in Threads |-> "idle"]
         /\ req' = [t \in Threads |-> NoRequest]
         /\ policy' = DefaultPolicy
         /\ UNCHANGED <<observations, items, links, replays, now, received>>

-----------------------------------------------------------------------------
Ingest(t) == \/ \E e \in Externals \cup {NoExternal}, k \in Keys \cup {NoKey},
                   p \in Priorities : Receive(t, e, k, p)
             \/ Lookup(t) \/ ReplayItem(t) \/ RecordReplay(t)
             \/ CreateObservation(t)
             \/ CountOpen(t) \/ ByKey(t)
             \/ Resolve(t) \/ Merge(t) \/ CreateItem(t)
             \/ CallFails(t)

Next == \/ \E t \in Threads : Ingest(t)
        \/ \E i \in DOMAIN items, s \in ItemStatus : Move(i, s)
        \/ \E p \in Policies : PutPolicy(p)
        \/ Crash

Spec == Init /\ [][Next]_vars

-----------------------------------------------------------------------------
(* Properties.                                                             *)

(* An item's observation_count is the number of observations linked to it: *)
(* the two tables are written in one transaction, and the count is         *)
(* increased in the database, not in the item ingest has read.             *)
CountMatchesLinks ==
    \A i \in DOMAIN items :
        items[i].count = Cardinality({o \in DOMAIN links : links[o] = i})

(* An actionable observation that the policy let through, with no quota,   *)
(* has its work item, or is about to get it from the request that brought  *)
(* it; only a crash, or a store call that raises, between the insertion of *)
(* the observation and the end of the item's transaction leaves it without.*)
NeedsWork(o) == ~Gated(o) /\ observations[o].policy.quota = 0

LostOnlyIfCut ==
    \A o \in DOMAIN observations :
        NeedsWork(o) => \/ o \in DOMAIN links \cup cut
                        \/ \E t \in Threads :
                              /\ pc[t] \in {"resolve", "merge", "create_item"}
                              /\ req[t].observation = o

(* An item's priority never drops but for a merge that computed it from an *)
(* item it had read before another merge.                                  *)
PriorityDropsOnlyIfStale ==
    [][\A i \in DOMAIN items : items'[i].priority < items[i].priority =>
          \E t \in Threads : /\ pc[t] = "merge" /\ req[t].item = i
                             /\ req[t].itemCount < items[i].count]_vars

(* Two requests may race past each other's lookups, but no further: an     *)
(* item is created beside an open one with its key only if that one was    *)
(* created or reopened after the creator had listed the open items, or     *)
(* more were open then than _resolve looks at.                             *)
Creators == {t \in Threads : pc[t] = "create_item" /\ pc'[t] = "created"}

SecondItemOnlyByRace ==
    [][\A t \in Creators : LET r == req[t] IN
          \/ Cardinality(r.listed) > ListLimit
          \/ \A i \in OpenItems \cap r.listed : items[i].key # r.key]_vars

(* An observation disappears into an item that is not open only if the     *)
(* item was open when the request listed the open ones; and it goes to an  *)
(* item with another key only if none of those had its own, or more were   *)
(* open than _resolve looks at.                                            *)
Mergers == {t \in Threads : pc[t] = "merge" /\ pc'[t] = "merged"}

MergesWhereItBelongs ==
    [][\A t \in Mergers : LET r == req[t] IN
          /\ r.item \in r.listed
          /\ \/ items[r.item].key = r.key
             \/ Cardinality(r.listed) > ListLimit
             \/ \A i \in r.listed : items[i].key # r.key]_vars

(* max_work_items, "maximum number of OPEN work-items" (policy.py 44), is   *)
(* exceeded only by items that were created or reopened after the creator  *)
(* had counted, or for a key that some item has.  That may be a closed     *)
(* one, so this is less than the policy says.                              *)
QuotaExceededOnlyByRace ==
    [][\A t \in Creators : LET r == req[t] IN
          r.policy.quota > 0 =>
             \/ Cardinality(OpenItems \cap r.counted) < r.policy.quota
             \/ \E i \in DOMAIN items : items[i].key = r.key]_vars
=============================================================================
