---------------------------- MODULE IntakeProofs ----------------------------
(***************************************************************************)
(* Intake for any threads, keys, policies and bounds, with any number of   *)
(* crashes: types, and what races of requests can and cannot do to counts, *)
(* priorities, open items and the quota.                                   *)
(***************************************************************************)
EXTENDS Intake, FiniteSetTheorems, SequenceTheorems, WellFoundedInduction,
        TLAPS

(* Steps in which a request owns an observation without a work item, and   *)
(* those after the quota gate.                                             *)
Working == {"count_open", "by_key", "resolve", "merge", "create_item"}

Placing == {"resolve", "merge", "create_item"}

(* What holds of a thread at step s with request r, over these tables: its *)
(* locals have their types,                                                *)
LocalsOK(s, r, obs, its) ==
    /\ s \in Answered \cup Steps
    /\ r \in Request \cup {NoRequest}
    /\ s \in Steps => /\ r \in Request
                      /\ r.counted \subseteq DOMAIN its
                      /\ r.listed \subseteq DOMAIN its
    /\ s \in {"replay_item", "record_replay"} => r.observation \in DOMAIN obs

(* its observation is the one it inserted and has no item yet,             *)
OwnsOK(s, r, obs, lk) ==
    s \in Working =>
        /\ r.observation \in DOMAIN obs \ DOMAIN lk
        /\ obs[r.observation].policy = r.policy
        /\ obs[r.observation].key = r.key
        /\ r.key \in Keys

(* it has passed the quota gate, or there is none,                         *)
QuotaOK(s, r, its) ==
    /\ s \in {"count_open", "by_key"} => r.policy.quota > 0
    /\ s \in Placing /\ r.policy.quota > 0 =>
          \/ Cardinality(r.counted) < r.policy.quota
          \/ \E i \in DOMAIN its : its[i].key = r.key

(* it creates an item, or merges into one with another key, only when no   *)
(* open one it was shown has its key, and merges only into one of those,   *)
KeyNotShown(r, its) == \/ Cardinality(r.listed) > ListLimit
                       \/ \A i \in r.listed : its[i].key # r.key

ListedOK(s, r, its) ==
    /\ s = "create_item" => KeyNotShown(r, its)
    /\ s = "merge" => /\ r.item \in r.listed
                      /\ its[r.item].key = r.key \/ KeyNotShown(r, its)

(* and the item it merges into can have changed only by other merges.      *)
ReadOK(s, r, its) ==
    s = "merge" => /\ r.item \in DOMAIN its /\ r.itemPriority \in Priorities
                   /\ r.itemCount <= its[r.item].count
                   /\ r.itemCount = its[r.item].count =>
                         r.itemPriority = its[r.item].priority

ThreadOK(s, r, obs, its, lk) ==
    /\ LocalsOK(s, r, obs, its) /\ OwnsOK(s, r, obs, lk)
    /\ QuotaOK(s, r, its) /\ ListedOK(s, r, its) /\ ReadOK(s, r, its)

ThreadsOK ==
    /\ pc = [t \in Threads |-> pc[t]] /\ req = [t \in Threads |-> req[t]]
    /\ \A t \in Threads : ThreadOK(pc[t], req[t], observations, items, links)
    /\ \A t, u \in Threads : t # u /\ pc[t] \in Working /\ pc[u] \in Working
                               => req[t].observation # req[u].observation

TablesOK ==
    /\ observations \in Seq(Observation)
    /\ items \in Seq(Item)
    /\ DOMAIN links \subseteq DOMAIN observations
    /\ \A o \in DOMAIN links : links[o] \in DOMAIN items
    /\ replays \in Seq(DOMAIN observations)
    /\ policy \in PolicyFields /\ now \in Nat /\ received \in Nat
    /\ cut \subseteq DOMAIN observations

IInv == TablesOK /\ ThreadsOK /\ CountMatchesLinks /\ LostOnlyIfCut

LEMMA TypeOKFromInv == TablesOK /\ ThreadsOK => TypeOK
<1>1. SUFFICES ASSUME TablesOK, ThreadsOK
               PROVE  TypeOK
  OBVIOUS
<1>2. \A t \in Threads : /\ pc[t] \in Answered \cup Steps
                         /\ req[t] \in Request \cup {NoRequest}
                         /\ pc[t] \in Steps => req[t] \in Request
  BY <1>1 DEF ThreadsOK, ThreadOK, LocalsOK
<1> QED
  BY <1>1, <1>2 DEF TypeOK, TablesOK, ThreadsOK

-----------------------------------------------------------------------------
(* Rows stay: what a step may do to the tables others rely on.             *)
ObservationsGrow(obs, obs2) ==
    /\ DOMAIN obs \subseteq DOMAIN obs2
    /\ \A o \in DOMAIN obs : obs2[o] = obs[o]

ItemsGrow(its, its2) ==
    /\ DOMAIN its \subseteq DOMAIN its2
    /\ \A i \in DOMAIN its : /\ its2[i].key = its[i].key
                             /\ its2[i].count >= its[i].count
                             /\ its2[i].count = its[i].count =>
                                   its2[i].priority = its[i].priority

LEMMA ThreadStaysOK ==
    ASSUME NEW s, NEW r, NEW obs, NEW obs2, NEW its \in Seq(Item),
           NEW its2 \in Seq(Item), NEW lk, NEW lk2,
           ThreadOK(s, r, obs, its, lk),
           ObservationsGrow(obs, obs2), ItemsGrow(its, its2),
           s \in Working => r.observation \notin DOMAIN lk2
    PROVE  ThreadOK(s, r, obs2, its2, lk2)
<1>1. LocalsOK(s, r, obs2, its2)
  BY DEF ThreadOK, LocalsOK, ObservationsGrow, ItemsGrow
<1>2. OwnsOK(s, r, obs2, lk2)
  BY DEF ThreadOK, OwnsOK, ObservationsGrow
<1>3. QuotaOK(s, r, its2)
  BY DEF ThreadOK, QuotaOK, ItemsGrow
<1>4. s \in {"create_item", "merge"} => r.listed \subseteq DOMAIN its
  BY DEF ThreadOK, LocalsOK, Steps
<1>5. ListedOK(s, r, its2)
  BY <1>4 DEF ThreadOK, ListedOK, KeyNotShown, ItemsGrow
<1>6. ReadOK(s, r, its2)
  <2>1. SUFFICES ASSUME s = "merge"
                 PROVE  ReadOK(s, r, its2)
    BY DEF ReadOK
  <2>2. /\ r.item \in DOMAIN its /\ r.item \in DOMAIN its2
        /\ r.itemPriority \in Priorities
        /\ r.itemCount <= its[r.item].count
        /\ r.itemCount = its[r.item].count => r.itemPriority = its[r.item].priority
        /\ its2[r.item].count >= its[r.item].count
        /\ its2[r.item].count = its[r.item].count =>
              its2[r.item].priority = its[r.item].priority
    BY <2>1 DEF ThreadOK, ReadOK, ItemsGrow
  <2>3. its[r.item] \in Item /\ its2[r.item] \in Item /\ r \in Request
    BY <2>1, <2>2 DEF ThreadOK, LocalsOK, Steps
  <2>4. /\ its[r.item].count \in Nat /\ its2[r.item].count \in Nat
        /\ r.itemCount \in Nat
    BY <2>3 DEF Item, Request
  <2> QED
    BY <2>1, <2>2, <2>4 DEF ReadOK
<1> QED
  BY <1>1, <1>2, <1>3, <1>5, <1>6 DEF ThreadOK

(* One thread moves and the tables grow: the others stay as they should.   *)
Grows == /\ items \in Seq(Item) /\ items' \in Seq(Item)
         /\ ObservationsGrow(observations, observations')
         /\ ItemsGrow(items, items')

LEMMA ThreadsStep ==
    ASSUME ThreadsOK, Grows, NEW t \in Threads, NEW s, NEW r,
           pc' = [pc EXCEPT ![t] = s], req' = [req EXCEPT ![t] = r],
           ThreadOK(s, r, observations', items', links'),
           \A u \in Threads \ {t} : pc[u] \in Working =>
              /\ req[u].observation \notin DOMAIN links'
              /\ s \in Working => req[u].observation # r.observation
    PROVE  ThreadsOK'
<1>1. /\ pc' = [u \in Threads |-> IF u = t THEN s ELSE pc[u]]
      /\ req' = [u \in Threads |-> IF u = t THEN r ELSE req[u]]
  BY DEF ThreadsOK
<1>2. /\ pc' = [u \in Threads |-> pc'[u]] /\ req' = [u \in Threads |-> req'[u]]
      /\ pc'[t] = s /\ req'[t] = r
      /\ \A u \in Threads \ {t} : pc'[u] = pc[u] /\ req'[u] = req[u]
  BY <1>1
<1>3. ASSUME NEW u \in Threads \ {t}
      PROVE  ThreadOK(pc[u], req[u], observations', items', links')
  <2>1. ThreadOK(pc[u], req[u], observations, items, links)
    BY DEF ThreadsOK
  <2> QED
    BY <2>1, <1>3, ThreadStaysOK DEF Grows
<1>4. \A u \in Threads : ThreadOK(pc'[u], req'[u], observations', items', links')
  BY <1>2, <1>3
<1>5. ASSUME NEW u \in Threads, NEW v \in Threads, u # v,
             pc'[u] \in Working, pc'[v] \in Working
      PROVE  req'[u].observation # req'[v].observation
  <2>1. CASE u # t /\ v # t
    BY <1>2, <1>5, <2>1 DEF ThreadsOK
  <2>2. CASE u = t \/ v = t
    BY <1>2, <1>5, <2>2
  <2> QED
    BY <2>1, <2>2
<1> QED
  BY <1>2, <1>4, <1>5 DEF ThreadsOK

(* A step that writes no table.                                            *)
LEMMA UnchangedGrows ==
    ASSUME TablesOK, UNCHANGED <<observations, items>>
    PROVE  Grows
<1>1. /\ \A o \in DOMAIN observations : observations'[o] = observations[o]
      /\ \A i \in DOMAIN items : items[i] \in Item
  BY DEF TablesOK
<1> QED
  BY <1>1 DEF TablesOK, Grows, ObservationsGrow, ItemsGrow, Item

(* A thread takes a step of its own and leaves the tables alone, keeping   *)
(* the observation it owns: nothing about work items changes.              *)
LEMMA LocalStep ==
    ASSUME IInv, NEW t \in Threads, NEW s, NEW r,
           UNCHANGED <<observations, items, links, cut>>,
           pc' = [pc EXCEPT ![t] = s], req' = [req EXCEPT ![t] = r],
           ThreadOK(s, r, observations, items, links),
           s \in Working => /\ pc[t] \in Working
                            /\ r.observation = req[t].observation,
           pc[t] \in Placing => s \in Placing
    PROVE  ThreadsOK' /\ CountMatchesLinks' /\ LostOnlyIfCut'
<1>1. ThreadsOK'
  <2>1. \A u \in Threads \ {t} : pc[u] \in Working =>
          /\ req[u].observation \notin DOMAIN links'
          /\ s \in Working => req[u].observation # r.observation
    BY DEF IInv, ThreadsOK, ThreadOK, OwnsOK
  <2> QED
    BY <2>1, UnchangedGrows, ThreadsStep DEF IInv
<1>2. CountMatchesLinks'
  BY DEF IInv, CountMatchesLinks
<1>3. ASSUME NEW o \in DOMAIN observations, NeedsWork(o),
             o \notin DOMAIN links \cup cut
      PROVE  \E u \in Threads : pc'[u] \in Placing /\ req'[u].observation = o
  <2>1. PICK u \in Threads : pc[u] \in Placing /\ req[u].observation = o
    BY <1>3 DEF IInv, LostOnlyIfCut, Placing
  <2>2. CASE u = t
    BY <2>1, <2>2 DEF IInv, ThreadsOK, Placing, Working
  <2>3. CASE u # t
    BY <2>1, <2>3 DEF IInv, ThreadsOK
  <2> QED
    BY <2>2, <2>3
<1>4. \A o : NeedsWork(o)' <=> NeedsWork(o)
  BY DEF NeedsWork, Gated
<1>5. LostOnlyIfCut'
  BY <1>3, <1>4 DEF LostOnlyIfCut, Placing
<1> QED
  BY <1>1, <1>2, <1>5

-----------------------------------------------------------------------------
(* The steps one by one.                                                   *)
LEMMA ThreadFacts ==
    ASSUME IInv, NEW t \in Threads, pc[t] \in Steps
    PROVE  /\ ThreadOK(pc[t], req[t], observations, items, links)
           /\ req[t] \in Request
           /\ req[t].counted \subseteq DOMAIN items
           /\ req[t].listed \subseteq DOMAIN items
           /\ req' = req => req' = [req EXCEPT ![t] = req[t]]
  BY DEF IInv, ThreadsOK, ThreadOK, LocalsOK

LEMMA AnsweredOK ==
    ASSUME NEW a \in Answered, NEW obs, NEW its, NEW lk
    PROVE  ThreadOK(a, NoRequest, obs, its, lk)
  BY DEF ThreadOK, LocalsOK, OwnsOK, QuotaOK, ListedOK, ReadOK, Answered,
         Steps, Working, Placing

(* Steps before an observation is owned, and the replay.                   *)
LEMMA EarlyOK ==
    ASSUME NEW s, NEW r \in Request, NEW obs, NEW its, NEW lk,
           r.counted \subseteq DOMAIN its, r.listed \subseteq DOMAIN its,
           \/ s \in {"lookup", "create_observation"}
           \/ s \in {"replay_item", "record_replay"}
                /\ r.observation \in DOMAIN obs
    PROVE  ThreadOK(s, r, obs, its, lk) /\ s \notin Working
<1>1. s \in {"lookup", "create_observation", "replay_item", "record_replay"}
  OBVIOUS
<1>2. s \in Steps /\ s \notin Working
  BY <1>1 DEF Steps, Working
<1>3. LocalsOK(s, r, obs, its)
  BY <1>2 DEF LocalsOK
<1>4. OwnsOK(s, r, obs, lk) /\ QuotaOK(s, r, its) /\ ListedOK(s, r, its)
      /\ ReadOK(s, r, its)
  BY <1>1 DEF OwnsOK, QuotaOK, ListedOK, ReadOK, Working, Placing
<1> QED
  BY <1>2, <1>3, <1>4 DEF ThreadOK

LEMMA ReceiveStep ==
    ASSUME IInv, NEW t \in Threads, NEW e \in Externals \cup {NoExternal},
           NEW k \in Keys \cup {NoKey}, NEW p \in Priorities, Receive(t, e, k, p)
    PROVE  IInv'
<1> DEFINE r == [external |-> e, key |-> k, priority |-> p, policy |-> policy,
                 observation |-> 0, stamp |-> 0, counted |-> {},
                 listed |-> {}, item |-> 0, itemPriority |-> 0,
                 itemCount |-> 0]
           s == IF e # NoExternal THEN "lookup" ELSE "create_observation"
<1>1. policy \in PolicyFields
  BY DEF IInv, TablesOK
<1>2. r \in Request /\ r.counted = {} /\ r.listed = {}
  BY <1>1 DEF Request
<1>3. ThreadOK(s, r, observations, items, links) /\ s \notin Working
  BY <1>2, EarlyOK
<1>4. /\ pc' = [pc EXCEPT ![t] = s] /\ req' = [req EXCEPT ![t] = r]
      /\ pc[t] \notin Placing
      /\ UNCHANGED <<observations, items, links, cut>>
  BY DEF Receive, Go, Answered, Placing
<1>5. ThreadsOK' /\ CountMatchesLinks' /\ LostOnlyIfCut'
  <2> HIDE DEF r, s
  <2> QED
    BY <1>3, <1>4, LocalStep
<1>6. TablesOK'
  BY DEF Receive, IInv, TablesOK
<1> QED
  BY <1>5, <1>6 DEF IInv

LEMMA LookupStep ==
    ASSUME IInv, NEW t \in Threads, Lookup(t)
    PROVE  IInv'
<1>1. pc[t] \in Steps /\ pc[t] \notin Placing
  BY DEF Lookup, Steps, Placing
<1>2. TablesOK' /\ UNCHANGED <<observations, items, links, cut>>
  BY DEF Lookup, IInv, TablesOK
<1>3. CASE WithExternal(req[t].external) = {}
  <2>1. pc' = [pc EXCEPT ![t] = "create_observation"] /\ req' = req
    BY <1>3 DEF Lookup, Go
  <2>2. /\ req' = [req EXCEPT ![t] = req[t]]
        /\ ThreadOK("create_observation", req[t], observations, items, links)
        /\ "create_observation" \notin Working
    BY <1>1, <2>1, ThreadFacts, EarlyOK
  <2> QED
    BY <1>1, <1>2, <2>1, <2>2, LocalStep DEF IInv
<1>4. CASE WithExternal(req[t].external) # {}
  <2>1. PICK o \in WithExternal(req[t].external) :
            req' = [req EXCEPT ![t].observation = o]
    BY <1>4 DEF Lookup
  <2> DEFINE r == [req[t] EXCEPT !.observation = o]
  <2>2. pc' = [pc EXCEPT ![t] = "replay_item"] /\ req' = [req EXCEPT ![t] = r]
    BY <1>4, <2>1 DEF Lookup, Go
  <2>3. o \in DOMAIN observations /\ o \in Nat
    <3>1. o \in DOMAIN observations
      BY DEF WithExternal
    <3> QED
      BY <3>1, LenProperties DEF IInv, TablesOK
  <2>4. /\ r \in Request /\ r.observation = o
        /\ r.counted \subseteq DOMAIN items /\ r.listed \subseteq DOMAIN items
    BY <1>1, <2>3, ThreadFacts DEF Request
  <2>5. /\ ThreadOK("replay_item", r, observations, items, links)
        /\ "replay_item" \notin Working
    BY <2>3, <2>4, EarlyOK
  <2> HIDE DEF r
  <2> QED
    BY <1>1, <1>2, <2>2, <2>5, LocalStep DEF IInv
<1> QED
  BY <1>3, <1>4

LEMMA ReplayItemStep ==
    ASSUME IInv, NEW t \in Threads, ReplayItem(t)
    PROVE  IInv'
<1> DEFINE o == req[t].observation
           i == IF o \in DOMAIN links THEN links[o] ELSE 0
           r == [req[t] EXCEPT !.item = i]
<1>1. pc[t] = "replay_item" /\ pc[t] \in Steps /\ pc[t] \notin Placing
  BY DEF ReplayItem, Steps, Placing
<1>2. TablesOK' /\ UNCHANGED <<observations, items, links, cut>>
  BY DEF ReplayItem, IInv, TablesOK
<1>3. i \in Nat
  <2>1. DOMAIN items \subseteq Nat
    BY LenProperties DEF IInv, TablesOK
  <2> QED
    BY <2>1 DEF IInv, TablesOK
<1>4. req[t] \in Request /\ o \in DOMAIN observations
  BY <1>1, ThreadFacts DEF ThreadOK, LocalsOK
<1>5. /\ r \in Request /\ r.observation \in DOMAIN observations
      /\ r.counted \subseteq DOMAIN items /\ r.listed \subseteq DOMAIN items
  <2> HIDE DEF i
  <2> QED
    BY <1>1, <1>3, <1>4, ThreadFacts DEF Request
<1>6. pc' = [pc EXCEPT ![t] = "record_replay"] /\ req' = [req EXCEPT ![t] = r]
  BY DEF ReplayItem, Go
<1>7. /\ ThreadOK("record_replay", r, observations, items, links)
      /\ "record_replay" \notin Working
  BY <1>5, EarlyOK
<1> HIDE DEF r
<1> QED
  BY <1>1, <1>2, <1>6, <1>7, LocalStep DEF IInv

LEMMA RecordReplayStep ==
    ASSUME IInv, NEW t \in Threads, RecordReplay(t)
    PROVE  IInv'
<1>1. pc[t] = "record_replay" /\ pc[t] \in Steps /\ pc[t] \notin Placing
  BY DEF RecordReplay, Steps, Placing
<1>2. req[t].observation \in DOMAIN observations
  BY <1>1, ThreadFacts DEF ThreadOK, LocalsOK
<1>3. replays' \in Seq(DOMAIN observations)
  <2> DEFINE D == DOMAIN observations
  <2>1. replays \in Seq(D) /\ req[t].observation \in D
    BY <1>2 DEF IInv, TablesOK
  <2> HIDE DEF D
  <2>2. Append(replays, req[t].observation) \in Seq(D)
    BY <2>1, AppendProperties
  <2> QED
    BY <2>2 DEF RecordReplay, D
<1>4. TablesOK' /\ UNCHANGED <<observations, items, links, cut>>
  BY <1>3 DEF RecordReplay, IInv, TablesOK
<1>5. "replayed" \in Answered /\ "replayed" \notin Working
  BY DEF Answered, Working
<1>6. /\ pc' = [pc EXCEPT ![t] = "replayed"]
      /\ req' = [req EXCEPT ![t] = NoRequest]
  BY DEF RecordReplay, Answer, Go
<1> QED
  BY <1>1, <1>4, <1>5, <1>6, AnsweredOK, LocalStep DEF IInv

(* The request that inserts an observation goes on to own it, unless a     *)
(* gate stops it, and then the observation needs no work.                  *)
LEMMA CreateObservationStep ==
    ASSUME IInv, NEW t \in Threads, CreateObservation(t)
    PROVE  IInv'
<1>0. PICK o : o = Len(observations) + 1
  OBVIOUS
<1> DEFINE row == [external |-> req[t].external, key |-> req[t].key,
                   policy |-> req[t].policy]
           r == [req[t] EXCEPT !.observation = o, !.stamp = now]
<1>1. /\ pc[t] = "create_observation" /\ pc[t] \in Steps
      /\ pc[t] \notin Placing /\ pc[t] \notin Working
  BY DEF CreateObservation, Steps, Placing, Working
<1>2. CASE Answer(t, "failed") /\ UNCHANGED <<observations, now>>
  <2>1. TablesOK' /\ UNCHANGED <<observations, items, links, cut>>
    BY <1>2 DEF CreateObservation, IInv, TablesOK
  <2>2. "failed" \in Answered /\ "failed" \notin Working
    BY DEF Answered, Working
  <2>3. /\ pc' = [pc EXCEPT ![t] = "failed"]
        /\ req' = [req EXCEPT ![t] = NoRequest]
    BY <1>2 DEF Answer, Go
  <2> QED
    BY <1>1, <2>1, <2>2, <2>3, AnsweredOK, LocalStep DEF IInv
<1>3. CASE /\ observations' = Append(observations, row) /\ now' = now + 1
           /\ NextGate(t, r)
  <2>1. req[t] \in Request /\ row \in Observation
    BY <1>1, ThreadFacts DEF Request, Observation
  <2>2. /\ observations \in Seq(Observation) /\ Len(observations) \in Nat
        /\ DOMAIN observations = 1..Len(observations)
    BY LenProperties DEF IInv, TablesOK
  <2>3. /\ observations' \in Seq(Observation)
        /\ Len(observations') = o
        /\ \A x \in 1..Len(observations) : observations'[x] = observations[x]
        /\ observations'[o] = row
    <3> HIDE DEF row
    <3> QED
      BY <1>0, <1>3, <2>1, <2>2, AppendProperties
  <2>4. /\ DOMAIN observations' = DOMAIN observations \cup {o}
        /\ o \notin DOMAIN observations
    BY <1>0, <2>2, <2>3, LenProperties
  <2>5. ObservationsGrow(observations, observations')
    BY <2>2, <2>3, <2>4 DEF ObservationsGrow
  <2>6. TablesOK'
    <3>1. replays \in Seq(DOMAIN observations')
      BY <2>4, SeqMonotonic DEF IInv, TablesOK
    <3> QED
      BY <1>3, <2>3, <2>4, <3>1 DEF CreateObservation, IInv, TablesOK
  <2>7. UNCHANGED <<items, links, cut>>
    BY DEF CreateObservation
  <2>8. Grows
    <3>1. items \in Seq(Item) /\ \A i \in DOMAIN items : items[i] \in Item
      BY DEF IInv, TablesOK
    <3> QED
      BY <2>5, <2>7, <3>1 DEF Grows, ItemsGrow, Item
  <2>9. /\ r \in Request /\ r.observation = o /\ r.key = req[t].key
        /\ r.policy = req[t].policy
        /\ r.counted \subseteq DOMAIN items /\ r.listed \subseteq DOMAIN items
    <3>1. now \in Nat /\ o \in Nat
      BY <1>0, <2>2 DEF IInv, TablesOK
    <3> QED
      BY <1>1, <2>1, <3>1, ThreadFacts DEF Request
  <2>10. \A u \in Threads \ {t} : pc[u] \in Working =>
            /\ req[u].observation \notin DOMAIN links'
            /\ req[u].observation # o
    BY <2>4, <2>7 DEF IInv, ThreadsOK, ThreadOK, OwnsOK
  <2>11. CountMatchesLinks'
    BY <2>7 DEF IInv, CountMatchesLinks
  <2>12. ASSUME NEW x \in DOMAIN observations,
                ~Gated(x)' /\ observations'[x].policy.quota = 0,
                x \notin DOMAIN links \cup cut
         PROVE  \E u \in Threads \ {t} : pc[u] \in Placing
                                         /\ req[u].observation = x
    <3>1. NeedsWork(x)
      BY <2>2, <2>3, <2>12 DEF NeedsWork, Gated
    <3> QED
      BY <1>1, <2>12, <3>1 DEF IInv, LostOnlyIfCut, Placing
  <2>13. ~Gated(o)' <=> /\ r.policy.allowsSource /\ r.key # NoKey
                        /\ r.policy.autoCreate
    BY <2>3, <2>9 DEF Gated
  <2>14. CASE Gated(o)'
    <3>1. /\ pc' = [pc EXCEPT ![t] = "observed"]
          /\ req' = [req EXCEPT ![t] = NoRequest]
      BY <1>3, <2>13, <2>14 DEF NextGate, Answer, Go
    <3>2. "observed" \in Answered /\ "observed" \notin Working
      BY DEF Answered, Working
    <3>3. ThreadsOK'
      BY <2>8, <2>10, <3>1, <3>2, AnsweredOK, ThreadsStep DEF IInv
    <3>4. \A u \in Threads \ {t} : pc'[u] = pc[u] /\ req'[u] = req[u]
      BY <3>1 DEF IInv, ThreadsOK
    <3>5. LostOnlyIfCut'
      BY <2>4, <2>7, <2>12, <2>14, <3>4 DEF LostOnlyIfCut, NeedsWork, Placing
    <3> QED
      BY <2>6, <2>11, <3>3, <3>5 DEF IInv
  <2>15. CASE ~Gated(o)'
    <3> DEFINE s == IF r.policy.quota > 0 THEN "count_open" ELSE "resolve"
    <3>1. pc' = [pc EXCEPT ![t] = s] /\ req' = [req EXCEPT ![t] = r]
      BY <1>3, <2>13, <2>15 DEF NextGate, Go
    <3>2. r.key \in Keys /\ r.policy.quota \in Nat
      BY <2>9, <2>13, <2>15 DEF Request, PolicyFields
    <3>3. ThreadOK(s, r, observations', items', links')
      <4>1. LocalsOK(s, r, observations', items')
        BY <2>7, <2>9 DEF LocalsOK, Steps
      <4>2. OwnsOK(s, r, observations', links')
        <5>1. o \in DOMAIN observations' /\ o \notin DOMAIN links'
          BY <2>4, <2>7 DEF IInv, TablesOK
        <5>2. observations'[o].policy = r.policy /\ observations'[o].key = r.key
          BY <2>3, <2>9
        <5> QED
          BY <2>9, <3>2, <5>1, <5>2 DEF OwnsOK
      <4>3. /\ QuotaOK(s, r, items') /\ ListedOK(s, r, items')
            /\ ReadOK(s, r, items')
        <5>1. r.policy.quota > 0 => s \notin Placing
          BY DEF Placing
        <5>2. s \in {"count_open", "by_key"} => r.policy.quota > 0
          OBVIOUS
        <5>3. s # "create_item" /\ s # "merge"
          OBVIOUS
        <5> HIDE DEF s, r
        <5> QED
          BY <5>1, <5>2, <5>3 DEF QuotaOK, ListedOK, ReadOK
      <4> QED
        BY <4>1, <4>2, <4>3 DEF ThreadOK
    <3>4. ThreadsOK'
      <4>1. \A u \in Threads \ {t} : pc[u] \in Working =>
               /\ req[u].observation \notin DOMAIN links'
               /\ s \in Working => req[u].observation # r.observation
        BY <2>9, <2>10
      <4>2. ThreadsOK
        BY DEF IInv
      <4> HIDE DEF s, r
      <4> QED
        BY <2>8, <3>1, <3>3, <4>1, <4>2, ThreadsStep
    <3>5. /\ \A u \in Threads \ {t} : pc'[u] = pc[u] /\ req'[u] = req[u]
          /\ pc'[t] = s /\ req'[t] = r
      BY <3>1 DEF IInv, ThreadsOK
    <3>6. r.policy.quota = 0 => pc'[t] \in Placing /\ req'[t].observation = o
      BY <2>9, <3>5 DEF Placing
    <3>7. observations'[o].policy.quota = r.policy.quota
      BY <2>3, <2>9
    <3>8. LostOnlyIfCut'
      <4> HIDE DEF s, r
      <4> QED
        BY <2>4, <2>7, <2>12, <3>5, <3>6, <3>7
           DEF LostOnlyIfCut, NeedsWork, Placing
    <3> QED
      BY <2>6, <2>11, <3>4, <3>8 DEF IInv
  <2> QED
    BY <2>14, <2>15
<1> QED
  BY <1>0, <1>2, <1>3 DEF CreateObservation

LEMMA FiniteItems ==
    ASSUME TablesOK, NEW S \in SUBSET DOMAIN items
    PROVE  IsFiniteSet(S) /\ Cardinality(S) \in Nat
<1>1. DOMAIN items = 1..Len(items) /\ Len(items) \in Nat
  BY LenProperties DEF TablesOK
<1>2. IsFiniteSet(DOMAIN items)
  BY <1>1, FS_Interval
<1> QED
  BY <1>2, FS_Subset, FS_CardinalityType

(* Of some items one was updated last: among the sets of those updated     *)
(* after a given one, a minimal set is empty.                              *)
LEMMA SomeItemIsFirst ==
    ASSUME TablesOK, NEW S \in SUBSET DOMAIN items, S # {}
    PROVE  FirstOf(S) # {}
<1> DEFINE After(i) == {j \in S : items[j].updated > items[i].updated}
           T == {After(i) : i \in S}
<1>1. \A i \in S : items[i].updated \in Nat
  <2>1. \A i \in S : items[i] \in Item
    BY DEF TablesOK
  <2> QED
    BY <2>1 DEF Item
<1>2. T \subseteq FiniteSubsetsOf(S) /\ T # {}
  <2>1. \A i \in S : After(i) \in SUBSET DOMAIN items
    OBVIOUS
  <2>2. \A i \in S : IsFiniteSet(After(i))
    BY <2>1, FiniteItems
  <2> QED
    BY <2>2 DEF FiniteSubsetsOf
<1>3. PICK x \in T : \A y \in T : <<y, x>> \notin StrictSubsetOrdering(S)
  <2> HIDE DEF T
  <2> QED
    BY <1>2, FS_StrictSubsetOrderingWellFounded, WFMin
<1>4. PICK i \in S : x = After(i)
  BY <1>3
<1>5. x = {}
  <2>1. SUFFICES ASSUME NEW j \in x PROVE FALSE
    OBVIOUS
  <2>2. j \in S /\ items[j].updated > items[i].updated
    BY <1>4, <2>1
  <2>3. After(j) \subseteq x /\ j \in x /\ j \notin After(j)
    BY <1>1, <1>4, <2>1, <2>2
  <2>4. After(j) \in T /\ x \subseteq S /\ After(j) \subseteq S
    BY <1>4, <2>2
  <2> QED
    BY <1>3, <2>3, <2>4 DEF StrictSubsetOrdering
<1>6. \A j \in S : items[j].updated <= items[i].updated
  BY <1>1, <1>4, <1>5
<1> QED
  BY <1>4, <1>6 DEF FirstOf

(* What _resolve is shown is every open item, unless there are more than   *)
(* it asks for; if it finds nothing, none of them has the key.             *)
LEMMA AllAreListed ==
    ASSUME TablesOK, Cardinality(OpenItems) <= ListLimit
    PROVE  OpenItems \subseteq Listed
<1>1. SUFFICES ASSUME NEW i \in OpenItems
               PROVE  i \in Listed
  OBVIOUS
<1>2. OpenItems \in SUBSET DOMAIN items
  BY DEF OpenItems
<1> DEFINE After == {j \in OpenItems : items[j].updated > items[i].updated}
<1>3. items[i].updated \in Nat
  <2>1. items[i] \in Item
    BY <1>1, <1>2 DEF TablesOK
  <2> QED
    BY <2>1 DEF Item
<1>4. /\ IsFiniteSet(OpenItems) /\ Cardinality(OpenItems) \in Nat
      /\ IsFiniteSet(After) /\ Cardinality(After) \in Nat
  BY <1>2, FiniteItems
<1>5. Cardinality(After) < Cardinality(OpenItems)
  <2>1. After \in SUBSET OpenItems /\ i \notin After
    BY <1>3
  <2> QED
    BY <1>1, <1>4, <2>1, FS_Subset
<1> QED
  BY <1>1, <1>4, <1>5, IntakeAssumption DEF Listed

LEMMA NothingFound ==
    ASSUME TablesOK, NEW k, NEW threshold, Resolved(k, threshold) = {},
           Cardinality(OpenItems) <= ListLimit
    PROVE  \A i \in OpenItems : items[i].key # k
<1>1. SUFFICES ASSUME NEW i \in OpenItems, items[i].key = k
               PROVE  FALSE
  OBVIOUS
<1> DEFINE Same == {j \in Listed : items[j].key = k}
<1>2. Same # {} /\ Same \in SUBSET DOMAIN items
  BY <1>1, AllAreListed DEF Listed, OpenItems
<1>3. FirstOf(Same) # {}
  BY <1>2, SomeItemIsFirst
<1> QED
  BY <1>2, <1>3 DEF Resolved

(* What it finds is open, and has another key only if none shown has it.   *)
LEMMA ResolvedAreOpen ==
    ASSUME NEW k, NEW threshold
    PROVE  /\ Resolved(k, threshold) \subseteq OpenItems
           /\ OpenItems \subseteq DOMAIN items
  BY DEF Resolved, FirstOf, Alike, Listed, OpenItems

LEMMA OtherKeyFound ==
    ASSUME TablesOK, NEW k, NEW threshold, NEW i \in Resolved(k, threshold),
           items[i].key # k, Cardinality(OpenItems) <= ListLimit
    PROVE  \A j \in OpenItems : items[j].key # k
<1> DEFINE Same == {j \in Listed : items[j].key = k}
<1>1. i \notin FirstOf(Same)
  BY DEF FirstOf
<1>2. Same = {}
  BY <1>1 DEF Resolved
<1> QED
  BY <1>2, AllAreListed

-----------------------------------------------------------------------------
LEMMA CountOpenStep ==
    ASSUME IInv, NEW t \in Threads, CountOpen(t)
    PROVE  IInv'
<1> DEFINE r == [req[t] EXCEPT !.counted = OpenItems]
<1>1. pc[t] = "count_open" /\ pc[t] \in Steps /\ pc[t] \in Working
      /\ pc[t] \notin Placing
  BY DEF CountOpen, Steps, Working, Placing
<1>2. TablesOK' /\ UNCHANGED <<observations, items, links, cut>>
  BY DEF CountOpen, IInv, TablesOK
<1>3. req[t] \in Request /\ ThreadOK(pc[t], req[t], observations, items, links)
      /\ req[t].listed \subseteq DOMAIN items
  BY <1>1, ThreadFacts
<1>4. OpenItems \subseteq DOMAIN items /\ OpenItems \in SUBSET Nat
  BY LenProperties DEF OpenItems, IInv, TablesOK
<1>5. /\ r \in Request /\ r.counted \subseteq DOMAIN items
      /\ r.listed = req[t].listed /\ r.observation = req[t].observation
      /\ r.policy = req[t].policy /\ r.key = req[t].key
  BY <1>3, <1>4 DEF Request
<1>6. pc' = [pc EXCEPT ![t] = "by_key"] /\ req' = [req EXCEPT ![t] = r]
  BY DEF CountOpen, Go
<1> HIDE DEF r
<1>7. LocalsOK("by_key", r, observations, items)
  BY <1>3, <1>5 DEF LocalsOK, Steps
<1>8. OwnsOK("by_key", r, observations, links)
  BY <1>1, <1>3, <1>5 DEF ThreadOK, OwnsOK
<1>9. QuotaOK("by_key", r, items)
  BY <1>1, <1>3, <1>5 DEF ThreadOK, QuotaOK, Placing
<1>10. ThreadOK("by_key", r, observations, items, links)
  BY <1>7, <1>8, <1>9 DEF ThreadOK, ListedOK, ReadOK
<1> QED
  BY <1>1, <1>2, <1>5, <1>6, <1>10, LocalStep DEF IInv

LEMMA ByKeyStep ==
    ASSUME IInv, NEW t \in Threads, ByKey(t)
    PROVE  IInv'
<1> DEFINE known == \E i \in DOMAIN items : items[i].key = req[t].key
           full == Cardinality(req[t].counted) >= req[t].policy.quota
<1>1. pc[t] = "by_key" /\ pc[t] \in Steps /\ pc[t] \in Working
      /\ pc[t] \notin Placing
  BY DEF ByKey, Steps, Working, Placing
<1>2. TablesOK' /\ UNCHANGED <<observations, items, links, cut>>
  BY DEF ByKey, IInv, TablesOK
<1>3. /\ req[t] \in Request
      /\ ThreadOK(pc[t], req[t], observations, items, links)
      /\ req[t].counted \subseteq DOMAIN items
      /\ req[t].listed \subseteq DOMAIN items
  BY <1>1, ThreadFacts
<1>4. CASE ~known /\ full
  <2>1. /\ pc' = [pc EXCEPT ![t] = "observed"]
        /\ req' = [req EXCEPT ![t] = NoRequest]
    BY <1>4 DEF ByKey, Answer, Go
  <2>2. "observed" \in Answered /\ "observed" \notin Working
    BY DEF Answered, Working
  <2> QED
    BY <1>1, <1>2, <2>1, <2>2, AnsweredOK, LocalStep DEF IInv
<1>5. CASE known \/ ~full
  <2>1. /\ pc' = [pc EXCEPT ![t] = "resolve"]
        /\ req' = req
    BY <1>5 DEF ByKey, Go
  <2>2. req' = [req EXCEPT ![t] = req[t]]
    BY <1>1, <2>1, ThreadFacts
  <2>3. LocalsOK("resolve", req[t], observations, items)
    BY <1>3 DEF LocalsOK, Steps
  <2>4. OwnsOK("resolve", req[t], observations, links)
    BY <1>1, <1>3 DEF ThreadOK, OwnsOK
  <2>5. QuotaOK("resolve", req[t], items)
    <3>1. Cardinality(req[t].counted) \in Nat /\ req[t].policy.quota \in Nat
      BY <1>3, FiniteItems DEF IInv, Request, PolicyFields
    <3> QED
      BY <1>5, <3>1 DEF QuotaOK
  <2>6. ThreadOK("resolve", req[t], observations, items, links)
    BY <2>3, <2>4, <2>5 DEF ThreadOK, ListedOK, ReadOK
  <2>7. "resolve" \in Working
    BY DEF Working
  <2> QED
    BY <1>1, <1>2, <2>1, <2>2, <2>6, <2>7, LocalStep DEF IInv
<1> QED
  BY <1>4, <1>5

LEMMA ResolveStep ==
    ASSUME IInv, NEW t \in Threads, Resolve(t)
    PROVE  IInv'
<1> DEFINE found == Resolved(req[t].key, policy.threshold)
<1>1. pc[t] = "resolve" /\ pc[t] \in Steps /\ pc[t] \in Working
  BY DEF Resolve, Steps, Working
<1>2. TablesOK' /\ UNCHANGED <<observations, items, links, cut>>
  BY DEF Resolve, IInv, TablesOK
<1>3. /\ req[t] \in Request
      /\ ThreadOK(pc[t], req[t], observations, items, links)
      /\ req[t].counted \subseteq DOMAIN items
      /\ req[t].listed \subseteq DOMAIN items
  BY <1>1, ThreadFacts
<1>4. DOMAIN items \subseteq Nat
  BY LenProperties DEF IInv, TablesOK
<1>5. ASSUME NEW s \in {"merge", "create_item"}, NEW r \in Request,
             \A f \in {"observation", "policy", "key", "counted"} :
                r[f] = req[t][f],
             r.listed \subseteq DOMAIN items,
             ListedOK(s, r, items), ReadOK(s, r, items),
             pc' = [pc EXCEPT ![t] = s], req' = [req EXCEPT ![t] = r]
      PROVE  IInv'
  <2>1. /\ r.observation = req[t].observation /\ r.policy = req[t].policy
        /\ r.key = req[t].key /\ r.counted = req[t].counted
    BY <1>3, <1>5 DEF Request
  <2>2. /\ s \in Steps /\ s \in Working /\ s \in Placing
        /\ s \notin {"replay_item", "record_replay", "count_open", "by_key"}
    BY <1>5 DEF Steps, Working, Placing
  <2>3. LocalsOK(s, r, observations, items)
    BY <1>3, <1>5, <2>1, <2>2 DEF LocalsOK
  <2>4. OwnsOK(s, r, observations, links)
    BY <1>1, <1>3, <2>1, <2>2 DEF ThreadOK, OwnsOK
  <2>5. QuotaOK(s, r, items)
    BY <1>1, <1>3, <2>1, <2>2 DEF ThreadOK, QuotaOK, Placing
  <2>6. ThreadOK(s, r, observations, items, links)
    BY <1>5, <2>3, <2>4, <2>5 DEF ThreadOK
  <2> QED
    BY <1>1, <1>2, <1>5, <2>1, <2>2, <2>6, LocalStep DEF IInv
<1>6. CASE found = {}
  <2> DEFINE r == [req[t] EXCEPT !.listed = OpenItems]
  <2>1. OpenItems \subseteq DOMAIN items /\ OpenItems \in SUBSET Nat
    BY <1>4 DEF OpenItems
  <2>2. /\ r \in Request /\ r.listed = OpenItems /\ r.key = req[t].key
        /\ \A f \in {"observation", "policy", "key", "counted"} :
              r[f] = req[t][f]
    BY <1>3, <2>1 DEF Request
  <2>3. pc' = [pc EXCEPT ![t] = "create_item"] /\ req' = [req EXCEPT ![t] = r]
    BY <1>6 DEF Resolve, Go
  <2>4. ListedOK("create_item", r, items)
    <3>1. ASSUME ~(Cardinality(OpenItems) > ListLimit)
          PROVE  \A i \in OpenItems : items[i].key # req[t].key
      <4>1. Cardinality(OpenItems) <= ListLimit
        BY <2>1, <3>1, FiniteItems, IntakeAssumption DEF IInv
      <4> QED
        BY <1>6, <4>1, NothingFound DEF IInv
    <3> HIDE DEF r
    <3> QED
      BY <2>2, <3>1 DEF ListedOK, KeyNotShown
  <2>5. ReadOK("create_item", r, items)
    BY DEF ReadOK
  <2> HIDE DEF r
  <2> QED
    BY <1>5, <2>1, <2>2, <2>3, <2>4, <2>5
<1>7. CASE found # {}
  <2>1. PICK i \in found :
           req' = [req EXCEPT ![t].listed = OpenItems,
                              ![t].item = i,
                              ![t].itemPriority = items[i].priority,
                              ![t].itemCount = items[i].count]
    BY <1>7 DEF Resolve
  <2> DEFINE r == [req[t] EXCEPT !.listed = OpenItems, !.item = i,
                                 !.itemPriority = items[i].priority,
                                 !.itemCount = items[i].count]
  <2>2. /\ i \in DOMAIN items /\ i \in Nat /\ i \in OpenItems
        /\ OpenItems \subseteq DOMAIN items /\ OpenItems \in SUBSET Nat
    BY <1>4, ResolvedAreOpen
  <2>3. items[i].priority \in Priorities /\ items[i].count \in Nat
    <3>1. items[i] \in Item
      BY <2>2 DEF IInv, TablesOK
    <3> QED
      BY <3>1 DEF Item
  <2>4. /\ r \in Request /\ r.item = i /\ r.itemPriority = items[i].priority
        /\ r.itemCount = items[i].count /\ r.listed = OpenItems
        /\ r.key = req[t].key
        /\ \A f \in {"observation", "policy", "key", "counted"} :
              r[f] = req[t][f]
    BY <1>3, <2>2, <2>3, IntakeAssumption DEF Request
  <2>5. req' = [req EXCEPT ![t] = r]
    BY <2>1 DEF IInv, ThreadsOK
  <2>6. pc' = [pc EXCEPT ![t] = "merge"]
    BY <1>7 DEF Resolve, Go
  <2>7. ReadOK("merge", r, items) /\ ListedOK("merge", r, items)
    <3>1. ASSUME items[i].key # req[t].key, ~(Cardinality(OpenItems) > ListLimit)
          PROVE  \A j \in OpenItems : items[j].key # req[t].key
      <4>1. Cardinality(OpenItems) <= ListLimit
        BY <2>2, <3>1, FiniteItems, IntakeAssumption DEF IInv
      <4> QED
        BY <3>1, <4>1, OtherKeyFound DEF IInv
    <3> HIDE DEF r
    <3> QED
      BY <2>2, <2>3, <2>4, <3>1 DEF ReadOK, ListedOK, KeyNotShown
  <2> HIDE DEF r
  <2> QED
    BY <1>5, <2>2, <2>4, <2>5, <2>6, <2>7
<1> QED
  BY <1>6, <1>7

(* A link adds one to the observations of its item and to no other's.      *)
Linked(lk, i) == {o \in DOMAIN lk : lk[o] = i}

LEMMA ItemCounts ==
    ASSUME TablesOK
    PROVE  \A j \in DOMAIN items : items[j] \in Item /\ items[j].count \in Nat
<1>1. \A j \in DOMAIN items : items[j] \in Item
  BY DEF TablesOK
<1> QED
  BY <1>1 DEF Item

LEMMA LinkCounts ==
    ASSUME TablesOK, NEW o \in DOMAIN observations \ DOMAIN links, NEW i
    PROVE  /\ Cardinality(Linked(Link(o, i), i)) = Cardinality(Linked(links, i)) + 1
           /\ Cardinality(Linked(links, i)) \in Nat
           /\ \A j : j # i => Linked(Link(o, i), j) = Linked(links, j)
<1>1. /\ DOMAIN Link(o, i) = DOMAIN links \cup {o} /\ Link(o, i)[o] = i
      /\ \A x \in DOMAIN links : Link(o, i)[x] = links[x]
  BY DEF Link
<1>2. Linked(Link(o, i), i) = Linked(links, i) \cup {o} /\ o \notin Linked(links, i)
  BY <1>1 DEF Linked
<1>3. \A j : j # i => Linked(Link(o, i), j) = Linked(links, j)
  BY <1>1 DEF Linked
<1>4. DOMAIN observations = 1..Len(observations) /\ Len(observations) \in Nat
  BY LenProperties DEF TablesOK
<1>5. IsFiniteSet(DOMAIN observations)
  BY <1>4, FS_Interval
<1>6. Linked(links, i) \in SUBSET DOMAIN observations
  BY DEF TablesOK, Linked
<1>7. IsFiniteSet(Linked(links, i))
  BY <1>5, <1>6, FS_Subset
<1> QED
  BY <1>2, <1>3, <1>7, FS_AddElement, FS_CardinalityType

(* A request links its observation to an item and is answered.             *)
LEMMA Placed ==
    ASSUME IInv, NEW t \in Threads, pc[t] \in {"merge", "create_item"},
           NEW a \in Answered, Answer(t, a),
           UNCHANGED <<observations, replays, policy, now, received, cut>>,
           items' \in Seq(Item), ItemsGrow(items, items'),
           NEW i \in DOMAIN items', links' = Link(req[t].observation, i)
    PROVE  TablesOK' /\ ThreadsOK' /\ LostOnlyIfCut'
<1> DEFINE o == req[t].observation
<1>1. pc[t] \in Steps /\ pc[t] \in Working /\ a \notin Working
  BY DEF Steps, Working, Answered
<1>2. o \in DOMAIN observations \ DOMAIN links
  BY <1>1, ThreadFacts DEF ThreadOK, OwnsOK
<1>3. /\ DOMAIN links' = DOMAIN links \cup {o} /\ links'[o] = i
      /\ \A x \in DOMAIN links : links'[x] = links[x]
  <2>1. links' = [x \in DOMAIN links \cup {o} |-> IF x = o THEN i ELSE links[x]]
    BY DEF Link
  <2> HIDE DEF o
  <2> QED
    BY <1>2, <2>1
<1>4. TablesOK'
  BY <1>2, <1>3 DEF IInv, TablesOK, ItemsGrow
<1>5. Grows
  BY DEF Grows, ObservationsGrow, IInv, TablesOK
<1>6. \A u \in Threads \ {t} : pc[u] \in Working =>
        /\ req[u].observation # o
        /\ req[u].observation \notin DOMAIN links
  BY <1>1 DEF IInv, ThreadsOK, ThreadOK, OwnsOK
<1>7. pc' = [pc EXCEPT ![t] = a] /\ req' = [req EXCEPT ![t] = NoRequest]
  BY DEF Answer, Go
<1>8. ThreadsOK'
  <2>1. \A u \in Threads \ {t} : pc[u] \in Working =>
          /\ req[u].observation \notin DOMAIN links'
          /\ a \in Working => req[u].observation # NoRequest.observation
    BY <1>1, <1>3, <1>6
  <2>2. ThreadOK(a, NoRequest, observations', items', links') /\ ThreadsOK
    BY AnsweredOK DEF IInv
  <2> QED
    BY <1>5, <1>7, <2>1, <2>2, ThreadsStep
<1>9. LostOnlyIfCut'
  <2>1. SUFFICES ASSUME NEW x \in DOMAIN observations, NeedsWork(x),
                        x \notin DOMAIN links' \cup cut
                 PROVE  \E u \in Threads : pc'[u] \in Placing
                                           /\ req'[u].observation = x
    BY DEF LostOnlyIfCut, NeedsWork, Gated, Placing
  <2>2. PICK u \in Threads : pc[u] \in Placing /\ req[u].observation = x
    BY <1>3, <2>1 DEF IInv, LostOnlyIfCut, Placing
  <2>3. u # t
    BY <1>3, <2>1, <2>2
  <2> QED
    BY <1>7, <2>2, <2>3 DEF IInv, ThreadsOK
<1> QED
  BY <1>4, <1>8, <1>9

LEMMA MergedRow ==
    ASSUME NEW it \in Item, NEW top \in Priorities, NEW stamp \in Nat
    PROVE  LET row == [it EXCEPT !.priority = top, !.count = @ + 1,
                                 !.updated = stamp]
           IN  /\ row \in Item /\ row.key = it.key
               /\ row.count = it.count + 1 /\ it.count \in Nat
<1>1. it.count \in Nat /\ it.count + 1 \in Nat
  BY DEF Item
<1>2. PICK c \in Nat : c = it.count + 1
  BY <1>1
<1> DEFINE row == [it EXCEPT !.priority = top, !.count = c, !.updated = stamp]
<1>3. row \in Item /\ row.key = it.key /\ row.count = c
  BY DEF Item
<1> QED
  BY <1>1, <1>2, <1>3

LEMMA MergeStep ==
    ASSUME IInv, NEW t \in Threads, Merge(t)
    PROVE  IInv'
<1> DEFINE r == req[t]
           i == r.item
           p == Capped(r.priority, r.policy)
           top == IF p > r.itemPriority THEN p ELSE r.itemPriority
           row == [items[i] EXCEPT !.priority = top, !.count = @ + 1,
                                   !.updated = r.stamp]
<1>1. pc[t] = "merge" /\ pc[t] \in Steps
  BY DEF Merge, Steps
<1>2. /\ r \in Request /\ i \in DOMAIN items /\ r.itemPriority \in Priorities
      /\ r.observation \in DOMAIN observations \ DOMAIN links
  BY <1>1, ThreadFacts DEF ThreadOK, ReadOK, OwnsOK, Working
<1>3. top \in Priorities /\ r.stamp \in Nat
  BY <1>2 DEF Request, PolicyFields, Capped
<1>4. items[i] \in Item /\ items \in Seq(Item)
  BY <1>2 DEF IInv, TablesOK
<1>5. /\ row \in Item /\ row.key = items[i].key
      /\ row.count = items[i].count + 1 /\ items[i].count \in Nat
  <2> HIDE DEF top
  <2> QED
    BY <1>3, <1>4, MergedRow
<1>6. items' = [items EXCEPT ![i] = row]
  BY <1>1 DEF Merge
<1>7. /\ items' \in Seq(Item) /\ DOMAIN items' = DOMAIN items
      /\ \A j \in DOMAIN items : items'[j] = IF j = i THEN row ELSE items[j]
  <2> HIDE DEF row
  <2> QED
    BY <1>2, <1>4, <1>5, <1>6, ExceptSeq, LenProperties
<1>8. ItemsGrow(items, items')
  <2>1. \A j \in DOMAIN items : items[j].count \in Nat
    BY ItemCounts DEF IInv
  <2> HIDE DEF row
  <2> QED
    BY <1>5, <1>7, <2>1 DEF ItemsGrow
<1>9. /\ Answer(t, "merged") /\ "merged" \in Answered
      /\ links' = Link(r.observation, i)
      /\ UNCHANGED <<observations, replays, policy, now, received, cut>>
  BY DEF Merge, Answered
<1>10. TablesOK' /\ ThreadsOK' /\ LostOnlyIfCut'
  BY <1>1, <1>2, <1>7, <1>8, <1>9, Placed
<1>11. CountMatchesLinks'
  <2>1. \A j \in DOMAIN items : items[j].count = Cardinality(Linked(links, j))
    BY DEF IInv, CountMatchesLinks, Linked
  <2>2. \A j \in DOMAIN items : items'[j].count = Cardinality(Linked(links', j))
    <3> HIDE DEF row, r, i
    <3> QED
      BY <1>2, <1>5, <1>7, <1>9, <2>1, LinkCounts DEF IInv
  <2> QED
    BY <1>7, <2>2 DEF CountMatchesLinks, Linked
<1> QED
  BY <1>10, <1>11 DEF IInv

LEMMA CreateItemStep ==
    ASSUME IInv, NEW t \in Threads, CreateItem(t)
    PROVE  IInv'
<1>0. PICK i : i = Len(items) + 1
  OBVIOUS
<1> DEFINE r == req[t]
           p == Capped(r.priority, r.policy)
           row == [key |-> r.key, status |-> "open", count |-> 1,
                   priority |-> p, updated |-> r.stamp]
<1>1. pc[t] = "create_item" /\ pc[t] \in Steps
  BY DEF CreateItem, Steps
<1>2. /\ r \in Request /\ r.key \in Keys
      /\ r.observation \in DOMAIN observations \ DOMAIN links
  BY <1>1, ThreadFacts DEF ThreadOK, OwnsOK, Working
<1>3. row \in Item /\ row.count = 1
  <2>1. p \in Priorities /\ r.stamp \in Nat
    BY <1>2 DEF Request, PolicyFields, Capped
  <2> HIDE DEF p
  <2> QED
    BY <1>2, <2>1 DEF Item, ItemStatus
<1>4. items \in Seq(Item) /\ items' = Append(items, row)
  BY DEF IInv, TablesOK, CreateItem
<1>5. /\ items' \in Seq(Item) /\ DOMAIN items' = DOMAIN items \cup {i}
      /\ i \notin DOMAIN items /\ items'[i] = row
      /\ \A j \in DOMAIN items : items'[j] = items[j]
  <2> HIDE DEF row
  <2>1. /\ items' \in Seq(Item) /\ Len(items') = Len(items) + 1
        /\ \A j \in 1..Len(items) : items'[j] = items[j]
        /\ items'[Len(items) + 1] = row
    BY <1>3, <1>4, AppendProperties
  <2> QED
    BY <1>0, <1>4, <2>1, LenProperties
<1>6. ItemsGrow(items, items')
  <2>1. \A j \in DOMAIN items : items[j].count \in Nat
    BY ItemCounts DEF IInv
  <2> HIDE DEF row
  <2> QED
    BY <1>5, <2>1 DEF ItemsGrow
<1>7. /\ Answer(t, "created") /\ "created" \in Answered
      /\ links' = Link(r.observation, i)
      /\ UNCHANGED <<observations, replays, policy, now, received, cut>>
  BY <1>0 DEF CreateItem, Answered
<1>8. TablesOK' /\ ThreadsOK' /\ LostOnlyIfCut'
  BY <1>1, <1>5, <1>6, <1>7, Placed
<1>9. CountMatchesLinks'
  <2>1. \A j \in DOMAIN items : items[j].count = Cardinality(Linked(links, j))
    BY DEF IInv, CountMatchesLinks, Linked
  <2>2. Linked(links, i) = {}
    BY <1>5 DEF IInv, TablesOK, Linked
  <2>3. /\ Cardinality(Linked(links', i)) = 1
        /\ \A j : j # i => Linked(links', j) = Linked(links, j)
    <3>1. TablesOK
      BY DEF IInv
    <3>2. /\ Cardinality(Linked(links', i)) = Cardinality(Linked(links, i)) + 1
          /\ \A j : j # i => Linked(links', j) = Linked(links, j)
      BY <1>2, <1>7, <3>1, LinkCounts
    <3> QED
      BY <2>2, <3>2, FS_EmptySet
  <2>4. \A j \in DOMAIN items' : items'[j].count = Cardinality(Linked(links', j))
    <3> HIDE DEF row
    <3> QED
      BY <1>3, <1>5, <2>1, <2>3
  <2> QED
    BY <2>4 DEF CountMatchesLinks, Linked
<1> QED
  BY <1>8, <1>9 DEF IInv

-----------------------------------------------------------------------------
(* The surroundings.                                                       *)
LEMMA ThreadsStand ==
    ASSUME ThreadsOK, Grows, UNCHANGED <<pc, req, links>>
    PROVE  ThreadsOK'
<1>1. ASSUME NEW t \in Threads
      PROVE  ThreadOK(pc[t], req[t], observations', items', links')
  <2>1. ThreadOK(pc[t], req[t], observations, items, links)
    BY DEF ThreadsOK
  <2>2. pc[t] \in Working => req[t].observation \notin DOMAIN links'
    BY <2>1 DEF ThreadOK, OwnsOK
  <2> QED
    BY <2>1, <2>2, ThreadStaysOK DEF Grows
<1> QED
  BY <1>1 DEF ThreadsOK

LEMMA MoveStep ==
    ASSUME IInv, NEW i \in DOMAIN items, NEW s \in ItemStatus, Move(i, s)
    PROVE  /\ IInv'
           /\ \A j \in DOMAIN items : items'[j].priority = items[j].priority
<1> DEFINE row == [items[i] EXCEPT !.status = s, !.updated = now]
<1>1. \A j \in DOMAIN items : items[j] \in Item /\ items[j].count \in Nat
  BY ItemCounts DEF IInv
<1>2. items \in Seq(Item) /\ now \in Nat
  BY DEF IInv, TablesOK
<1>3. /\ row \in Item /\ row.key = items[i].key /\ row.count = items[i].count
      /\ row.priority = items[i].priority
  BY <1>1, <1>2 DEF Item
<1>4. items' = [items EXCEPT ![i] = row]
  BY DEF Move
<1>5. /\ items' \in Seq(Item) /\ DOMAIN items' = DOMAIN items
      /\ \A j \in DOMAIN items : items'[j] = IF j = i THEN row ELSE items[j]
  <2> HIDE DEF row
  <2> QED
    BY <1>2, <1>3, <1>4, ExceptSeq, LenProperties
<1>6. \A j \in DOMAIN items : /\ items'[j].key = items[j].key
                              /\ items'[j].count = items[j].count
                              /\ items'[j].priority = items[j].priority
  <2> HIDE DEF row
  <2> QED
    BY <1>3, <1>5
<1>7. Grows
  BY <1>1, <1>2, <1>5, <1>6 DEF Grows, ObservationsGrow, ItemsGrow, Move
<1>8. UNCHANGED <<observations, links, replays, policy, pc, req, received, cut>>
      /\ now' \in Nat
  BY <1>2 DEF Move
<1>9. TablesOK'
  BY <1>5, <1>8 DEF IInv, TablesOK
<1>10. ThreadsOK'
  BY <1>7, <1>8, ThreadsStand DEF IInv
<1>11. CountMatchesLinks'
  BY <1>5, <1>6, <1>8 DEF IInv, CountMatchesLinks
<1>12. LostOnlyIfCut'
  BY <1>8 DEF IInv, LostOnlyIfCut, NeedsWork, Gated
<1> QED
  BY <1>6, <1>9, <1>10, <1>11, <1>12 DEF IInv

LEMMA PutPolicyStep ==
    ASSUME IInv, NEW p \in Policies, PutPolicy(p)
    PROVE  IInv'
<1>1. TablesOK'
  BY IntakeAssumption DEF IInv, TablesOK, PutPolicy
<1>2. ThreadsOK'
  BY UnchangedGrows, ThreadsStand DEF IInv, PutPolicy
<1>3. CountMatchesLinks' /\ LostOnlyIfCut'
  BY DEF IInv, PutPolicy, CountMatchesLinks, LostOnlyIfCut, NeedsWork,
         Gated
<1> QED
  BY <1>1, <1>2, <1>3 DEF IInv

LEMMA CrashStep ==
    ASSUME IInv, Crash
    PROVE  IInv'
<1>1. TablesOK'
  <2>1. \A t \in Threads : InHand(t) \subseteq DOMAIN observations
    BY DEF InHand
  <2>2. cut' \subseteq DOMAIN observations
    BY <2>1 DEF IInv, TablesOK, Crash
  <2>3. UNCHANGED <<observations, items, links, replays, now, received>>
        /\ policy' = DefaultPolicy
    BY DEF Crash
  <2> QED
    BY <2>2, <2>3, IntakeAssumption DEF IInv, TablesOK
<1>2. ThreadsOK'
  <2>1. "idle" \in Answered /\ "idle" \notin Working
    BY DEF Answered, Working
  <2>2. /\ pc' = [t \in Threads |-> "idle"] /\ req' = [t \in Threads |-> NoRequest]
        /\ UNCHANGED <<observations, items, links>>
    BY DEF Crash
  <2>3. ThreadOK("idle", NoRequest, observations', items', links')
    BY <2>1, AnsweredOK
  <2> QED
    BY <2>1, <2>2, <2>3 DEF ThreadsOK
<1>3. CountMatchesLinks'
  BY DEF IInv, Crash, CountMatchesLinks
<1>4. LostOnlyIfCut'
  <2>1. SUFFICES ASSUME NEW o \in DOMAIN observations, NeedsWork(o),
                        o \notin DOMAIN links \cup cut
                 PROVE  o \in cut'
    BY DEF LostOnlyIfCut, NeedsWork, Gated, Crash
  <2>2. PICK t \in Threads : pc[t] \in Placing /\ req[t].observation = o
    BY <2>1 DEF IInv, LostOnlyIfCut, Placing
  <2>3. o \in InHand(t)
    BY <2>1, <2>2 DEF InHand, Owns, Placing, Steps
  <2> QED
    BY <2>1, <2>3 DEF Crash
<1> QED
  BY <1>1, <1>2, <1>3, <1>4 DEF IInv

(* A request whose call raises is like one that a crash has ended; the     *)
(* others stand where they stood.                                          *)
LEMMA CallFailsStep ==
    ASSUME IInv, NEW t \in Threads, CallFails(t)
    PROVE  IInv'
<1>1. /\ UNCHANGED <<observations, items, links>>
      /\ pc' = [pc EXCEPT ![t] = "failed"] /\ req' = [req EXCEPT ![t] = NoRequest]
      /\ cut' = cut \cup InHand(t) /\ pc[t] \in Steps
  BY DEF CallFails, Answer, Go
<1>2. TablesOK'
  BY DEF IInv, TablesOK, CallFails, InHand
<1>3. "failed" \in Answered /\ "failed" \notin Working
  BY DEF Answered, Working
<1>4. ThreadsOK'
  <2>1. ThreadOK("failed", NoRequest, observations', items', links')
    BY <1>3, AnsweredOK
  <2>2. \A u \in Threads \ {t} : pc[u] \in Working =>
           /\ req[u].observation \notin DOMAIN links'
           /\ "failed" \in Working => req[u].observation # NoRequest.observation
    BY <1>1, <1>3 DEF IInv, ThreadsOK, ThreadOK, OwnsOK
  <2>3. Grows
    BY <1>1, UnchangedGrows DEF IInv
  <2> QED
    BY <1>1, <2>1, <2>2, <2>3, ThreadsStep DEF IInv
<1>5. CountMatchesLinks'
  BY <1>1 DEF IInv, CountMatchesLinks
<1>6. LostOnlyIfCut'
  <2>1. SUFFICES ASSUME NEW o \in DOMAIN observations, NeedsWork(o),
                        o \notin DOMAIN links \cup cut'
                 PROVE  \E u \in Threads : pc'[u] \in Placing
                                           /\ req'[u].observation = o
    BY <1>1 DEF LostOnlyIfCut, NeedsWork, Gated, Placing
  <2>2. PICK u \in Threads : pc[u] \in Placing /\ req[u].observation = o
    BY <1>1, <2>1 DEF IInv, LostOnlyIfCut, Placing
  <2>3. u # t
    BY <1>1, <2>1, <2>2 DEF InHand, Owns, Placing
  <2> QED
    BY <1>1, <2>2, <2>3 DEF IInv, ThreadsOK
<1> QED
  BY <1>2, <1>4, <1>5, <1>6 DEF IInv

LEMMA InvInit == Init => IInv
<1>1. SUFFICES ASSUME Init PROVE IInv
  OBVIOUS
<1>2. TablesOK
  <2>1. /\ observations = <<>> /\ items = <<>> /\ links = <<>> /\ replays = <<>>
        /\ policy \in PolicyFields /\ now = 0 /\ received = 0 /\ cut = {}
    BY <1>1, IntakeAssumption DEF Init
  <2> QED
    BY <2>1, EmptySeq DEF TablesOK
<1>3. ThreadsOK
  <2>1. "idle" \in Answered /\ "idle" \notin Working
    BY DEF Answered, Working
  <2>2. /\ pc = [t \in Threads |-> "idle"] /\ req = [t \in Threads |-> NoRequest]
        /\ ThreadOK("idle", NoRequest, observations, items, links)
    BY <1>1, <2>1, AnsweredOK DEF Init
  <2> QED
    BY <2>1, <2>2 DEF ThreadsOK
<1>4. DOMAIN items = {} /\ DOMAIN observations = {}
  BY <1>1 DEF Init
<1> QED
  BY <1>2, <1>3, <1>4 DEF IInv, CountMatchesLinks, LostOnlyIfCut

LEMMA InvNext == IInv /\ [Next]_vars => IInv'
<1>1. SUFFICES ASSUME IInv, [Next]_vars PROVE IInv'
  OBVIOUS
<1>2. CASE UNCHANGED vars
  <2>1. ThreadsOK'
    BY <1>1, <1>2, UnchangedGrows, ThreadsStand DEF IInv, vars
  <2> QED
    BY <1>1, <1>2, <2>1 DEF IInv, vars, TablesOK, CountMatchesLinks,
                            LostOnlyIfCut, NeedsWork, Gated
<1>3. ASSUME NEW t \in Threads, Ingest(t)
      PROVE  IInv'
  BY <1>1, <1>3, ReceiveStep, LookupStep, ReplayItemStep, RecordReplayStep,
     CreateObservationStep, CountOpenStep, ByKeyStep, ResolveStep, MergeStep,
     CreateItemStep, CallFailsStep DEF Ingest
<1> QED
  BY <1>1, <1>2, <1>3, MoveStep, PutPolicyStep, CrashStep DEF Next

LEMMA Invariance == Spec => []IInv
<1>1. Init => IInv
  BY InvInit
<1>2. IInv /\ [Next]_vars => IInv'
  BY InvNext
<1> QED
  BY <1>1, <1>2, PTL DEF Spec

-----------------------------------------------------------------------------
(* The tables, the requests and their locals keep their types.             *)
THEOREM TypeCorrect == Spec => []TypeOK
<1>1. IInv => TypeOK
  BY TypeOKFromInv DEF IInv
<1> QED
  BY <1>1, Invariance, PTL

(* An item's observation_count is the number of links to it, although      *)
(* merges of several requests overlap (store.py 300-467).                  *)
THEOREM CountsAreLinks == Spec => []CountMatchesLinks
<1>1. IInv => CountMatchesLinks
  BY DEF IInv
<1> QED
  BY <1>1, Invariance, PTL

(* An actionable observation gets its work item whatever other requests,   *)
(* administrators and the engine do meanwhile: only a crash, or a store    *)
(* call of the request itself that raises, takes it away (ingest,          *)
(* service.py 56-143; store.py 377-379, 407-409).                          *)
THEOREM OnlyCutsLoseWork == Spec => []LostOnlyIfCut
<1>1. IInv => LostOnlyIfCut
  BY DEF IInv
<1> QED
  BY <1>1, Invariance, PTL

(* Only a merge that read its item before another one lowers a priority    *)
(* (merge_work_item, store.py 381).                                        *)
THEOREM OnlyStaleMergesLower == Spec => PriorityDropsOnlyIfStale
<1> DEFINE Drops(i) == items'[i].priority < items[i].priority
           Stale(i) == \E t \in Threads : /\ pc[t] = "merge" /\ req[t].item = i
                                          /\ req[t].itemCount < items[i].count
<1>1. ASSUME IInv, Next, NEW i \in DOMAIN items, Drops(i)
      PROVE  Stale(i)
  <2>1. items[i] \in Item /\ items[i].count \in Nat /\ items[i].priority \in Nat
    <3>1. items[i] \in Item /\ items[i].count \in Nat
      BY <1>1, ItemCounts DEF IInv
    <3> QED
      BY <3>1, IntakeAssumption DEF Item
  <2>2. items'[i].priority # items[i].priority
    BY <1>1, <2>1
  <2>3. \A j \in DOMAIN items, s \in ItemStatus : ~Move(j, s)
    BY <1>1, <2>2, MoveStep
  <2>4. ASSUME NEW t \in Threads, CreateItem(t)
        PROVE  FALSE
    <3>1. items \in Seq(Item) /\ i \in 1..Len(items)
      BY <1>1, LenProperties DEF IInv, TablesOK
    <3>2. ASSUME NEW row, items' = Append(items, row)
          PROVE  items'[i] = items[i]
      BY <3>1, <3>2
    <3> QED
      BY <2>2, <2>4, <3>2 DEF CreateItem
  <2>5. PICK t \in Threads : Merge(t)
    BY <1>1, <2>2, <2>3, <2>4 DEF Next, Ingest, Receive, Lookup, ReplayItem,
       RecordReplay, CreateObservation, CountOpen, ByKey, Resolve, CallFails,
       PutPolicy, Crash
  <2> DEFINE r == req[t]
             p == Capped(r.priority, r.policy)
             top == IF p > r.itemPriority THEN p ELSE r.itemPriority
  <2>6. /\ pc[t] = "merge" /\ r \in Request /\ r.item \in DOMAIN items
        /\ r.itemCount <= items[r.item].count
        /\ r.itemCount = items[r.item].count =>
              r.itemPriority = items[r.item].priority
    <3>1. pc[t] = "merge" /\ pc[t] \in Steps
      BY <2>5 DEF Merge, Steps
    <3> QED
      BY <1>1, <3>1, ThreadFacts DEF ThreadOK, ReadOK
  <2>7. /\ r.itemCount \in Nat /\ r.itemPriority \in Nat /\ p \in Nat
    BY <2>6, IntakeAssumption DEF Request, PolicyFields, Capped
  <2>8. items' = [items EXCEPT ![r.item] =
                    [items[r.item] EXCEPT !.priority = top, !.count = @ + 1,
                                          !.updated = r.stamp]]
    BY <2>5 DEF Merge
  <2>9. i = r.item /\ items'[i].priority = top
    <3>1. i \in DOMAIN items
      BY <1>1
    <3> HIDE DEF top, r
    <3>2. i = r.item
      BY <2>2, <2>6, <2>8, <3>1
    <3>3. items'[i] = [items[i] EXCEPT !.priority = top, !.count = @ + 1,
                                       !.updated = r.stamp]
      BY <2>6, <2>8, <3>1, <3>2
    <3> QED
      BY <2>1, <3>2, <3>3 DEF Item
  <2>10. r.itemCount # items[i].count
    <3> HIDE DEF p, r
    <3> QED
      BY <1>1, <2>1, <2>6, <2>7, <2>9
  <2> QED
    BY <2>1, <2>6, <2>7, <2>9, <2>10
<1>2. IInv /\ [Next]_vars =>
        [\A i \in DOMAIN items : Drops(i) => Stale(i)]_vars
  BY <1>1
<1>3. Spec => [][\A i \in DOMAIN items : Drops(i) => Stale(i)]_vars
  BY <1>2, Invariance, PTL DEF Spec
<1> QED
  BY <1>3 DEF PriorityDropsOnlyIfStale

(* However many requests race, an observation is merged only into an item  *)
(* that was open when the request looked, and under another key only when  *)
(* no open item had its own (service.py 146-163, store.py 393).            *)
THEOREM OnlyRacesMisplace == Spec => MergesWhereItBelongs
<1> DEFINE BelongsThere == \A t \in Mergers : LET r == req[t] IN
                        /\ r.item \in r.listed
                        /\ \/ items[r.item].key = r.key
                           \/ Cardinality(r.listed) > ListLimit
                           \/ \A i \in r.listed : items[i].key # r.key
<1>1. IInv => BelongsThere
  BY DEF Mergers, IInv, ThreadsOK, ThreadOK, ListedOK, KeyNotShown
<1>2. Spec => [][BelongsThere]_vars
  BY <1>1, Invariance, PTL DEF Spec
<1> QED
  BY <1>2 DEF MergesWhereItBelongs

(* However many requests race, a second open item for a key needs one that *)
(* was created or reopened behind the creator's back, or more open items   *)
(* than _resolve looks at (service.py 108, store.py 420).                  *)
THEOREM OnlyRacesDouble == Spec => SecondItemOnlyByRace
<1> DEFINE Unseen == \A t \in Creators : LET r == req[t] IN
                        \/ Cardinality(r.listed) > ListLimit
                        \/ \A i \in OpenItems \cap r.listed : items[i].key # r.key
<1>1. IInv => Unseen
  <2>1. SUFFICES ASSUME IInv, NEW t \in Creators
                 PROVE  \/ Cardinality(req[t].listed) > ListLimit
                        \/ \A i \in req[t].listed : items[i].key # req[t].key
    OBVIOUS
  <2> QED
    BY <2>1 DEF Creators, IInv, ThreadsOK, ThreadOK, ListedOK, KeyNotShown
<1>2. Spec => [][Unseen]_vars
  BY <1>1, Invariance, PTL DEF Spec
<1> QED
  BY <1>2 DEF SecondItemOnlyByRace

(* However many requests race, the quota of open items is exceeded only by *)
(* items that were created or reopened after a creator had counted, or for *)
(* a key that some item has already (service.py 103-104).                  *)
THEOREM OnlyRacesExceed == Spec => QuotaExceededOnlyByRace
<1> DEFINE Room == \A t \in Creators : LET r == req[t] IN
              r.policy.quota > 0 =>
                 \/ Cardinality(OpenItems \cap r.counted) < r.policy.quota
                 \/ \E i \in DOMAIN items : items[i].key = r.key
<1>1. IInv => Room
  <2>1. SUFFICES ASSUME IInv, NEW t \in Creators, req[t].policy.quota > 0,
                        ~ \E i \in DOMAIN items : items[i].key = req[t].key
                 PROVE  Cardinality(OpenItems \cap req[t].counted)
                           < req[t].policy.quota
    OBVIOUS
  <2>2. t \in Threads /\ pc[t] = "create_item" /\ pc[t] \in Steps
    BY <2>1 DEF Creators, Steps
  <2>3. /\ req[t] \in Request /\ req[t].counted \in SUBSET DOMAIN items
        /\ Cardinality(req[t].counted) < req[t].policy.quota
    BY <2>1, <2>2, ThreadFacts DEF ThreadOK, QuotaOK, Placing
  <2>4. /\ IsFiniteSet(req[t].counted) /\ Cardinality(req[t].counted) \in Nat
        /\ OpenItems \cap req[t].counted \in SUBSET req[t].counted
        /\ Cardinality(OpenItems \cap req[t].counted) \in Nat
    BY <2>1, <2>3, FiniteItems DEF IInv
  <2>5. Cardinality(OpenItems \cap req[t].counted) <= Cardinality(req[t].counted)
    BY <2>4, FS_Subset
  <2>6. req[t].policy.quota \in Nat
    BY <2>3 DEF Request, PolicyFields
  <2> QED
    BY <2>3, <2>4, <2>5, <2>6
<1>2. Spec => [][Room]_vars
  BY <1>1, Invariance, PTL DEF Spec
<1> QED
  BY <1>2 DEF QuotaExceededOnlyByRace
=============================================================================
