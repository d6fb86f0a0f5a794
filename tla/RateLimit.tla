------------------------------ MODULE RateLimit ------------------------------
(***************************************************************************)
(* The rate limiter (RateLimiter in api.py) with its three users: the      *)
(* middleware that admits a request by its client, the evaluator of        *)
(* autonomy decisions with a budget per authentication method, and the     *)
(* endpoints /v1/rate-limit.                                               *)
(*                                                                         *)
(* is_allowed runs on the event loop and awaits nothing: it is one action. *)
(* A usage query runs on a thread: it filters the list of a key and then   *)
(* assigns what it has filtered, in place of what the list is by then.     *)
(*                                                                         *)
(* A list of hits is filtered by time and counted, nothing else: here it   *)
(* is the set of its hits.  Hits of one key at one time are numbered, so   *)
(* that each is counted.                                                   *)
(***************************************************************************)
EXTENDS Integers, FiniteSets

CONSTANTS Clients,          \* keys of the middleware: hosts
          Methods,          \* keys of the evaluator: "autonomy:<method>"
          Askers,           \* threads that serve GET /v1/rate-limit
          DefaultLimit,
          EndpointLimit,    \* of the evaluator's endpoint
          KeyLimits,        \* limits an administrator may set for a key
          Window,           \* the 60 seconds
          MaxClock,         \* bounds of the model: the clock, requests on
          MaxEvaluating,    \*   their way to the evaluator, hits of a key
          MaxHits           \*   within a window

LimiterKeys == Clients \cup Methods

ASSUME RateAssumption ==
    /\ Clients \cap Methods = {}
    /\ {DefaultLimit, EndpointLimit, Window} \cup KeyLimits \subseteq Nat \ {0}
    /\ {MaxClock, MaxEvaluating, MaxHits} \subseteq Nat /\ Window <= MaxClock

VARIABLES clock,
          hits,             \* RateLimiter.requests
          endpointHits,     \* _endpoint_requests, of the evaluator's endpoint
          keyLimit,         \* get_limit of every key
          evaluating,       \* requests on their way to the evaluator
          asking,           \* the query of each thread: its key and list
          admitted,         \* history: when each key was allowed, by is_allowed
          clobbered         \* history: when a query last wrote a list that
                            \*   missed a hit

rateVars == <<clock, hits, endpointHits, keyLimit, evaluating, asking,
              admitted, clobbered>>

NoQuery == [key |-> "none", list |-> {}]

(* The list of a key whose requests are at most MaxHits within a window.   *)
Lists == SUBSET ((1..clock) \X (0..MaxHits))

RateTypeOK ==
    /\ clock \in Window..MaxClock
    /\ hits \in [LimiterKeys -> Lists] /\ endpointHits \in [Methods -> Lists]
    /\ keyLimit \in [LimiterKeys -> KeyLimits \cup {DefaultLimit}]
    /\ evaluating \in 0..MaxEvaluating
    /\ asking \in [Askers -> [key : LimiterKeys \cup {"none"}, list : Lists]]
    /\ admitted \in [LimiterKeys -> Lists]
    /\ clobbered \in [LimiterKeys -> 0..clock]

RateInit == /\ clock = Window
            /\ hits = [k \in LimiterKeys |-> {}]
            /\ endpointHits = [m \in Methods |-> {}]
            /\ keyLimit = [k \in LimiterKeys |-> DefaultLimit]
            /\ evaluating = 0
            /\ asking = [t \in Askers |-> NoQuery]
            /\ admitted = [k \in LimiterKeys |-> {}]
            /\ clobbered = [k \in LimiterKeys |-> 0]

-----------------------------------------------------------------------------
Recent(list) == {hit \in list : hit[1] > clock - Window}

(* time.time(), with the number of the hits k had at that time before.     *)
Now(k) == <<clock, Cardinality({hit \in admitted[k] : hit[1] = clock})>>

(* What is_allowed does to the list of a key.                              *)
Allow(k) == /\ hits' = [hits EXCEPT ![k] = Recent(@) \cup {Now(k)}]
            /\ admitted' = [admitted EXCEPT ![k] = Recent(@) \cup {Now(k)}]

Refuse(k) == /\ hits' = [hits EXCEPT ![k] = Recent(@)]
             /\ UNCHANGED admitted

HasRoom(k) == Cardinality(Recent(hits[k])) < keyLimit[k]

Bounded(k) == Cardinality(Recent(admitted[k])) < MaxHits

(* The middleware; of what it admits, the evaluator's requests go on.      *)
Admit(c) ==
    /\ Bounded(c)
    /\ \/ /\ HasRoom(c) /\ Allow(c)
          /\ evaluating' \in {evaluating, evaluating + 1} \cap 0..MaxEvaluating
       \/ ~HasRoom(c) /\ Refuse(c) /\ UNCHANGED evaluating
    /\ UNCHANGED <<clock, endpointHits, keyLimit, asking, clobbered>>

(* autonomy_evaluate, once it knows the method of authentication           *)
BudgetCounted(m) ==       \* mutant: the endpoint's own limit is not looked at
    /\ Bounded(m)
    /\ evaluating > 0 /\ evaluating' = evaluating - 1
    /\ IF HasRoom(m) THEN Allow(m) ELSE Refuse(m)
    /\ UNCHANGED <<clock, endpointHits, keyLimit, asking, clobbered>>

Budget(m) ==
    /\ Bounded(m)
    /\ evaluating > 0 /\ evaluating' = evaluating - 1
    /\ LET spent == Recent(endpointHits[m]) IN
         \/ /\ ~HasRoom(m)
            /\ Refuse(m) /\ UNCHANGED endpointHits
         \/ /\ HasRoom(m) /\ Cardinality(spent) >= EndpointLimit
            /\ Refuse(m) /\ endpointHits' = [endpointHits EXCEPT ![m] = spent]
         \/ /\ HasRoom(m) /\ Cardinality(spent) < EndpointLimit
            /\ Allow(m)
            /\ endpointHits' = [endpointHits EXCEPT ![m] = spent \cup {Now(m)}]
    /\ UNCHANGED <<clock, keyLimit, asking, clobbered>>

SetLimit(k, limit) ==
    /\ keyLimit' = [keyLimit EXCEPT ![k] = limit]
    /\ UNCHANGED <<clock, hits, endpointHits, evaluating, asking, admitted,
                   clobbered>>

(* get_usage: the list is filtered, and then assigned                      *)
QueryFilters(t, k) ==
    /\ asking[t] = NoQuery
    /\ asking' = [asking EXCEPT ![t] = [key |-> k, list |-> Recent(hits[k])]]
    /\ UNCHANGED <<clock, hits, endpointHits, keyLimit, evaluating, admitted,
                   clobbered>>

QueryAssigns(t) ==
    /\ asking[t] # NoQuery
    /\ LET q == asking[t] IN
         /\ hits' = [hits EXCEPT ![q.key] = q.list]
         /\ clobbered' = [clobbered EXCEPT ![q.key] =
                            IF Recent(q.list) = Recent(admitted[q.key]) THEN @
                            ELSE clock]
    /\ asking' = [asking EXCEPT ![t] = NoQuery]
    /\ UNCHANGED <<clock, endpointHits, keyLimit, evaluating, admitted>>

Tick == /\ clock < MaxClock
        /\ clock' = clock + 1
        /\ UNCHANGED <<hits, endpointHits, keyLimit, evaluating, asking,
                       admitted, clobbered>>

RateNext == \/ \E c \in Clients : Admit(c)
            \/ \E m \in Methods : Budget(m)
            \/ \E k \in LimiterKeys, l \in KeyLimits : SetLimit(k, l)
            \/ \E t \in Askers : \/ \E k \in LimiterKeys : QueryFilters(t, k)
                                 \/ QueryAssigns(t)
            \/ Tick

RateSpec == RateInit /\ [][RateNext]_rateVars

-----------------------------------------------------------------------------
(* A key is admitted beyond its limit only if a usage query has, within    *)
(* the window, written back a list that missed a hit.  The budget of the   *)
(* evaluator is kept even then: no query rewrites its list.                *)
OverLimitOnlyByQuery ==
    [][\A k \in LimiterKeys :
         LET before == Cardinality(Recent(admitted[k])) IN
         admitted'[k] # admitted[k] =>
            /\ before < keyLimit[k] \/ clobbered[k] > clock - Window
            /\ k \in Methods => before < EndpointLimit]_rateVars
=============================================================================
