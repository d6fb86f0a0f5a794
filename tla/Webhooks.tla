------------------------------ MODULE Webhooks ------------------------------
(***************************************************************************)
(* Outbound webhooks (api.py): the endpoints that register and delete      *)
(* them, _fire_webhooks, which an endpoint calls after it has changed      *)
(* something, and the thread that delivers.                                *)
(*                                                                         *)
(* The registry is a dict in app.state, created by the first registration. *)
(* Endpoints run on the server's threads and use it without a lock; one    *)
(* action is one access to it.  _fire_webhooks iterates the dict, and the  *)
(* iterator raises when the dict has changed its size meanwhile: a request *)
(* that has done its work is then answered 500.                            *)
(***************************************************************************)
EXTENDS Integers, Sequences, FiniteSets

CONSTANTS HookIds,
          Interested,       \* those that name the event among their events
          Keepers,          \* threads that register and delete
          Firers,           \* threads whose request fires an event
          MaxEvents,        \* bound of the model: events
          MaxAttempts       \* the three attempts of a delivery

ASSUME WebhooksAssumption ==
    Interested \subseteq HookIds /\ MaxEvents \in Nat /\ MaxAttempts \in Nat \ {0}

VARIABLES dicts,            \* the dicts app.state.webhooks has been; the last
                            \*   is what it is now, none before the first
          keeper,           \* what each of these threads is about to do
          firer,            \* the iteration of each of these threads
          events,           \* how many events were fired
          deliveries,       \* threads that deliver: [event, to, failed]
          told,             \* <<event, hook>> that was delivered
          dropped,          \* ... that failed MaxAttempts times
          used,             \* ids that were given out
          registered,       \* history: answered 201, nobody has asked to delete
          raced,            \* history: first registrations overlapped
          promised          \* history: deliveries owed since the last start

hookVars == <<dicts, keeper, firer, events, deliveries, told, dropped, used,
              registered, raced, promised>>

Registry == IF dicts = <<>> THEN {} ELSE dicts[Len(dicts)]

Rest == [op |-> "none"]

Pairs == (1..events) \X HookIds

HooksTypeOK ==
    /\ \A g \in DOMAIN dicts : dicts[g] \subseteq HookIds
    /\ \A t \in Keepers : keeper[t] # Rest =>
          /\ keeper[t].op \in {"make", "add", "delete"}
          /\ keeper[t].hook \in HookIds
          /\ keeper[t].dict \in {0} \cup DOMAIN dicts
    /\ \A t \in Firers : firer[t] # Rest =>
          /\ firer[t].dict \in DOMAIN dicts
          /\ firer[t].event \in 1..events
          /\ firer[t].seen \subseteq HookIds /\ firer[t].owed \subseteq HookIds
    /\ events \in 0..MaxEvents
    /\ \A d \in deliveries : /\ d.event \in 1..events
                             /\ d.to \subseteq Interested /\ d.to # {}
                             /\ d.failed \in 0..MaxAttempts - 1
    /\ told \subseteq Pairs /\ dropped \subseteq Pairs /\ promised \subseteq Pairs
    /\ registered \subseteq used /\ used \subseteq HookIds
    /\ raced \in BOOLEAN

HooksInit == /\ dicts = <<>>
             /\ keeper = [t \in Keepers |-> Rest]
             /\ firer = [t \in Firers |-> Rest]
             /\ events = 0 /\ deliveries = {} /\ told = {} /\ dropped = {}
             /\ used = {} /\ registered = {} /\ raced = FALSE /\ promised = {}

deliveryVars == <<events, deliveries, told, dropped, promised>>

-----------------------------------------------------------------------------
(* register_webhook: if not hasattr(state, "webhooks"): state.webhooks =   *)
(* {}; then state.webhooks[id] = webhook                                   *)
Keep(t, what) == keeper' = [keeper EXCEPT ![t] = what]

LookForRegistry(t, h) ==
    /\ keeper[t] = Rest
    /\ h \notin used /\ used' = used \cup {h}
    /\ Keep(t, [op |-> IF dicts = <<>> THEN "make" ELSE "add", hook |-> h,
                dict |-> 0])
    /\ UNCHANGED <<dicts, firer, registered, raced, deliveryVars>>

MakeRegistry(t) ==
    /\ keeper[t].op = "make"
    /\ dicts' = Append(dicts, {})
    /\ raced' = (raced \/ dicts # <<>>)
    /\ Keep(t, [keeper[t] EXCEPT !.op = "add"])
    /\ UNCHANGED <<firer, used, registered, deliveryVars>>

AddHook(t) ==
    /\ keeper[t].op = "add"
    /\ dicts' = [dicts EXCEPT ![Len(dicts)] = @ \cup {keeper[t].hook}]
    /\ registered' = registered \cup {keeper[t].hook}
    /\ Keep(t, Rest)
    /\ UNCHANGED <<firer, used, raced, deliveryVars>>

(* delete_webhook: if id not in webhooks: 404; del webhooks[id], which     *)
(* raises when another request has deleted it in between.                  *)
FindHook(t, h) ==
    /\ keeper[t] = Rest
    /\ h \in Registry
    /\ Keep(t, [op |-> "delete", hook |-> h, dict |-> Len(dicts)])
    /\ registered' = registered \ {h}
    /\ firer' = [f \in Firers |-> IF firer[f] = Rest THEN Rest
                                  ELSE [firer[f] EXCEPT !.owed = @ \ {h}]]
    /\ UNCHANGED <<dicts, used, raced, deliveryVars>>

DeleteHook(t) ==
    /\ keeper[t].op = "delete"
    /\ dicts' = [dicts EXCEPT ![keeper[t].dict] = @ \ {keeper[t].hook}]
    /\ Keep(t, Rest)
    /\ UNCHANGED <<firer, used, registered, raced, deliveryVars>>

-----------------------------------------------------------------------------
(* _fire_webhooks.  With an empty registry nothing else happens.           *)
Fire(t) ==
    /\ firer[t] = Rest
    /\ events < MaxEvents
    /\ events' = events + 1
    /\ IF Registry = {}
       THEN /\ UNCHANGED firer
            /\ promised' = promised \cup ({events + 1} \X (registered \cap Interested))
       ELSE /\ firer' = [firer EXCEPT ![t] =
                  [op |-> "iterate", event |-> events + 1, dict |-> Len(dicts),
                   size |-> Cardinality(Registry), seen |-> {},
                   owed |-> registered \cap Interested]]
            /\ UNCHANGED promised
    /\ UNCHANGED <<dicts, keeper, deliveries, told, dropped, used, registered,
                   raced>>

Unseen(t) == dicts[firer[t].dict] \ firer[t].seen

SameSize(t) == Cardinality(dicts[firer[t].dict]) = firer[t].size

NextHook(t) ==
    /\ firer[t] # Rest
    /\ SameSize(t) /\ Cardinality(firer[t].seen) < firer[t].size
    /\ \E h \in Unseen(t) : firer' = [firer EXCEPT ![t].seen = @ \cup {h}]
    /\ UNCHANGED <<dicts, keeper, used, registered, raced, deliveryVars>>

(* RuntimeError: the dict has another size, or more keys than it had       *)
IterationRaises(t) ==
    /\ firer[t] # Rest
    /\ SameSize(t) => Unseen(t) # {} /\ Cardinality(firer[t].seen) = firer[t].size
    /\ firer' = [firer EXCEPT ![t] = Rest]
    /\ UNCHANGED <<dicts, keeper, used, registered, raced, deliveryVars>>

IterationEnds(t) ==
    LET targets == firer[t].seen \cap Interested IN
    /\ firer[t] # Rest
    /\ SameSize(t) /\ Unseen(t) = {}
    /\ deliveries' = IF targets = {} THEN deliveries
                     ELSE deliveries \cup {[event |-> firer[t].event,
                                            to |-> targets, failed |-> 0]}
    /\ promised' = promised \cup ({firer[t].event} \X firer[t].owed)
    /\ firer' = [firer EXCEPT ![t] = Rest]
    /\ UNCHANGED <<dicts, keeper, events, told, dropped, used, registered, raced>>

-----------------------------------------------------------------------------
(* _deliver: the targets in turn, three attempts each; one whose answer is *)
(* lost counts as a failure and is repeated.                               *)
Replace(d, next) ==
    deliveries' = (deliveries \ {d}) \cup {n \in {next} : n.to # {}}

DoneWith(d, h) == [d EXCEPT !.to = @ \ {h}, !.failed = 0]

Current(d) == CHOOSE h \in d.to : TRUE

Delivered(d) ==
    /\ Replace(d, DoneWith(d, Current(d)))
    /\ told' = told \cup {<<d.event, Current(d)>>}
    /\ UNCHANGED <<dicts, keeper, firer, events, dropped, used, registered,
                   raced, promised>>

FailsAndLeaves(d) ==        \* mutant: the last failure leaves the outer loop
    /\ IF d.failed + 1 < MaxAttempts
       THEN Replace(d, [d EXCEPT !.failed = @ + 1]) /\ UNCHANGED dropped
       ELSE /\ deliveries' = deliveries \ {d}
            /\ dropped' = dropped \cup {<<d.event, Current(d)>>}
    /\ UNCHANGED <<dicts, keeper, firer, events, told, used, registered, raced,
                   promised>>

FailsOnceMore(d) ==         \* mutant: a fourth attempt
    /\ IF d.failed < MaxAttempts
       THEN Replace(d, [d EXCEPT !.failed = @ + 1]) /\ UNCHANGED dropped
       ELSE /\ Replace(d, DoneWith(d, Current(d)))
            /\ dropped' = dropped \cup {<<d.event, Current(d)>>}
    /\ UNCHANGED <<dicts, keeper, firer, events, told, used, registered, raced,
                   promised>>

Fails(d) ==
    /\ IF d.failed + 1 < MaxAttempts
       THEN Replace(d, [d EXCEPT !.failed = @ + 1]) /\ UNCHANGED dropped
       ELSE /\ Replace(d, DoneWith(d, Current(d)))
            /\ dropped' = dropped \cup {<<d.event, Current(d)>>}
    /\ UNCHANGED <<dicts, keeper, firer, events, told, used, registered, raced,
                   promised>>

(* A restart, or a shutdown: the delivering threads are daemons.           *)
HooksCrash ==
    /\ dicts' = <<>>
    /\ keeper' = [t \in Keepers |-> Rest]
    /\ firer' = [t \in Firers |-> Rest]
    /\ deliveries' = {} /\ registered' = {} /\ raced' = FALSE /\ promised' = {}
    /\ UNCHANGED <<events, told, dropped, used>>

HooksNext ==
    \/ \E t \in Keepers, h \in HookIds : LookForRegistry(t, h) \/ FindHook(t, h)
    \/ \E t \in Keepers : MakeRegistry(t) \/ AddHook(t) \/ DeleteHook(t)
    \/ \E t \in Firers : \/ Fire(t) \/ NextHook(t)
                         \/ IterationRaises(t) \/ IterationEnds(t)
    \/ \E d \in deliveries : Delivered(d) \/ Fails(d)
    \/ HooksCrash

HooksSpec == HooksInit /\ [][HooksNext]_hookVars

-----------------------------------------------------------------------------
(* An event whose request was answered without error reaches every webhook *)
(* that was registered when it was fired and that nobody has asked to      *)
(* delete before its delivery began, or has failed there three times, or   *)
(* is still being delivered; unless the first registrations overlapped, or *)
(* the process was restarted.                                              *)
SubscribersAreTold ==
    ~raced => promised \subseteq told \cup dropped
                  \cup UNION {{d.event} \X d.to : d \in deliveries}
=============================================================================
