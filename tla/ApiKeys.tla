------------------------------- MODULE ApiKeys -------------------------------
(***************************************************************************)
(* The keys of the data plane: the table api_keys (store.py), the          *)
(* endpoints that create, rotate and revoke keys on the server's threads,  *)
(* and the two places where a presented key is looked up, on the event     *)
(* loop: the security middleware (secure_api.py) and the dependency auth.  *)
(*                                                                         *)
(* One action is one store call.  A key is its row's number; the secret,   *)
(* its hash and its prefix stand and fall together.  The random prefix of  *)
(* a new key may be taken, or the disk be full: then the insert raises.    *)
(***************************************************************************)
EXTENDS Integers, Sequences, FiniteSets

CONSTANTS Admins,           \* threads that serve requests about keys
          Callers,          \* requests that present a key
          KeyNames,
          MaxApiKeys        \* bound of the model: rows of api_keys

ASSUME ApiKeysAssumption == MaxApiKeys \in Nat

VARIABLES apiKeys,          \* the table, by order of insertion: [name, active]
          secured,          \* create_app of secure_api.py, or the core's alone
          admin,            \* the request of each administrator's thread
          caller,           \* where each presented key stands
          revoked,          \* history: keys somebody asked to revoke
          cut               \* history: names of keys whose rotation was
                            \*   answered with an error, or not at all

keyVars == <<apiKeys, secured, admin, caller, revoked, cut>>

Known == DOMAIN apiKeys

NoRequest == [op |-> "none", key |-> 0, name |-> "none"]

KeysTypeOK ==
    /\ apiKeys \in Seq([name : KeyNames, active : BOOLEAN])
    /\ Len(apiKeys) <= MaxApiKeys
    /\ secured \in BOOLEAN
    /\ admin \in [Admins ->
          [op : {"none", "insert", "deactivate", "successor"},
           key : Known \cup {0}, name : KeyNames \cup {"none"}]]
    /\ \A t \in Admins : admin[t].op # "none" => admin[t].name \in KeyNames
    /\ caller \in [Callers ->
          [at : {"idle", "gate", "auth", "served", "refused"},
           key : Known \cup {0}, late : BOOLEAN]]
    /\ \A c \in Callers : caller[c].at # "idle" => caller[c].key \in Known
    /\ revoked \subseteq Known /\ cut \subseteq KeyNames

NoCall == [at |-> "idle", key |-> 0, late |-> FALSE]

KeysInit == /\ apiKeys = <<>>
            /\ secured \in BOOLEAN
            /\ admin = [t \in Admins |-> NoRequest]
            /\ caller = [c \in Callers |-> NoCall]
            /\ revoked = {} /\ cut = {}

-----------------------------------------------------------------------------
Ask(t, request) == /\ admin[t] = NoRequest
                   /\ admin' = [admin EXCEPT ![t] = request]

Done(t) == admin' = [admin EXCEPT ![t] = NoRequest]

Deactivated(k) == [apiKeys EXCEPT ![k].active = FALSE]

Inserted(name) == Append(apiKeys, [name |-> name, active |-> TRUE])

AskCreate(t, name) ==
    /\ Ask(t, [op |-> "insert", key |-> 0, name |-> name])
    /\ UNCHANGED <<apiKeys, secured, caller, revoked, cut>>

(* rotate_api_key reads all keys; that the old one is active is not asked. *)
AskRotate(t, k) ==
    /\ Ask(t, [op |-> "deactivate", key |-> k, name |-> apiKeys[k].name])
    /\ UNCHANGED <<apiKeys, secured, caller, revoked, cut>>

Deactivate(t) ==
    /\ admin[t].op = "deactivate"
    /\ apiKeys' = Deactivated(admin[t].key)
    /\ admin' = [admin EXCEPT ![t].op = "successor"]
    /\ UNCHANGED <<secured, caller, revoked, cut>>

InsertUnnamed(t) ==         \* mutant: the successor takes another key's name
    /\ admin[t].op \in {"insert", "successor"}
    /\ Len(apiKeys) < MaxApiKeys
    /\ apiKeys' = Inserted(IF admin[t].op = "insert" THEN admin[t].name
                           ELSE apiKeys[1].name)
    /\ Done(t)
    /\ UNCHANGED <<secured, caller, revoked, cut>>

Insert(t) ==
    /\ admin[t].op \in {"insert", "successor"}
    /\ Len(apiKeys) < MaxApiKeys
    /\ apiKeys' = Inserted(admin[t].name)
    /\ Done(t)
    /\ UNCHANGED <<secured, caller, revoked, cut>>

InsertFails(t) ==
    /\ admin[t].op \in {"insert", "successor"}
    /\ cut' = IF admin[t].op = "insert" THEN cut ELSE cut \cup {admin[t].name}
    /\ Done(t)
    /\ UNCHANGED <<apiKeys, secured, caller, revoked>>

Revoke(t, k) ==
    /\ admin[t] = NoRequest
    /\ apiKeys' = Deactivated(k)
    /\ revoked' = revoked \cup {k}
    /\ UNCHANGED <<secured, admin, caller, cut>>

-----------------------------------------------------------------------------
(* A request with key k.  In the secured application the middleware looks  *)
(* the key up, and the endpoint's dependency does so again.                *)
Present(c, k) ==
    /\ caller[c].at = "idle"
    /\ caller' = [caller EXCEPT ![c] =
                    [at |-> IF secured THEN "gate" ELSE "auth", key |-> k,
                     late |-> ~apiKeys[k].active]]
    /\ UNCHANGED <<apiKeys, secured, admin, revoked, cut>>

Verdict(c, passed) ==
    caller' = [caller EXCEPT ![c].at =
                 IF apiKeys[caller[c].key].active THEN passed ELSE "refused"]

Gate(c) == /\ caller[c].at = "gate"
           /\ Verdict(c, "auth")
           /\ UNCHANGED <<apiKeys, secured, admin, revoked, cut>>

Auth(c) == /\ caller[c].at = "auth"
           /\ Verdict(c, "served")
           /\ UNCHANGED <<apiKeys, secured, admin, revoked, cut>>

Rotating == {t \in Admins : admin[t].op = "successor"}

KeysCrash ==
    /\ cut' = cut \cup {admin[t].name : t \in Rotating}
    /\ admin' = [t \in Admins |-> NoRequest]
    /\ caller' = [c \in Callers |-> NoCall]
    /\ UNCHANGED <<apiKeys, secured, revoked>>

KeysNext ==
    \/ \E t \in Admins :
          \/ \E n \in KeyNames : AskCreate(t, n)
          \/ \E k \in Known : AskRotate(t, k) \/ Revoke(t, k)
          \/ Deactivate(t) \/ Insert(t) \/ InsertFails(t)
    \/ \E c \in Callers : (\E k \in Known : Present(c, k)) \/ Gate(c) \/ Auth(c)
    \/ KeysCrash

KeysSpec == KeysInit /\ [][KeysNext]_keyVars

-----------------------------------------------------------------------------
(* Who holds a key under a name is not shut out by rotations, overlapping  *)
(* ones included: the name has an active key, or is about to get it from a *)
(* rotation, unless somebody asked to revoke one of its keys or a rotation *)
(* was cut between its two writes.                                         *)
NameKeepsAKey ==
    \A n \in KeyNames :
        LET mine == {k \in Known : apiKeys[k].name = n} IN
        \/ mine = {} \/ mine \cap revoked # {} \/ n \in cut
        \/ \E k \in mine : apiKeys[k].active
        \/ \E t \in Rotating : admin[t].name = n

(* A request that came after its key was deactivated is not served, on     *)
(* either way into the application.                                        *)
RevokedIsRefused == \A c \in Callers : caller[c].at = "served" => ~caller[c].late
=============================================================================
