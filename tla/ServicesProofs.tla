--------------------------- MODULE ServicesProofs ---------------------------
(***************************************************************************)
(* The small services, for any threads, requests and bounds: publication,  *)
(* tenant policies, the keys of the data plane, the signals, the webhooks, *)
(* the rate limits; and what holds of all of them together, with the       *)
(* evaluator.  Each part has its own invariant; no part uses that of       *)
(* another, but the policies, whose requests are those of Publication.     *)
(***************************************************************************)
EXTENDS Services, AutonomyProofs, SequenceTheorems, FiniteSetTheorems, TLAPS

-----------------------------------------------------------------------------
(* Publication.  What a request carries, and where its kind may stand.     *)
RequestFields == {"n", "op", "item", "to", "update", "policy", "alone",
                  "bearer", "fresh"}

RequestOK(t) ==
    Busy(t) => /\ DOMAIN request[t] = RequestFields
               /\ request[t].n \in 1..taken
               /\ at[t] \in {"route", "post", "save"} => request[t].op = "publish"
               /\ at[t] \in {"fetch", "refetch", "reenroll"} => request[t].op # "publish"

Numbered ==
    /\ DOMAIN at = Publishers /\ DOMAIN request = Publishers
    /\ taken \in Nat
    /\ accepted \subseteq 1..taken
    /\ \A t \in Publishers : RequestOK(t)
    /\ \A t, u \in Publishers : Busy(t) /\ Busy(u) /\ request[t].n = request[u].n
                                  => t = u

(* Only publications are accepted; what is about to be saved has been.     *)
OnlyPublications ==
    \A t \in Publishers :
       /\ Busy(t) /\ request[t].op # "publish" => request[t].n \notin accepted
       /\ at[t] \in {"keep", "save"} /\ request[t].op = "publish"
             => request[t].n \in accepted

PubInv == Numbered /\ OnlyPublications /\ AcceptedIsRecorded

(* A step of one request that neither posts nor saves: it stays the same   *)
(* request, and does not forget what a destination has accepted.           *)
Same(u) == /\ request'[u].n = request[u].n /\ request'[u].op = request[u].op
           /\ DOMAIN request'[u] = DOMAIN request[u]

Moves(t) == /\ \A u \in Publishers \ {t} : at'[u] = at[u]
            /\ DOMAIN at' = Publishers /\ DOMAIN request' = Publishers

Proceeds(t) ==
    /\ Busy(t) /\ Moves(t)
    /\ \A u \in Publishers : Same(u)
    /\ at'[t] \in {"route", "post", "save"} => request[t].op = "publish"
    /\ at'[t] \in {"fetch", "refetch", "reenroll"} => request[t].op # "publish"
    /\ request[t].op = "publish" =>
          (at[t] \in {"keep", "save"} <=> at'[t] \in {"keep", "save"})
    /\ UNCHANGED <<taken, accepted, unheard, publications>>

LEMMA ProceedsOK ==
    ASSUME PubInv, NEW t \in Publishers, Proceeds(t)
    PROVE  PubInv'
<1>0. /\ Numbered /\ OnlyPublications /\ AcceptedIsRecorded
      /\ \A u \in Publishers : Same(u)
      /\ UNCHANGED <<taken, accepted, unheard, publications>>
  BY DEF PubInv, Proceeds
<1>1. \A u \in Publishers : Busy(u)' => Busy(u)
  BY DEF Busy, Proceeds, Moves
<1>2. \A u \in Publishers : RequestOK(u)'
  <2>1. \A u \in Publishers \ {t} : RequestOK(u)'
    BY <1>0 DEF Numbered, RequestOK, Busy, Proceeds, Moves, Same
  <2>2. RequestOK(t)'
    BY <1>0 DEF Numbered, RequestOK, Proceeds, Same
  <2> QED
    BY <2>1, <2>2
<1>3. Numbered'
  BY <1>0, <1>1, <1>2 DEF Numbered, Proceeds, Moves, Same
<1>4. OnlyPublications'
  <2>1. \A u \in Publishers : Busy(u)' /\ request'[u].op # "publish"
                                 => request'[u].n \notin accepted'
    BY <1>0, <1>1 DEF OnlyPublications, Same
  <2>2. \A u \in Publishers : at'[u] \in {"keep", "save"} /\ request'[u].op = "publish"
                                 => request'[u].n \in accepted'
    BY <1>0 DEF OnlyPublications, Same, Proceeds, Moves
  <2> QED
    BY <2>1, <2>2 DEF OnlyPublications
<1>5. accepted \cap CutOff \subseteq CutOff'
  <2>1. SUFFICES ASSUME NEW u \in Publishers, at[u] \in {"keep", "save"},
                        request[u].n \in accepted
                 PROVE  request[u].n \in CutOff'
    BY DEF CutOff
  <2>2. Busy(u) /\ request[u].op = "publish"
    BY <1>0, <2>1 DEF OnlyPublications, Busy, PubSteps
  <2>3. at'[u] \in {"keep", "save"}
    BY <2>1, <2>2 DEF Proceeds, Moves
  <2> QED
    BY <1>0, <2>3 DEF CutOff, Same
<1>6. AcceptedIsRecorded'
  BY <1>0, <1>5 DEF AcceptedIsRecorded
<1> QED
  BY <1>3, <1>4, <1>6 DEF PubInv

(* A request arrives under a number of its own.                            *)
Arrives(t) ==
    /\ ~Busy(t) /\ Moves(t)
    /\ taken' = taken + 1
    /\ at'[t] \in {"put", "delete", "route", "rows"}
    /\ request'[t].n = taken + 1
    /\ DOMAIN request'[t] = RequestFields
    /\ at'[t] = "route" => request'[t].op = "publish"
    /\ \A u \in Publishers \ {t} : Same(u)
    /\ UNCHANGED <<accepted, unheard, publications>>

LEMMA ArrivesOK ==
    ASSUME PubInv, NEW t \in Publishers, Arrives(t)
    PROVE  PubInv'
<1>0. /\ Numbered /\ OnlyPublications /\ AcceptedIsRecorded
      /\ \A u \in Publishers \ {t} : Same(u)
      /\ UNCHANGED <<accepted, unheard, publications>>
      /\ taken \in Nat /\ taken' = taken + 1
  BY DEF PubInv, Arrives, Numbered
<1>1. \A u \in Publishers \ {t} : Busy(u)' <=> Busy(u)
  BY DEF Busy, Arrives, Moves
<1>2. \A u \in Publishers : RequestOK(u)'
  <2>1. ASSUME NEW u \in Publishers \ {t}
        PROVE  RequestOK(u)'
    <3>1. RequestOK(u) /\ Same(u) /\ at'[u] = at[u]
      BY <1>0 DEF Numbered, Arrives, Moves
    <3> QED
      BY <1>0, <3>1 DEF RequestOK, Busy, Same
  <2>2. RequestOK(t)'
    BY <1>0 DEF RequestOK, Arrives
  <2> QED
    BY <2>1, <2>2
<1>3. \A u \in Publishers \ {t} : Busy(u) => request[u].n \in 1..taken
  BY <1>0 DEF Numbered, RequestOK
<1>4. Numbered'
  <2>1. \A u \in Publishers \ {t} : Busy(u)' => request'[u].n # request'[t].n
    BY <1>0, <1>1, <1>3 DEF Arrives, Same
  <2>2. \A u, v \in Publishers : Busy(u)' /\ Busy(v)' /\ request'[u].n = request'[v].n
                                    => u = v
    BY <1>0, <1>1, <2>1 DEF Numbered, Same
  <2>3. accepted' \subseteq 1..taken' /\ taken' \in Nat
    BY <1>0 DEF Numbered
  <2> QED
    BY <1>2, <2>2, <2>3 DEF Numbered, Arrives, Moves
<1>5. OnlyPublications'
  <2>1. taken + 1 \notin accepted
    BY <1>0 DEF Numbered
  <2>2. ASSUME NEW u \in Publishers \ {t}
        PROVE  /\ Busy(u)' /\ request'[u].op # "publish"
                    => request'[u].n \notin accepted'
               /\ at'[u] \in {"keep", "save"} /\ request'[u].op = "publish"
                    => request'[u].n \in accepted'
    BY <1>0, <1>1 DEF OnlyPublications, Same, Arrives, Moves
  <2>3. request'[t].n \notin accepted' /\ at'[t] \notin {"keep", "save"}
    BY <1>0, <2>1 DEF Arrives
  <2> QED
    BY <2>2, <2>3 DEF OnlyPublications
<1>6. CutOff \subseteq CutOff'
  <2>1. ASSUME NEW u \in Publishers, at[u] \in {"keep", "save"}
        PROVE  request[u].n \in CutOff'
    <3>1. u # t
      BY <2>1 DEF Arrives, Busy, PubSteps
    <3> QED
      BY <1>0, <2>1, <3>1 DEF Arrives, Moves, Same, CutOff
  <2> QED
    BY <2>1 DEF CutOff
<1>7. AcceptedIsRecorded'
  BY <1>0, <1>6 DEF AcceptedIsRecorded
<1> QED
  BY <1>4, <1>5, <1>7 DEF PubInv

LEMMA BlankFields == \A n : DOMAIN Blank(n) = RequestFields /\ Blank(n).n = n
BY DEF Blank, RequestFields

LEMMA ReadPolicyArrives ==
    ASSUME PubInv, NEW t \in Publishers, NEW u \in Updates, ReadPolicy(t, u)
    PROVE  Arrives(t)
<1>0. DOMAIN at = Publishers /\ DOMAIN request = Publishers
  BY DEF PubInv, Numbered
<1>1. PICK mine : /\ DOMAIN mine = RequestFields /\ mine.n = taken + 1
                  /\ Take(t, mine, "put")
                  /\ request' = [s \in Publishers |->
                        IF s = t THEN mine
                        ELSE IF s \in Updating
                             THEN [request[s] EXCEPT !.alone = FALSE]
                             ELSE request[s]]
  <2>1. PICK mine : mine = [Blank(taken + 1) EXCEPT !.op = "update", !.update = u,
                              !.policy = Merged(u, policies),
                              !.alone = ~(Updating # {})]
    OBVIOUS
  <2>2. DOMAIN mine = RequestFields /\ mine.n = taken + 1
    BY <2>1, BlankFields DEF RequestFields
  <2> QED
    BY <2>1, <2>2 DEF ReadPolicy
<1>2. \A s \in Publishers \ {t} : Same(s)
  <2>1. ASSUME NEW s \in Publishers \ {t}
        PROVE  Same(s)
    <3>1. CASE s \notin Updating
      BY <1>1, <3>1 DEF Same
    <3>2. CASE s \in Updating
      <4>1. DOMAIN request[s] = RequestFields
        BY <3>2 DEF Updating, PubInv, Numbered, RequestOK, Busy, PubSteps
      <4>2. request'[s] = [request[s] EXCEPT !.alone = FALSE]
        BY <1>1, <3>2
      <4> QED
        BY <4>1, <4>2 DEF Same, RequestFields
    <3> QED
      BY <3>1, <3>2
  <2> QED
    BY <2>1
<1> QED
  BY <1>0, <1>1, <1>2 DEF Arrives, Moves, ReadPolicy, outsideVars, Take, GoTo

LEMMA TakenArrives ==
    ASSUME PubInv, NEW t \in Publishers, NEW r, NEW step \in {"delete", "route", "rows"},
           DOMAIN r = RequestFields, r.n = taken + 1,
           step = "route" => r.op = "publish",
           Take(t, r, step), Locals(t, r),
           UNCHANGED <<accepted, unheard, publications>>
    PROVE  Arrives(t)
<1>0. DOMAIN at = Publishers /\ DOMAIN request = Publishers
  BY DEF PubInv, Numbered
<1> QED
  BY <1>0 DEF Arrives, Moves, Take, GoTo, Locals, Same

LEMMA DeleteArrives ==
    ASSUME PubInv, NEW t \in Publishers, AskDelete(t)
    PROVE  Arrives(t)
<1>1. PICK r : r = [Blank(taken + 1) EXCEPT !.op = "delete"]
  OBVIOUS
<1>2. DOMAIN r = RequestFields /\ r.n = taken + 1
  BY <1>1, BlankFields DEF RequestFields
<1>3. /\ Take(t, r, "delete") /\ Locals(t, r)
      /\ UNCHANGED <<accepted, unheard, publications>>
  BY <1>1 DEF AskDelete, outsideVars
<1> QED
  BY <1>2, <1>3, TakenArrives

LEMMA PublishArrives ==
    ASSUME PubInv, NEW t \in Publishers, NEW i \in Articles, NEW d \in Destinations,
           AskPublish(t, i, d)
    PROVE  Arrives(t)
<1>1. PICK r : r = [Blank(taken + 1) EXCEPT !.op = "publish", !.item = i, !.to = d]
  OBVIOUS
<1>2. DOMAIN r = RequestFields /\ r.n = taken + 1 /\ r.op = "publish"
  BY <1>1, BlankFields DEF RequestFields
<1>3. /\ Take(t, r, "route") /\ Locals(t, r)
      /\ UNCHANGED <<accepted, unheard, publications>>
  BY <1>1 DEF AskPublish, outsideVars
<1> QED
  BY <1>2, <1>3, TakenArrives

LEMMA StatusArrives ==
    ASSUME PubInv, NEW t \in Publishers, NEW i \in Articles, AskStatus(t, i)
    PROVE  Arrives(t)
<1>1. PICK r : r = [Blank(taken + 1) EXCEPT !.op = "status", !.item = i, !.to = "works"]
  OBVIOUS
<1>2. DOMAIN r = RequestFields /\ r.n = taken + 1
  BY <1>1, BlankFields DEF RequestFields
<1>3. /\ Take(t, r, "rows") /\ Locals(t, r)
      /\ UNCHANGED <<accepted, unheard, publications>>
  BY <1>1 DEF AskStatus, outsideVars
<1> QED
  BY <1>2, <1>3, TakenArrives

(* The steps that change no history.                                       *)
LEMMA StepsProceed ==
    ASSUME PubInv, NEW t \in Publishers,
           \/ PutPolicyInMemory(t) \/ PersistPolicy(t) \/ PersistFails(t)
           \/ DeleteRow(t) \/ Route(t) \/ ReadToken(t) \/ Enroll(t)
           \/ PostFails(t) \/ KeepToken(t) \/ FindRows(t) \/ Fetch(t)
    PROVE  Proceeds(t)
<1>0. /\ DOMAIN at = Publishers /\ DOMAIN request = Publishers /\ RequestOK(t)
      /\ \A u \in Publishers : RequestOK(u)
  BY DEF PubInv, Numbered
<1>2. CASE PutPolicyInMemory(t)
  <2>1. /\ request' = request /\ at' = [at EXCEPT ![t] = "persist"]
        /\ at[t] = "put" /\ UNCHANGED <<taken, accepted, unheard, publications>>
    BY <1>2 DEF PutPolicyInMemory, GoTo, outsideVars
  <2> QED
    BY <1>0, <2>1 DEF Proceeds, Moves, Same, Busy, PubSteps
<1>3. ASSUME \/ PersistPolicy(t) \/ PersistFails(t) \/ DeleteRow(t) \/ PostFails(t)
             \/ FindRows(t) \/ Route(t)
      PROVE  Proceeds(t)
  <2>1. /\ request' = request
        /\ at[t] \in {"persist", "delete", "post", "rows", "route"}
        /\ UNCHANGED <<taken, accepted, unheard, publications>>
        /\ \E p \in PubAnswered \cup {"token", "post"} :
              /\ p = "post" => at[t] = "route"
              /\ at' = [at EXCEPT ![t] = p]
    <3>1. CASE Route(t)
      BY <3>1 DEF Route, Reply, GoTo, outsideVars, PubAnswered
    <3>2. CASE PersistPolicy(t) \/ PersistFails(t)
      BY <3>2 DEF PersistPolicy, PersistFails, Reply, GoTo, outsideVars, PubAnswered
    <3>3. CASE DeleteRow(t) \/ FindRows(t)
      BY <3>3 DEF DeleteRow, FindRows, Reply, GoTo, outsideVars, PubAnswered
    <3>4. CASE PostFails(t)
      <4>1. /\ at[t] = "post" /\ request' = request
            /\ UNCHANGED <<taken, accepted, unheard, publications>>
        BY <3>4 DEF PostFails, Reply, outsideVars
      <4>2. \/ at' = [at EXCEPT ![t] = "bad_gateway"]
            \/ at' = [at EXCEPT ![t] = "unauthorized"]
        BY <3>4 DEF PostFails, Reply, GoTo
      <4> QED
        BY <4>1, <4>2 DEF PubAnswered
    <3> QED
      BY <1>3, <3>1, <3>2, <3>3, <3>4
  <2>2. PICK p \in PubAnswered \cup {"token", "post"} :
              /\ p = "post" => at[t] = "route"
              /\ at' = [at EXCEPT ![t] = p]
    BY <2>1
  <2> QED
    BY <1>0, <2>1, <2>2 DEF Proceeds, Moves, Same, Busy, PubSteps, PubAnswered, RequestOK
<1>4. CASE ReadToken(t)
  <2>1. /\ at[t] = "token" /\ request' = [request EXCEPT ![t].bearer = token]
        /\ UNCHANGED <<taken, accepted, unheard, publications>>
        /\ at' = [at EXCEPT ![t] = IF token = 0 THEN "enroll" ELSE NextCall(t)]
    BY <1>4, <1>0 DEF ReadToken, GoTo, Locals, outsideVars
  <2>2. /\ Busy(t) /\ DOMAIN request[t] = RequestFields
    BY <1>0, <2>1 DEF RequestOK, Busy, PubSteps
  <2>3. \A u \in Publishers : Same(u)
    BY <1>0, <2>1, <2>2 DEF Same, RequestFields
  <2> QED
    BY <1>0, <2>1, <2>2, <2>3 DEF Proceeds, Moves, NextCall
<1>5. CASE Enroll(t)
  <2>1. /\ at[t] \in {"enroll", "reenroll"}
        /\ UNCHANGED <<taken, accepted, unheard, publications>>
    BY <1>5 DEF Enroll, outsideVars
  <2>2. /\ Busy(t) /\ DOMAIN request[t] = RequestFields
    BY <1>0, <2>1 DEF RequestOK, Busy, PubSteps
  <2>3. CASE request' = request /\ at' = [at EXCEPT ![t] = "bad_gateway"]
    BY <1>0, <2>1, <2>2, <2>3 DEF Proceeds, Moves, Same
  <2>4. CASE /\ request' = [request EXCEPT ![t] =
                             [request[t] EXCEPT !.bearer = epoch, !.fresh = TRUE]]
             /\ at' = [at EXCEPT ![t] = IF at[t] = "enroll" THEN NextCall(t)
                                        ELSE "refetch"]
    <3>1. (\A u \in Publishers : Same(u)) /\ DOMAIN request' = Publishers
      BY <1>0, <2>2, <2>4 DEF Same, RequestFields
    <3>2. CASE at[t] = "enroll"
      BY <1>0, <2>1, <2>2, <2>4, <3>1, <3>2 DEF Proceeds, Moves, NextCall
    <3>3. CASE at[t] = "reenroll"
      BY <1>0, <2>1, <2>2, <2>4, <3>1, <3>3 DEF Proceeds, Moves, RequestOK
    <3> QED
      BY <2>1, <3>2, <3>3
  <2> QED
    BY <1>5, <2>3, <2>4 DEF Enroll, GoTo, Reply, Locals
<1>6. CASE KeepToken(t)
  <2>1. /\ request' = request /\ at[t] = "keep"
        /\ UNCHANGED <<taken, accepted, unheard, publications>>
        /\ at' = [at EXCEPT ![t] = IF request[t].op = "publish" THEN "save" ELSE "ok"]
    BY <1>6 DEF KeepToken, Reply, GoTo, outsideVars
  <2> QED
    BY <1>0, <2>1 DEF Proceeds, Moves, Same, Busy, PubSteps
<1>7. CASE Fetch(t)
  <2>1. /\ request' = request /\ at[t] \in {"fetch", "refetch"}
        /\ UNCHANGED <<taken, accepted, unheard, publications>>
        /\ \E p \in {"bad_gateway", "keep", "reenroll", "unauthorized"} :
              at' = [at EXCEPT ![t] = p]
    BY <1>7 DEF Fetch, Reply, GoTo, outsideVars
  <2>2. Busy(t) /\ request[t].op # "publish"
    BY <1>0, <2>1 DEF Busy, PubSteps, RequestOK
  <2> QED
    BY <1>0, <2>1, <2>2 DEF Proceeds, Moves, Same
<1> QED
  BY <1>2, <1>3, <1>4, <1>5, <1>6, <1>7

(* A destination accepts: the request is about to be recorded, or nobody   *)
(* has heard of it.                                                        *)
LEMMA PostOK ==
    ASSUME PubInv, NEW t \in Publishers, Post(t)
    PROVE  PubInv'
<1>0. /\ Numbered /\ OnlyPublications /\ AcceptedIsRecorded /\ RequestOK(t)
      /\ DOMAIN at = Publishers
  BY DEF PubInv, Numbered
<1>1. /\ at[t] = "post" /\ accepted' = accepted \cup {request[t].n}
      /\ UNCHANGED <<request, taken, publications>>
      /\ \/ /\ \E p \in {"keep", "save"} : at' = [at EXCEPT ![t] = p]
            /\ unheard' = unheard
         \/ /\ at' = [at EXCEPT ![t] = "bad_gateway"]
            /\ unheard' = unheard \cup {request[t].n}
  BY DEF Post, Accept, Reply, GoTo
<1>2. /\ Busy(t) /\ request[t].op = "publish" /\ request[t].n \in 1..taken
  BY <1>0, <1>1 DEF RequestOK, Busy, PubSteps
<1>3. /\ \A u \in Publishers \ {t} : at'[u] = at[u]
      /\ at'[t] \in {"keep", "save", "bad_gateway"} /\ DOMAIN at' = Publishers
  BY <1>0, <1>1
<1>4. \A u \in Publishers : Busy(u)' => Busy(u)
  BY <1>2, <1>3 DEF Busy
<1>5. Numbered'
  <2>1. \A u \in Publishers : RequestOK(u)'
    BY <1>0, <1>1, <1>2, <1>3 DEF Numbered, RequestOK, Busy
  <2> QED
    BY <1>0, <1>1, <1>2, <1>3, <1>4, <2>1 DEF Numbered
<1>6. OnlyPublications'
  <2>1. ASSUME NEW u \in Publishers, Busy(u)', request'[u].op # "publish"
        PROVE  request'[u].n \notin accepted'
    BY <2>1, <1>0, <1>1, <1>2, <1>4 DEF OnlyPublications, Numbered
  <2>2. ASSUME NEW u \in Publishers, at'[u] \in {"keep", "save"},
               request'[u].op = "publish"
        PROVE  request'[u].n \in accepted'
    BY <2>2, <1>0, <1>1, <1>3 DEF OnlyPublications
  <2> QED
    BY <2>1, <2>2 DEF OnlyPublications
<1>7. CutOff \subseteq CutOff'
  BY <1>1, <1>3 DEF CutOff
<1>8. request[t].n \in CutOff' \cup unheard'
  BY <1>0, <1>1 DEF CutOff
<1>9. AcceptedIsRecorded'
  BY <1>0, <1>1, <1>7, <1>8 DEF AcceptedIsRecorded
<1> QED
  BY <1>5, <1>6, <1>9 DEF PubInv

LEMMA SaveOK ==
    ASSUME PubInv, NEW t \in Publishers, Save(t)
    PROVE  PubInv'
<1>0. /\ Numbered /\ OnlyPublications /\ AcceptedIsRecorded /\ RequestOK(t)
      /\ DOMAIN at = Publishers
  BY DEF PubInv, Numbered
<1>1. /\ at[t] = "save" /\ at' = [at EXCEPT ![t] = "ok"]
      /\ UNCHANGED <<request, taken, accepted, unheard>>
  BY DEF Save, Reply, GoTo, outsideVars
<1>2. PICK row : row.n = request[t].n /\ publications' = publications \cup {row}
  BY DEF Save
<1>3. request[t].n \in accepted
  BY <1>0, <1>1 DEF RequestOK, Busy, PubSteps, OnlyPublications
<1>4. /\ \A u \in Publishers \ {t} : at'[u] = at[u]
      /\ at'[t] = "ok" /\ DOMAIN at' = Publishers
  BY <1>0, <1>1
<1>5. \A u \in Publishers : Busy(u)' => Busy(u) /\ u # t
  BY <1>4 DEF Busy, PubSteps
<1>6. Numbered'
  <2>1. \A u \in Publishers : RequestOK(u)'
    BY <1>0, <1>1, <1>4, <1>5 DEF Numbered, RequestOK, Busy
  <2> QED
    BY <1>0, <1>1, <1>4, <1>5, <2>1 DEF Numbered
<1>7. OnlyPublications'
  <2>1. \A u \in Publishers : Busy(u)' /\ request'[u].op # "publish"
                                 => request'[u].n \notin accepted'
    BY <1>0, <1>1, <1>5 DEF OnlyPublications
  <2>2. \A u \in Publishers : at'[u] \in {"keep", "save"} /\ request'[u].op = "publish"
                                 => request'[u].n \in accepted'
    BY <1>0, <1>1, <1>4 DEF OnlyPublications
  <2> QED
    BY <2>1, <2>2 DEF OnlyPublications
<1>8. CutOff \subseteq CutOff' \cup {request[t].n}
  BY <1>1, <1>4 DEF CutOff
<1>9. AcceptedIsRecorded'
  BY <1>0, <1>1, <1>2, <1>3, <1>8 DEF AcceptedIsRecorded
<1> QED
  BY <1>6, <1>7, <1>9 DEF PubInv

LEMMA SaveFailsOK ==
    ASSUME PubInv, NEW t \in Publishers, SaveFails(t)
    PROVE  PubInv'
<1>0. /\ Numbered /\ OnlyPublications /\ AcceptedIsRecorded /\ RequestOK(t)
      /\ DOMAIN at = Publishers
  BY DEF PubInv, Numbered
<1>1. /\ at[t] = "save" /\ at' = [at EXCEPT ![t] = "server_error"]
      /\ UNCHANGED <<request, taken, accepted, publications>>
  BY DEF SaveFails, Reply, GoTo, outsideVars
<1>2. unheard' = unheard \cup {request[t].n}
  BY DEF SaveFails
<1>3. request[t].n \in accepted
  BY <1>0, <1>1 DEF RequestOK, Busy, PubSteps, OnlyPublications
<1>4. /\ \A u \in Publishers \ {t} : at'[u] = at[u]
      /\ at'[t] = "server_error" /\ DOMAIN at' = Publishers
  BY <1>0, <1>1
<1>5. \A u \in Publishers : Busy(u)' => Busy(u) /\ u # t
  BY <1>4 DEF Busy, PubSteps
<1>6. Numbered'
  <2>1. \A u \in Publishers : RequestOK(u)'
    BY <1>0, <1>1, <1>4, <1>5 DEF Numbered, RequestOK, Busy
  <2> QED
    BY <1>0, <1>1, <1>4, <1>5, <2>1 DEF Numbered
<1>7. OnlyPublications'
  <2>1. \A u \in Publishers : Busy(u)' /\ request'[u].op # "publish"
                                 => request'[u].n \notin accepted'
    BY <1>0, <1>1, <1>5 DEF OnlyPublications
  <2>2. \A u \in Publishers : at'[u] \in {"keep", "save"} /\ request'[u].op = "publish"
                                 => request'[u].n \in accepted'
    BY <1>0, <1>1, <1>4 DEF OnlyPublications
  <2> QED
    BY <2>1, <2>2 DEF OnlyPublications
<1>8. CutOff \subseteq CutOff' \cup {request[t].n}
  BY <1>1, <1>4 DEF CutOff
<1>9. AcceptedIsRecorded'
  BY <1>0, <1>1, <1>2, <1>3, <1>8 DEF AcceptedIsRecorded
<1> QED
  BY <1>6, <1>7, <1>9 DEF PubInv

LEMMA PubStep == PubInv /\ [PubNext]_pubVars => PubInv'
<1> SUFFICES ASSUME PubInv, [PubNext]_pubVars PROVE PubInv'
  OBVIOUS
<1>1. ASSUME NEW t \in Publishers, ServePublisher(t)
      PROVE  PubInv'
  BY <1>1, ProceedsOK, ArrivesOK, ReadPolicyArrives, DeleteArrives, PublishArrives,
     StatusArrives, StepsProceed, PostOK, SaveOK, SaveFailsOK DEF ServePublisher
<1>2. CASE WorksRestarts
  BY <1>2 DEF WorksRestarts, policyVars, PubInv, Numbered, OnlyPublications,
              AcceptedIsRecorded, RequestOK, Busy, CutOff
<1>3. CASE PubCrash
  <2>1. /\ at' = [t \in Publishers |-> "idle"] /\ request' = [t \in Publishers |-> Idle]
        /\ unheard' = unheard \cup (CutOff \cap accepted)
        /\ UNCHANGED <<publications, taken, accepted>>
    BY <1>3 DEF PubCrash
  <2>2. \A t \in Publishers : ~Busy(t)' /\ at'[t] \notin {"keep", "save"}
    BY <2>1 DEF Busy, PubSteps
  <2>3. Numbered' /\ OnlyPublications'
    BY <2>1, <2>2 DEF PubInv, Numbered, RequestOK, OnlyPublications
  <2>4. AcceptedIsRecorded'
    BY <2>1 DEF PubInv, AcceptedIsRecorded
  <2> QED
    BY <2>3, <2>4 DEF PubInv
<1>4. CASE UNCHANGED pubVars
  BY <1>4 DEF pubVars, PubInv, Numbered, OnlyPublications, AcceptedIsRecorded,
              RequestOK, Busy, CutOff
<1> QED
  BY <1>1, <1>2, <1>3, <1>4 DEF PubNext

LEMMA PubInvInit == PubInit => PubInv
BY DEF PubInit, PubInv, Numbered, OnlyPublications, AcceptedIsRecorded, RequestOK,
       Busy, PubSteps

(* What a destination accepted has its row, or is about to get it, or its  *)
(* answer was lost; and nothing else has a row.                            *)
THEOREM AcceptedOnesAreRecorded == PubSpec => []AcceptedIsRecorded
<1>1. PubInv => AcceptedIsRecorded
  BY DEF PubInv
<1> QED
  BY <1>1, PubInvInit, PubStep, PTL DEF PubSpec

-----------------------------------------------------------------------------
(* Tenant policies.  Without an overlap there is one update at a time, and *)
(* it carries what it makes of the policy in force; one that runs alone is *)
(* the only one, and what it is about to write is what is in memory.       *)
OneUpdate ==
    ~lost => /\ policies = intended
             /\ \A t, u \in Updating : t = u
             /\ \A t \in Publishers : at[t] = "put" =>
                   request[t].policy = Merged(request[t].update, policies)

AloneOK(t) ==
    request[t].alone => /\ Updating = {t}
                        /\ at[t] = "persist" => policies = request[t].policy

RowOK == ~doubtful => /\ \A t \in Updating : request[t].alone
                      /\ Updating = {} => policyRow \in {policies, NoRow}

PolicyOK == OneUpdate /\ (\A t \in Updating : AloneOK(t)) /\ RowOK

(* A step that has nothing to do with the policy.                          *)
Quiet(t) ==
    /\ at[t] \notin {"put", "persist"} /\ at'[t] \notin {"put", "persist"}
    /\ \A u \in Publishers \ {t} : at'[u] = at[u] /\ request'[u] = request[u]
    /\ UNCHANGED policyVars

LEMMA QuietOK ==
    ASSUME PolicyOK, NEW t \in Publishers, Quiet(t)
    PROVE  PolicyOK'
<1>1. Updating' = Updating /\ t \notin Updating
  BY DEF Quiet, Updating
<1>2. \A u \in Updating : request'[u] = request[u] /\ at'[u] = at[u]
  BY <1>1 DEF Quiet, Updating
<1>3. UNCHANGED <<policies, policyRow, intended, lost, doubtful>>
  BY DEF Quiet, policyVars
<1>4. OneUpdate'
  <2>1. ASSUME NEW u \in Publishers, at'[u] = "put"
        PROVE  u \in Updating /\ at[u] = "put"
    BY <2>1, <1>1, <1>2 DEF Updating
  <2> QED
    BY <1>1, <1>2, <1>3, <2>1 DEF PolicyOK, OneUpdate, Merged
<1>5. \A u \in Updating' : AloneOK(u)'
  BY <1>1, <1>2, <1>3 DEF PolicyOK, AloneOK
<1>6. RowOK'
  BY <1>1, <1>2, <1>3 DEF PolicyOK, RowOK
<1> QED
  BY <1>4, <1>5, <1>6 DEF PolicyOK

LEMMA TakesAreQuiet ==
    ASSUME PubInv, NEW t \in Publishers,
           \/ AskDelete(t)
           \/ \E i \in Articles, d \in Destinations : AskPublish(t, i, d)
           \/ \E i \in Articles : AskStatus(t, i)
    PROVE  Quiet(t)
<1>0. DOMAIN at = Publishers /\ DOMAIN request = Publishers
  BY DEF PubInv, Numbered
<1> DEFINE Taken == /\ ~Busy(t) /\ UNCHANGED policyVars
                    /\ \E step \in {"delete", "route", "rows"} : GoTo(t, step)
                    /\ \E r : Locals(t, r)
<1>1. Taken
  <2>1. CASE AskDelete(t)
    BY <2>1 DEF AskDelete, Take
  <2>2. ASSUME NEW i \in Articles, NEW d \in Destinations, AskPublish(t, i, d)
        PROVE  Taken
    BY <2>2 DEF AskPublish, Take
  <2>3. ASSUME NEW i \in Articles, AskStatus(t, i)
        PROVE  Taken
    BY <2>3 DEF AskStatus, Take
  <2> QED
    BY <2>1, <2>2, <2>3
<1> QED
  BY <1>0, <1>1 DEF Locals, GoTo, Quiet, Busy, PubSteps

LEMMA RepliesAreQuiet ==
    ASSUME PubInv, NEW t \in Publishers,
           \/ Route(t) \/ Post(t) \/ PostFails(t) \/ KeepToken(t) \/ Save(t)
           \/ SaveFails(t) \/ FindRows(t) \/ Fetch(t)
    PROVE  Quiet(t)
<1>0. DOMAIN at = Publishers
  BY DEF PubInv, Numbered
<1>1. /\ request' = request /\ UNCHANGED policyVars
      /\ at[t] \in {"route", "post", "keep", "save", "rows", "fetch", "refetch"}
      /\ \E p \in PubAnswered \cup {"token", "post", "keep", "save", "reenroll"} :
            at' = [at EXCEPT ![t] = p]
  <2>1. CASE Route(t)
    BY <2>1 DEF Route, Reply, GoTo, PubAnswered
  <2>2. CASE Post(t)
    BY <2>2 DEF Post, Reply, GoTo, PubAnswered
  <2>3. CASE PostFails(t)
    <3>1. \/ Reply(t, "bad_gateway") \/ Reply(t, "unauthorized")
      BY <2>3 DEF PostFails
    <3> QED
      BY <2>3, <3>1 DEF PostFails, Reply, GoTo, PubAnswered
  <2>4. CASE KeepToken(t) \/ Save(t) \/ SaveFails(t)
    BY <2>4 DEF KeepToken, Save, SaveFails, Reply, GoTo, PubAnswered
  <2>5. CASE FindRows(t) \/ Fetch(t)
    BY <2>5 DEF FindRows, Fetch, Reply, GoTo, PubAnswered
  <2> QED
    BY <2>1, <2>2, <2>3, <2>4, <2>5
<1>2. PICK p \in PubAnswered \cup {"token", "post", "keep", "save", "reenroll"} :
            at' = [at EXCEPT ![t] = p]
  BY <1>1
<1> QED
  BY <1>0, <1>1, <1>2 DEF Quiet, PubAnswered

LEMMA TokensAreQuiet ==
    ASSUME PubInv, NEW t \in Publishers, ReadToken(t) \/ Enroll(t)
    PROVE  Quiet(t)
<1>0. DOMAIN at = Publishers /\ DOMAIN request = Publishers
  BY DEF PubInv, Numbered
<1>1. at[t] \in {"token", "enroll", "reenroll"} /\ UNCHANGED policyVars
  BY DEF ReadToken, Enroll
<1>2. \E r : request' = request \/ request' = [request EXCEPT ![t] = r]
  BY DEF ReadToken, Enroll, Locals, Reply
<1>3. \E p \in {"bad_gateway", "enroll", "refetch", "post", "fetch"} :
         at' = [at EXCEPT ![t] = p]
  BY DEF ReadToken, Enroll, GoTo, Reply, NextCall
<1> QED
  BY <1>0, <1>1, <1>2, <1>3 DEF Quiet

LEMMA ReadPolicyOK ==
    ASSUME PubInv, PolicyOK, NEW t \in Publishers, NEW u \in Updates, ReadPolicy(t, u)
    PROVE  PolicyOK'
<1>0. DOMAIN at = Publishers /\ DOMAIN request = Publishers
  BY DEF PubInv, Numbered
<1>1. PICK mine : /\ mine.update = u /\ mine.policy = Merged(u, policies)
                  /\ mine.alone = (Updating = {})
                  /\ request' = [s \in Publishers |->
                        IF s = t THEN mine
                        ELSE IF s \in Updating
                             THEN [request[s] EXCEPT !.alone = FALSE]
                             ELSE request[s]]
  <2>1. PICK mine : mine = [Blank(taken + 1) EXCEPT !.op = "update", !.update = u,
                              !.policy = Merged(u, policies),
                              !.alone = ~(Updating # {})]
    OBVIOUS
  <2>2. /\ mine.update = u /\ mine.policy = Merged(u, policies)
        /\ mine.alone = ~(Updating # {})
    BY <2>1 DEF Blank
  <2> QED
    BY <2>1, <2>2 DEF ReadPolicy
<1>2. /\ at[t] \notin {"put", "persist"} /\ at' = [at EXCEPT ![t] = "put"]
      /\ UNCHANGED <<policies, policyRow, intended>>
      /\ lost' = (lost \/ Updating # {}) /\ doubtful' = (doubtful \/ Updating # {})
  BY DEF ReadPolicy, Take, GoTo, Busy, PubSteps
<1>3. t \notin Updating /\ Updating' = Updating \cup {t}
  BY <1>0, <1>2 DEF Updating
<1>4. ASSUME NEW s \in Updating
      PROVE  s # t /\ at'[s] = at[s] /\ request'[s].alone = FALSE
  <2>1. DOMAIN request[s] = RequestFields
    BY DEF Updating, PubInv, Numbered, RequestOK, Busy, PubSteps
  <2>2. s # t /\ s \in Publishers
    BY <1>3 DEF Updating
  <2> QED
    BY <1>0, <1>1, <1>2, <2>1, <2>2 DEF RequestFields
<1>5. request'[t] = mine /\ at'[t] = "put"
  BY <1>0, <1>1, <1>2
<1>6. OneUpdate'
  <2>1. SUFFICES ASSUME ~lost' PROVE OneUpdate'
    BY DEF OneUpdate
  <2>2. ~lost /\ Updating = {}
    BY <1>2, <2>1
  <2>3. \A s \in Publishers : at'[s] = "put" => s = t
    BY <1>0, <1>2, <2>2 DEF Updating
  <2> QED
    BY <1>1, <1>2, <1>3, <1>5, <2>2, <2>3 DEF PolicyOK, OneUpdate, Merged
<1>7. \A s \in Updating' : AloneOK(s)'
  BY <1>1, <1>3, <1>4, <1>5 DEF AloneOK
<1>8. RowOK'
  BY <1>1, <1>2, <1>3, <1>5 DEF RowOK
<1> QED
  BY <1>6, <1>7, <1>8 DEF PolicyOK

LEMMA PutOK ==
    ASSUME PubInv, PolicyOK, NEW t \in Publishers, PutPolicyInMemory(t)
    PROVE  PolicyOK'
<1>0. DOMAIN at = Publishers /\ DOMAIN request = Publishers
  BY DEF PubInv, Numbered
<1>1. /\ at[t] = "put" /\ at' = [at EXCEPT ![t] = "persist"]
      /\ policies' = request[t].policy
      /\ intended' = Merged(request[t].update, intended)
      /\ UNCHANGED <<policyRow, lost, doubtful, request>>
  BY DEF PutPolicyInMemory, GoTo, Merged
<1>2. Updating' = Updating /\ t \in Updating
  BY <1>0, <1>1 DEF Updating
<1>3. OneUpdate'
  <2>1. SUFFICES ASSUME ~lost' PROVE OneUpdate'
    BY DEF OneUpdate
  <2>2. /\ policies = intended /\ \A s, u \in Updating : s = u
        /\ request[t].policy = Merged(request[t].update, policies)
    BY <1>1, <2>1 DEF PolicyOK, OneUpdate
  <2>3. \A s \in Publishers : at'[s] # "put"
    <3>1. \A s \in Publishers : s # t => s \notin Updating
      BY <1>2, <2>2
    <3> QED
      BY <1>0, <1>1, <3>1 DEF Updating
  <2> QED
    BY <1>1, <1>2, <2>2, <2>3 DEF OneUpdate
<1>4. ASSUME NEW s \in Updating', request'[s].alone
      PROVE  Updating' = {s} /\ policies' = request'[s].policy
  <2>1. Updating = {s}
    BY <1>1, <1>2, <1>4 DEF PolicyOK, AloneOK
  <2> QED
    BY <1>1, <1>2, <2>1
<1>5. RowOK'
  BY <1>1, <1>2 DEF PolicyOK, RowOK
<1> QED
  BY <1>3, <1>4, <1>5 DEF PolicyOK, AloneOK

(* The write of the table, done or failed.                                 *)
LEMMA PersistOK ==
    ASSUME PubInv, PolicyOK, NEW t \in Publishers,
           PersistPolicy(t) \/ PersistFails(t)
    PROVE  PolicyOK'
<1>0. DOMAIN at = Publishers /\ DOMAIN request = Publishers
  BY DEF PubInv, Numbered
<1>1. /\ at[t] = "persist" /\ at' = [at EXCEPT ![t] = "ok"]
      /\ UNCHANGED <<policies, lost, intended, request>>
      /\ \/ policyRow' = request[t].policy /\ doubtful' = (doubtful /\ ~request[t].alone)
         \/ doubtful' = TRUE
  BY DEF PersistPolicy, PersistFails, Reply, GoTo
<1>2. Updating' = Updating \ {t} /\ t \in Updating
  BY <1>0, <1>1 DEF Updating
<1>3. \A s \in Publishers : at'[s] \in {"put", "persist"} => s # t /\ at'[s] = at[s]
  BY <1>0, <1>1
<1>4. OneUpdate'
  BY <1>1, <1>2, <1>3 DEF PolicyOK, OneUpdate, Merged
<1>5. \A s \in Updating' : ~request'[s].alone
  BY <1>1, <1>2 DEF PolicyOK, AloneOK
<1>6. RowOK'
  <2>1. SUFFICES ASSUME ~doubtful' PROVE RowOK'
    BY DEF RowOK
  <2>2. request[t].alone /\ policyRow' = request[t].policy
    BY <1>1, <1>2, <2>1 DEF PolicyOK, RowOK
  <2>3. Updating = {t} /\ policies = request[t].policy
    BY <1>1, <1>2, <2>2 DEF PolicyOK, AloneOK
  <2> QED
    BY <1>1, <1>2, <2>2, <2>3 DEF RowOK
<1> QED
  BY <1>4, <1>5, <1>6 DEF PolicyOK, AloneOK

LEMMA DeleteRowOK ==
    ASSUME PubInv, PolicyOK, NEW t \in Publishers, DeleteRow(t)
    PROVE  PolicyOK'
<1>0. DOMAIN at = Publishers /\ DOMAIN request = Publishers
  BY DEF PubInv, Numbered
<1>1. /\ at[t] = "delete" /\ doubtful' = TRUE
      /\ UNCHANGED <<policies, lost, intended, request>>
      /\ \A s \in Publishers \ {t} : at'[s] = at[s]
      /\ at'[t] \notin {"put", "persist"}
  BY <1>0 DEF DeleteRow, Reply, GoTo
<1>2. Updating' = Updating /\ t \notin Updating
  BY <1>1 DEF Updating
<1>3. \A s \in Updating : at'[s] = at[s]
  BY <1>1, <1>2 DEF Updating
<1>4. OneUpdate'
  <2>1. \A s \in Publishers : at'[s] = "put" => at[s] = "put"
    BY <1>1
  <2> QED
    BY <1>1, <1>2, <2>1 DEF PolicyOK, OneUpdate, Merged
<1>5. \A s \in Updating' : AloneOK(s)'
  BY <1>1, <1>2, <1>3 DEF PolicyOK, AloneOK
<1> QED
  BY <1>1, <1>4, <1>5 DEF PolicyOK, RowOK

LEMMA PolicyStep == PubInv /\ PolicyOK /\ [PubNext]_pubVars => PolicyOK'
<1> SUFFICES ASSUME PubInv, PolicyOK, [PubNext]_pubVars PROVE PolicyOK'
  OBVIOUS
<1>1. ASSUME NEW t \in Publishers, ServePublisher(t)
      PROVE  PolicyOK'
  BY <1>1, QuietOK, TakesAreQuiet, RepliesAreQuiet, TokensAreQuiet, ReadPolicyOK,
     PutOK, PersistOK, DeleteRowOK DEF ServePublisher
<1>2. CASE WorksRestarts
  BY <1>2 DEF WorksRestarts, policyVars, PolicyOK, OneUpdate, AloneOK, RowOK,
              Updating, Merged
<1>3. CASE PubCrash
  <2>1. /\ at' = [t \in Publishers |-> "idle"] /\ policies' = intended'
        /\ doubtful' = TRUE
    BY <1>3 DEF PubCrash
  <2>2. Updating' = {} /\ \A t \in Publishers : at'[t] # "put"
    BY <2>1 DEF Updating
  <2> QED
    BY <2>1, <2>2 DEF PolicyOK, OneUpdate, RowOK
<1>4. CASE UNCHANGED pubVars
  BY <1>4 DEF pubVars, PolicyOK, OneUpdate, AloneOK, RowOK, Updating, Merged
<1> QED
  BY <1>1, <1>2, <1>3, <1>4 DEF PubNext

(* Updates that do not overlap add up, in memory; and an update that runs  *)
(* alone brings the table in line with the memory.                         *)
THEOREM UpdatesAddUp == PubSpec => []PolicyIsKept
<1>1. PubInit => PolicyOK
  BY DEF PubInit, PolicyOK, OneUpdate, RowOK, Updating
<1>2. PolicyOK => PolicyIsKept
  BY DEF PolicyOK, OneUpdate, RowOK, PolicyIsKept
<1> QED
  BY <1>1, <1>2, PubInvInit, PubStep, PolicyStep, PTL DEF PubSpec

-----------------------------------------------------------------------------
(* The keys of the data plane.                                             *)
Key == [name : KeyNames, active : BOOLEAN]

(* Rows are never removed or renamed, and never become active again.       *)
Grown == /\ apiKeys' \in Seq(Key)
         /\ Known \subseteq DOMAIN apiKeys'
         /\ \A k \in Known : /\ apiKeys'[k].name = apiKeys[k].name
                             /\ apiKeys'[k].active => apiKeys[k].active

LEMMA DeactivatedRows ==
    ASSUME apiKeys \in Seq(Key), NEW k \in Known
    PROVE  /\ Deactivated(k) \in Seq(Key)
           /\ DOMAIN Deactivated(k) = Known
           /\ Len(Deactivated(k)) = Len(apiKeys)
           /\ Deactivated(k)[k].name = apiKeys[k].name
           /\ ~Deactivated(k)[k].active
           /\ \A j \in Known \ {k} : Deactivated(k)[j] = apiKeys[j]
<1>1. apiKeys[k] \in Key
  BY DEF Known
<1>2. [apiKeys[k] EXCEPT !.active = FALSE] \in Key
  BY <1>1 DEF Key
<1> QED
  BY <1>1, <1>2 DEF Deactivated, Known, Key

LEMMA InsertedRow ==
    ASSUME apiKeys \in Seq(Key), NEW n \in KeyNames
    PROVE  /\ Inserted(n) \in Seq(Key)
           /\ DOMAIN Inserted(n) = Known \cup {Len(apiKeys) + 1}
           /\ Len(Inserted(n)) = Len(apiKeys) + 1
           /\ Inserted(n)[Len(apiKeys) + 1] = [name |-> n, active |-> TRUE]
           /\ \A j \in Known : Inserted(n)[j] = apiKeys[j]
<1>1. [name |-> n, active |-> TRUE] \in Key
  BY DEF Key
<1> QED
  BY <1>1 DEF Inserted, Known

-----------------------------------------------------------------------------
(* A rotation in progress knows the name of the key it replaces.           *)
Rotations ==
    \A t \in Admins : admin[t].op \in {"deactivate", "successor"} =>
        /\ admin[t].key \in Known
        /\ admin[t].name = apiKeys[admin[t].key].name

KeyOK == KeysTypeOK /\ Rotations

(* What a step does to the rows, by the action.                            *)
LEMMA RowsOnlyGrow ==
    ASSUME KeyOK, [KeysNext]_keyVars
    PROVE  Grown
<1>1. apiKeys \in Seq(Key)
  BY DEF KeyOK, KeysTypeOK, Key
<1>2. CASE UNCHANGED apiKeys
  BY <1>1, <1>2 DEF Grown, Known
<1>3. ASSUME NEW k \in Known, apiKeys' = Deactivated(k)
      PROVE  Grown
  BY <1>1, <1>3, DeactivatedRows DEF Grown, Known
<1>4. ASSUME NEW n \in KeyNames, apiKeys' = Inserted(n)
      PROVE  Grown
  BY <1>1, <1>4, InsertedRow DEF Grown, Known
<1>5. ASSUME NEW t \in Admins, Deactivate(t)
      PROVE  Grown
  BY <1>3, <1>5 DEF Deactivate, KeyOK, Rotations
<1>6. ASSUME NEW t \in Admins, Insert(t)
      PROVE  Grown
  BY <1>4, <1>6 DEF Insert, KeyOK, KeysTypeOK
<1>7. ASSUME NEW t \in Admins, NEW k \in Known, Revoke(t, k)
      PROVE  Grown
  BY <1>3, <1>7 DEF Revoke
<1>8. ASSUME KeysNext, apiKeys' # apiKeys
      PROVE  \E t \in Admins : \/ Deactivate(t) \/ Insert(t)
                               \/ \E k \in Known : Revoke(t, k)
  BY <1>8 DEF KeysNext, AskCreate, AskRotate, InsertFails, Present, Gate, Auth,
              KeysCrash
<1> QED
  BY <1>2, <1>5, <1>6, <1>7, <1>8 DEF keyVars

LEMMA KeyOKInit == KeysInit => KeyOK
<1>1. ASSUME KeysInit
      PROVE  KeysTypeOK
  BY <1>1, ApiKeysAssumption DEF KeysInit, KeysTypeOK, NoRequest, NoCall, Known
<1> QED
  BY <1>1 DEF KeyOK, Rotations, KeysInit, NoRequest

(* What the types say of one administrator and one caller, over any table. *)
AdminOK(r, rows) ==
    /\ r \in [op : {"none", "insert", "deactivate", "successor"},
              key : DOMAIN rows \cup {0}, name : KeyNames \cup {"none"}]
    /\ r.op # "none" => r.name \in KeyNames
    /\ r.op \in {"deactivate", "successor"} => /\ r.key \in DOMAIN rows
                                               /\ r.name = rows[r.key].name

CallerOK(r, rows) ==
    /\ r \in [at : {"idle", "gate", "auth", "served", "refused"},
              key : DOMAIN rows \cup {0}, late : BOOLEAN]
    /\ r.at # "idle" => r.key \in DOMAIN rows

LEMMA KeyOKByPart ==
    KeyOK <=> /\ apiKeys \in Seq(Key) /\ Len(apiKeys) <= MaxApiKeys
              /\ secured \in BOOLEAN
              /\ admin = [t \in Admins |-> admin[t]]
              /\ \A t \in Admins : AdminOK(admin[t], apiKeys)
              /\ caller = [c \in Callers |-> caller[c]]
              /\ \A c \in Callers : CallerOK(caller[c], apiKeys)
              /\ revoked \subseteq DOMAIN apiKeys /\ cut \subseteq KeyNames
  BY DEF KeyOK, KeysTypeOK, Rotations, AdminOK, CallerOK, Known, Key

LEMMA KeyOKByPartNext ==
    KeyOK' <=> /\ apiKeys' \in Seq(Key) /\ Len(apiKeys') <= MaxApiKeys
               /\ secured' \in BOOLEAN
               /\ admin' = [t \in Admins |-> admin'[t]]
               /\ \A t \in Admins : AdminOK(admin'[t], apiKeys')
               /\ caller' = [c \in Callers |-> caller'[c]]
               /\ \A c \in Callers : CallerOK(caller'[c], apiKeys')
               /\ revoked' \subseteq DOMAIN apiKeys' /\ cut' \subseteq KeyNames
  BY DEF KeyOK, KeysTypeOK, Rotations, AdminOK, CallerOK, Known, Key

LEMMA KeyOKStep ==
    ASSUME KeyOK, [KeysNext]_keyVars
    PROVE  KeyOK'
<1>1. Grown
  BY RowsOnlyGrow
<1>2. /\ apiKeys \in Seq(Key) /\ Len(apiKeys) <= MaxApiKeys
      /\ admin = [t \in Admins |-> admin[t]]
      /\ \A t \in Admins : AdminOK(admin[t], apiKeys)
      /\ caller = [c \in Callers |-> caller[c]]
      /\ \A c \in Callers : CallerOK(caller[c], apiKeys)
      /\ secured \in BOOLEAN
      /\ revoked \subseteq DOMAIN apiKeys /\ cut \subseteq KeyNames
  BY KeyOKByPart
(* Who stood well over the old table stands well over the new one.         *)
<1>3. ASSUME NEW r, AdminOK(r, apiKeys)
      PROVE  AdminOK(r, apiKeys')
  BY <1>1, <1>3 DEF AdminOK, Grown, Known
<1>4. ASSUME NEW r, CallerOK(r, apiKeys)
      PROVE  CallerOK(r, apiKeys')
  BY <1>1, <1>4 DEF CallerOK, Grown, Known
<1>5. AdminOK(NoRequest, apiKeys') /\ CallerOK(NoCall, apiKeys')
  BY DEF AdminOK, CallerOK, NoRequest, NoCall
<1>6. ASSUME UNCHANGED keyVars PROVE KeyOK'
  BY <1>6, <1>2, KeyOKByPartNext DEF keyVars
(* A step of administrator t: only its own request changes.                *)
<1>7. ASSUME NEW t \in Admins, NEW r, AdminOK(r, apiKeys'),
             admin' = [admin EXCEPT ![t] = r], UNCHANGED <<secured, caller>>,
             Len(apiKeys') <= MaxApiKeys,
             revoked' \subseteq DOMAIN apiKeys', cut' \subseteq KeyNames
      PROVE  KeyOK'
  <2>1. admin' = [s \in Admins |-> IF s = t THEN r ELSE admin[s]]
    BY <1>2, <1>7
  <2>2. \A s \in Admins : AdminOK(admin'[s], apiKeys')
    BY <1>2, <1>3, <1>7, <2>1
  <2>3. admin' = [s \in Admins |-> admin'[s]]
    BY <2>1
  <2>4. \A c \in Callers : CallerOK(caller'[c], apiKeys')
    BY <1>2, <1>4, <1>7
  <2> QED
    BY <1>1, <1>2, <1>7, <2>2, <2>3, <2>4, KeyOKByPartNext DEF Grown
<1>8. ASSUME NEW t \in Admins, NEW n \in KeyNames, AskCreate(t, n)
      PROVE  KeyOK'
  <2>1. AdminOK([op |-> "insert", key |-> 0, name |-> n], apiKeys')
    BY DEF AdminOK
  <2> QED
    BY <1>2, <1>7, <1>8, <2>1 DEF AskCreate, Ask
<1>9. ASSUME NEW t \in Admins, NEW k \in Known, AskRotate(t, k)
      PROVE  KeyOK'
  <2>1. apiKeys[k] \in Key
    BY <1>2 DEF Known
  <2>2. AdminOK([op |-> "deactivate", key |-> k, name |-> apiKeys[k].name], apiKeys')
    BY <1>9, <2>1 DEF AdminOK, AskRotate, Known, Key
  <2> QED
    BY <1>2, <1>7, <1>9, <2>2 DEF AskRotate, Ask
<1>10. ASSUME NEW t \in Admins, NEW k \in Known, Revoke(t, k)
       PROVE  KeyOK'
  <2>1. Len(apiKeys') = Len(apiKeys) /\ DOMAIN apiKeys' = Known
    BY <1>2, <1>10, DeactivatedRows DEF Revoke
  <2>2. \A s \in Admins : AdminOK(admin'[s], apiKeys')
    BY <1>2, <1>3, <1>10 DEF Revoke
  <2>3. \A c \in Callers : CallerOK(caller'[c], apiKeys')
    BY <1>2, <1>4, <1>10 DEF Revoke
  <2> QED
    BY <1>1, <1>2, <1>10, <2>1, <2>2, <2>3, KeyOKByPartNext
    DEF Revoke, Known, Grown
<1>11. ASSUME NEW t \in Admins, Deactivate(t)
       PROVE  KeyOK'
  <2>1. admin[t].key \in Known
    BY <1>2, <1>11 DEF Deactivate, AdminOK, Known
  <2>2. Len(apiKeys') = Len(apiKeys) /\ DOMAIN apiKeys' = Known
    BY <1>2, <1>11, <2>1, DeactivatedRows DEF Deactivate
  <2>3. admin' = [admin EXCEPT ![t] = [admin[t] EXCEPT !.op = "successor"]]
    BY <1>2, <1>11 DEF Deactivate
  <2>4. AdminOK([admin[t] EXCEPT !.op = "successor"], apiKeys)
    BY <1>2, <1>11 DEF Deactivate, AdminOK
  <2> QED
    BY <1>2, <1>3, <1>7, <1>11, <2>2, <2>3, <2>4 DEF Deactivate, Known
<1>12. ASSUME NEW t \in Admins, Insert(t)
       PROVE  KeyOK'
  <2>1. admin[t].name \in KeyNames
    BY <1>2, <1>12 DEF Insert, AdminOK
  <2>2. Len(apiKeys') = Len(apiKeys) + 1 /\ Known \subseteq DOMAIN apiKeys'
    BY <1>2, <1>12, <2>1, InsertedRow DEF Insert
  <2>3. Len(apiKeys') <= MaxApiKeys
    BY <1>2, <1>12, <2>2, ApiKeysAssumption DEF Insert
  <2> QED
    BY <1>2, <1>5, <1>7, <1>12, <2>2, <2>3 DEF Insert, Done, Known
<1>13. ASSUME NEW t \in Admins, InsertFails(t)
       PROVE  KeyOK'
  <2>1. admin[t].name \in KeyNames
    BY <1>2, <1>13 DEF InsertFails, AdminOK
  <2> QED
    BY <1>2, <1>5, <1>7, <1>13, <2>1 DEF InsertFails, Done
(* A step of caller c: only its own record changes.                        *)
<1>14. ASSUME NEW c \in Callers, NEW r, CallerOK(r, apiKeys),
              caller' = [caller EXCEPT ![c] = r],
              UNCHANGED <<apiKeys, secured, admin, revoked, cut>>
       PROVE  KeyOK'
  <2>1. caller' = [d \in Callers |-> IF d = c THEN r ELSE caller[d]]
    BY <1>2, <1>14
  <2>2. \A d \in Callers : CallerOK(caller'[d], apiKeys')
    BY <1>2, <1>14, <2>1
  <2>3. caller' = [d \in Callers |-> caller'[d]]
    BY <2>1
  <2> QED
    BY <1>2, <1>14, <2>2, <2>3, KeyOKByPartNext
<1>15. ASSUME NEW c \in Callers, NEW k \in Known, Present(c, k)
       PROVE  KeyOK'
  <2> DEFINE r == [at |-> IF secured THEN "gate" ELSE "auth", key |-> k,
                   late |-> ~apiKeys[k].active]
  <2>1. CallerOK(r, apiKeys)
    BY <1>2 DEF CallerOK, Known, Key
  <2>2. caller' = [caller EXCEPT ![c] = r]
    BY <1>15 DEF Present
  <2> HIDE DEF r
  <2> QED
    BY <1>14, <1>15, <2>1, <2>2 DEF Present
<1>16. ASSUME NEW c \in Callers, NEW where \in {"auth", "served", "refused"},
              caller[c].at # "idle", caller' = [caller EXCEPT ![c].at = where],
              UNCHANGED <<apiKeys, secured, admin, revoked, cut>>
       PROVE  KeyOK'
  <2>1. CallerOK([caller[c] EXCEPT !.at = where], apiKeys)
    BY <1>2, <1>16 DEF CallerOK
  <2>2. caller' = [caller EXCEPT ![c] = [caller[c] EXCEPT !.at = where]]
    BY <1>2, <1>16
  <2> QED
    BY <1>14, <1>16, <2>1, <2>2
<1>17. ASSUME NEW c \in Callers, Gate(c) \/ Auth(c)
       PROVE  KeyOK'
  <2>1. PICK where \in {"auth", "served", "refused"} :
           caller' = [caller EXCEPT ![c].at = where]
    BY <1>17 DEF Gate, Auth, Verdict
  <2> QED
    BY <1>16, <1>17, <2>1 DEF Gate, Auth
<1>18. CASE KeysCrash
  <2>1. cut' \subseteq KeyNames
    BY <1>2, <1>18 DEF KeysCrash, Rotating, AdminOK
  <2>2. admin' = [t \in Admins |-> NoRequest] /\ caller' = [c \in Callers |-> NoCall]
    BY <1>18 DEF KeysCrash
  <2>3. /\ admin' = [t \in Admins |-> admin'[t]]
        /\ caller' = [c \in Callers |-> caller'[c]]
    BY <2>2
  <2>4. /\ \A t \in Admins : AdminOK(admin'[t], apiKeys')
        /\ \A c \in Callers : CallerOK(caller'[c], apiKeys')
    BY <1>5, <2>2
  <2> QED
    BY <1>2, <1>18, <2>1, <2>3, <2>4, KeyOKByPartNext DEF KeysCrash
<1> QED
  BY <1>6, <1>8, <1>9, <1>10, <1>11, <1>12, <1>13, <1>15, <1>17, <1>18 DEF KeysNext

LEMMA KeyOKAlways == KeysSpec => []KeyOK
  BY KeyOKInit, KeyOKStep, PTL DEF KeysSpec

(* The types of the table, the requests and the callers.                   *)
THEOREM KeysTypeCorrect == KeysSpec => []KeysTypeOK
  BY KeyOKAlways, PTL DEF KeyOK

-----------------------------------------------------------------------------
(* A late caller's key is inactive, for good, and it has not been served.  *)
LateKeysAreDead ==
    \A c \in Callers : caller[c].at # "idle" /\ caller[c].late =>
        ~apiKeys[caller[c].key].active /\ caller[c].at # "served"

LEMMA LateStep ==
    ASSUME KeyOK, LateKeysAreDead, [KeysNext]_keyVars
    PROVE  LateKeysAreDead'
<1>1. Grown
  BY RowsOnlyGrow
<1>2. /\ caller = [c \in Callers |-> caller[c]]
      /\ \A c \in Callers : CallerOK(caller[c], apiKeys)
  BY KeyOKByPart
<1>3. SUFFICES ASSUME NEW c \in Callers,
                      caller'[c].at # "idle", caller'[c].late
               PROVE  /\ ~apiKeys'[caller'[c].key].active
                      /\ caller'[c].at # "served"
  BY DEF LateKeysAreDead
<1>4. CASE caller'[c] = caller[c]
  <2>1. caller[c].key \in Known
    BY <1>2, <1>3, <1>4 DEF CallerOK, Known
  <2>2. ~apiKeys[caller[c].key].active /\ caller[c].at # "served"
    BY <1>3, <1>4 DEF LateKeysAreDead
  <2> QED
    BY <1>1, <1>4, <2>1, <2>2 DEF Grown
<1>5. ASSUME NEW k \in Known, Present(c, k)
      PROVE  /\ ~apiKeys'[caller'[c].key].active
             /\ caller'[c].at # "served"
  <2> DEFINE dead == ~apiKeys[k].active
             gate == IF secured THEN "gate" ELSE "auth"
  <2>1. caller'[c] = [at |-> gate, key |-> k, late |-> dead]
    BY <1>2, <1>5 DEF Present
  <2>2. apiKeys' = apiKeys
    BY <1>5 DEF Present
  <2>3. caller'[c].key = k /\ caller'[c].at # "served"
    BY <2>1
  <2> HIDE DEF dead, gate
  <2>4. caller'[c].late = dead
    BY <2>1
  <2>5. ~apiKeys[k].active
    BY <1>3, <2>4 DEF dead
  <2> QED
    BY <2>2, <2>3, <2>5
<1>6. CASE Gate(c) \/ Auth(c)
  <2>1. apiKeys' = apiKeys /\ caller[c].at # "idle"
    BY <1>6 DEF Gate, Auth
  <2>2. PICK passed \in {"auth", "served"} : Verdict(c, passed)
    BY <1>6 DEF Gate, Auth
  <2>3. caller'[c] = [caller[c] EXCEPT !.at =
            IF apiKeys[caller[c].key].active THEN passed ELSE "refused"]
    BY <1>2, <2>2 DEF Verdict
  <2>4. caller'[c].late = caller[c].late /\ caller'[c].key = caller[c].key
    BY <1>2, <2>3 DEF CallerOK
  <2>5. ~apiKeys[caller[c].key].active
    BY <1>3, <2>1, <2>4 DEF LateKeysAreDead
  <2>6. caller'[c].at = "refused"
    BY <1>2, <2>3, <2>5 DEF CallerOK
  <2> QED
    BY <2>1, <2>4, <2>5, <2>6
<1>7. CASE KeysCrash
  BY <1>3, <1>7 DEF KeysCrash, NoCall
<1>8. ASSUME KeysNext, caller'[c] # caller[c], ~KeysCrash
      PROVE  (\E k \in Known : Present(c, k)) \/ Gate(c) \/ Auth(c)
  <2>1. ASSUME NEW d \in Callers, d # c,
               (\E k \in Known : Present(d, k)) \/ Gate(d) \/ Auth(d)
        PROVE  FALSE
    BY <1>2, <1>8, <2>1 DEF Present, Gate, Auth, Verdict
  <2>2. UNCHANGED caller
          \/ \E d \in Callers : (\E k \in Known : Present(d, k)) \/ Gate(d) \/ Auth(d)
    BY <1>8 DEF KeysNext, AskCreate, AskRotate, Revoke, Deactivate, Insert,
                InsertFails
  <2> QED
    BY <1>8, <2>1, <2>2
<1> QED
  BY <1>4, <1>5, <1>6, <1>7, <1>8 DEF keyVars

(* A request that came with a deactivated key is never served, in the      *)
(* secured application and in the core alone, whatever the administrators  *)
(* do meanwhile.                                                           *)
THEOREM DeactivatedKeysAreRefused == KeysSpec => []RevokedIsRefused
<1>1. KeysInit => LateKeysAreDead
  BY DEF KeysInit, NoCall, LateKeysAreDead
<1>2. LateKeysAreDead => RevokedIsRefused
  BY DEF LateKeysAreDead, RevokedIsRefused
<1> QED
  BY <1>1, <1>2, KeyOKAlways, LateStep, PTL DEF KeysSpec

-----------------------------------------------------------------------------
(* What NameKeepsAKey says of one name, over any state.                    *)
HasKey(n, rows, asked, dead, requests) ==
    LET mine == {k \in DOMAIN rows : rows[k].name = n} IN
    \/ mine = {} \/ mine \cap asked # {} \/ n \in dead
    \/ \E k \in mine : rows[k].active
    \/ \E t \in Admins : requests[t].op = "successor" /\ requests[t].name = n

LEMMA ByName ==
    /\ NameKeepsAKey <=>
         \A n \in KeyNames : HasKey(n, apiKeys, revoked, cut, admin)
    /\ NameKeepsAKey' <=>
         \A n \in KeyNames : HasKey(n, apiKeys', revoked', cut', admin')
  BY DEF NameKeepsAKey, HasKey, Known, Rotating

LEMMA NameStep ==
    ASSUME KeyOK, NameKeepsAKey, [KeysNext]_keyVars
    PROVE  NameKeepsAKey'
<1>1. /\ apiKeys \in Seq(Key)
      /\ admin = [t \in Admins |-> admin[t]]
      /\ \A t \in Admins : AdminOK(admin[t], apiKeys)
      /\ revoked \subseteq DOMAIN apiKeys
  BY KeyOKByPart
<1>2. Grown
  BY RowsOnlyGrow
<1>3. SUFFICES ASSUME NEW n \in KeyNames
               PROVE  HasKey(n, apiKeys', revoked', cut', admin')
  BY ByName
<1>4. HasKey(n, apiKeys, revoked, cut, admin)
  BY ByName
<1>5. CASE UNCHANGED <<apiKeys, revoked, cut>>
           /\ \A t \in Admins : admin[t].op = "successor" => admin'[t] = admin[t]
  BY <1>4, <1>5 DEF HasKey
<1>6. ASSUME NEW t \in Admins, NEW k \in Known, Revoke(t, k)
      PROVE  HasKey(n, apiKeys', revoked', cut', admin')
  <2>1. DOMAIN apiKeys' = Known /\ \A j \in Known : apiKeys'[j].name = apiKeys[j].name
    BY <1>1, <1>2, <1>6, DeactivatedRows DEF Revoke, Grown
  <2>2. \A j \in Known \ {k} : apiKeys'[j] = apiKeys[j]
    BY <1>1, <1>6, DeactivatedRows DEF Revoke
  <2>3. admin' = admin /\ cut' = cut /\ revoked' = revoked \cup {k}
    BY <1>6 DEF Revoke
  <2>4. CASE apiKeys[k].name = n
    BY <2>1, <2>3, <2>4 DEF HasKey, Known
  <2>5. CASE apiKeys[k].name # n
    BY <1>4, <2>1, <2>2, <2>3, <2>5 DEF HasKey, Known
  <2> QED
    BY <2>4, <2>5
<1>7. ASSUME NEW t \in Admins, Deactivate(t)
      PROVE  HasKey(n, apiKeys', revoked', cut', admin')
  <2> DEFINE k == admin[t].key
  <2>1. k \in Known /\ admin[t].name = apiKeys[k].name
    BY <1>1, <1>7 DEF Deactivate, AdminOK, Known
  <2>2. DOMAIN apiKeys' = Known /\ \A j \in Known : apiKeys'[j].name = apiKeys[j].name
    BY <1>1, <1>2, <1>7, <2>1, DeactivatedRows DEF Deactivate, Grown
  <2>3. \A j \in Known \ {k} : apiKeys'[j] = apiKeys[j]
    BY <1>1, <1>7, <2>1, DeactivatedRows DEF Deactivate
  <2>4. /\ cut' = cut /\ revoked' = revoked
        /\ \A s \in Admins \ {t} : admin'[s] = admin[s]
        /\ admin'[t].op = "successor" /\ admin'[t].name = admin[t].name
    BY <1>1, <1>7 DEF Deactivate, AdminOK
  <2>5. CASE apiKeys[k].name = n
    BY <2>1, <2>4, <2>5 DEF HasKey
  <2>6. CASE apiKeys[k].name # n
    <3>1. admin[t].op # "successor"
      BY <1>7 DEF Deactivate
    <3> QED
      BY <1>4, <2>2, <2>3, <2>4, <2>6, <3>1 DEF HasKey, Known
  <2> QED
    BY <2>5, <2>6
<1>8. ASSUME NEW t \in Admins, Insert(t)
      PROVE  HasKey(n, apiKeys', revoked', cut', admin')
  <2> DEFINE new == Len(apiKeys) + 1
  <2>1. admin[t].name \in KeyNames
    BY <1>1, <1>8 DEF Insert, AdminOK
  <2>2. /\ DOMAIN apiKeys' = Known \cup {new}
        /\ apiKeys'[new] = [name |-> admin[t].name, active |-> TRUE]
        /\ \A j \in Known : apiKeys'[j] = apiKeys[j]
    BY <1>1, <1>8, <2>1, InsertedRow DEF Insert
  <2>3. /\ cut' = cut /\ revoked' = revoked
        /\ \A s \in Admins \ {t} : admin'[s] = admin[s]
    BY <1>1, <1>8 DEF Insert, Done
  <2>4. CASE admin[t].name = n
    BY <2>2, <2>4 DEF HasKey
  <2>5. CASE admin[t].name # n
    BY <1>4, <2>2, <2>3, <2>5 DEF HasKey, Known
  <2> QED
    BY <2>4, <2>5
<1>9. ASSUME NEW t \in Admins, InsertFails(t)
      PROVE  HasKey(n, apiKeys', revoked', cut', admin')
  <2>1. /\ apiKeys' = apiKeys /\ revoked' = revoked /\ cut \subseteq cut'
        /\ \A s \in Admins \ {t} : admin'[s] = admin[s]
        /\ admin[t].op = "successor" => admin[t].name \in cut'
    BY <1>1, <1>9 DEF InsertFails, Done
  <2> QED
    BY <1>4, <2>1 DEF HasKey
<1>10. CASE KeysCrash
  <2>1. /\ apiKeys' = apiKeys /\ revoked' = revoked /\ cut \subseteq cut'
        /\ \A s \in Admins : admin[s].op = "successor" => admin[s].name \in cut'
    BY <1>10 DEF KeysCrash, Rotating
  <2> QED
    BY <1>4, <2>1 DEF HasKey
<1>11. ASSUME NEW t \in Admins, NEW m \in KeyNames, AskCreate(t, m)
       PROVE  HasKey(n, apiKeys', revoked', cut', admin')
  BY <1>1, <1>5, <1>11 DEF AskCreate, Ask, NoRequest
<1>12. ASSUME NEW t \in Admins, NEW k \in Known, AskRotate(t, k)
       PROVE  HasKey(n, apiKeys', revoked', cut', admin')
  BY <1>1, <1>5, <1>12 DEF AskRotate, Ask, NoRequest
<1>13. ASSUME NEW c \in Callers, (\E k \in Known : Present(c, k)) \/ Gate(c) \/ Auth(c)
       PROVE  HasKey(n, apiKeys', revoked', cut', admin')
  BY <1>5, <1>13 DEF Present, Gate, Auth
<1>14. CASE UNCHANGED keyVars
  BY <1>5, <1>14 DEF keyVars
<1> QED
  BY <1>6, <1>7, <1>8, <1>9, <1>10, <1>11, <1>12, <1>13, <1>14 DEF KeysNext

(* However rotations, revocations and crashes interleave, a name loses its *)
(* last key only if somebody asked for it or a rotation was cut.           *)
THEOREM RotationsShutNobodyOut == KeysSpec => []NameKeepsAKey
<1>1. KeysInit => NameKeepsAKey
  BY DEF KeysInit, NameKeepsAKey, Known
<1> QED
  BY <1>1, KeyOKAlways, NameStep, PTL DEF KeysSpec

-----------------------------------------------------------------------------
(* Sensing.  Registrations of a signal that has never been mixed come one  *)
(* after the other: the one under way has read what is in the registry.    *)
Registers(t, s) == sensing[t] # NoRecord /\ sensing[t].signal = s

SignalOK(s) ==
    /\ registry[s] = NoCandidate => firsts[s] = 0 /\ sighted[s] = {}
    /\ registry[s] # NoCandidate =>
          /\ registry[s] \in Candidate
          /\ firsts[s] = 1 /\ sighted[s] # {}
          /\ registry[s].paths = sighted[s]
          /\ \/ registry[s].paths = registry[s].from.correlated
             \/ registry[s].kind = "attention_candidate"

OneByOne(s) ==
    /\ \A t \in Sensors : Registers(t, s) => sensing[t].existing = registry[s]
    /\ \A t, u \in Sensors : Registers(t, s) /\ Registers(u, s) => t = u

SensorsOK ==
    /\ sensing = [t \in Sensors |-> sensing[t]]
    /\ \A t \in Sensors : sensing[t] # NoRecord =>
          /\ sensing[t].signal \in Signals
          /\ sensing[t].record \in Records /\ Acceptable(sensing[t].record)

SenseTypes == /\ DOMAIN registry = Signals /\ DOMAIN sighted = Signals
              /\ DOMAIN firsts = Signals

SenseInv == /\ SenseTypes /\ SensorsOK
            /\ \A s \in Signals \ mixed : SignalOK(s) /\ OneByOne(s)

LEMMA FewPaths ==
    ASSUME NEW P, P \subseteq Paths, ~(Cardinality(P) > 1), NEW p \in P
    PROVE  P = {p}
<1>1. IsFiniteSet({"wie"} \cup {"runtime"} \cup {"cron"})
  BY FS_Singleton, FS_AddElement
<1>2. Paths = {"wie"} \cup {"runtime"} \cup {"cron"}
  BY DEF Paths
<1>3. IsFiniteSet(P) /\ Cardinality(P) \in Nat
  BY <1>1, <1>2, FS_Subset, FS_CardinalityType
<1>4. {p} \in SUBSET P /\ Cardinality({p}) = 1
  BY FS_Singleton
<1>5. /\ Cardinality({p}) <= Cardinality(P)
      /\ Cardinality(P) = Cardinality({p}) => P = {p}
  BY <1>3, <1>4, FS_Subset
<1> QED
  BY <1>3, <1>4, <1>5

(* What one registration makes of the candidate it has read.               *)
LEMMA CorrelatedOK ==
    ASSUME NEW x \in Candidate \cup {NoCandidate}, NEW r \in Records, Acceptable(r),
           x # NoCandidate => /\ x.paths # {}
                              /\ \/ x.paths = x.from.correlated
                                 \/ x.kind = "attention_candidate"
    PROVE  LET new == Correlated(x, r) IN
           /\ new \in Candidate
           /\ new.paths = r.correlated \cup IF x = NoCandidate THEN {} ELSE x.paths
           /\ new.paths # {}
           /\ \/ new.paths = new.from.correlated
              \/ new.kind = "attention_candidate"
<1>1. /\ r.correlated \subseteq Paths /\ r.kind \in Kinds /\ r.correlated # {}
  BY SensingAssumption DEF Record, Acceptable
<1>2. CASE x = NoCandidate
  BY <1>1, <1>2 DEF Correlated, Candidate
<1>3. CASE x # NoCandidate
  <2>1. x \in Candidate /\ x.paths \subseteq Paths /\ x.kind \in Kinds /\ x.from \in Records
    BY <1>3 DEF Candidate
  <2>2. PICK merged : merged = x.paths \cup r.correlated
    OBVIOUS
  <2>3. merged \subseteq Paths /\ "attention_candidate" \in Kinds
    BY <1>1, <2>1, <2>2 DEF Kinds
  <2>4. CASE Cardinality(merged) > 1
    <3>1. Correlated(x, r) = [x EXCEPT !.paths = merged, !.kind = "attention_candidate"]
      BY <1>3, <2>2, <2>4 DEF Correlated
    <3> QED
      BY <1>1, <1>3, <2>1, <2>2, <2>3, <3>1 DEF Candidate
  <2>5. CASE ~(Cardinality(merged) > 1)
    <3>1. Correlated(x, r) = [x EXCEPT !.paths = merged]
      BY <1>3, <2>1, <2>2, <2>5 DEF Correlated, Candidate
    <3>2. merged = x.paths
      <4>1. PICK p \in x.paths : TRUE
        BY <1>3
      <4>2. merged = {p}
        BY <2>2, <2>3, <2>5, <4>1, FewPaths
      <4> QED
        BY <2>2, <4>1, <4>2
    <3> QED
      BY <1>1, <1>3, <2>1, <2>2, <2>3, <3>1, <3>2 DEF Candidate
  <2> QED
    BY <2>4, <2>5
<1> QED
  BY <1>2, <1>3

LEMMA SenseStep == SenseInv /\ [SenseNext]_senseVars => SenseInv'
<1> SUFFICES ASSUME SenseInv, [SenseNext]_senseVars PROVE SenseInv'
  OBVIOUS
<1>0. SenseTypes /\ SensorsOK
  BY DEF SenseInv
<1>1. ASSUME NEW t \in Sensors, NEW s \in Signals, NEW r \in Records, Submit(t, s, r)
      PROVE  SenseInv'
  <2>1. PICK new : new = [signal |-> s, record |-> r, existing |-> registry[s]]
    OBVIOUS
  <2>2. /\ sensing' = [sensing EXCEPT ![t] = new] /\ sensing[t] = NoRecord
        /\ Acceptable(r) /\ UNCHANGED <<registry, sighted, firsts>>
        /\ mixed' = IF {u \in Sensors \ {t} : sensing[u].signal = s} = {}
                    THEN mixed ELSE mixed \cup {s}
    BY <1>1, <2>1 DEF Submit
  <2>3. /\ sensing'[t] = new /\ \A u \in Sensors \ {t} : sensing'[u] = sensing[u]
        /\ sensing' = [u \in Sensors |-> sensing'[u]]
    BY <2>2, <1>0 DEF SensorsOK
  <2>4. SenseTypes' /\ SensorsOK'
    <3>1. \A u \in Sensors : sensing'[u] # NoRecord =>
             /\ sensing'[u].signal \in Signals
             /\ sensing'[u].record \in Records /\ Acceptable(sensing'[u].record)
      BY <1>0, <2>1, <2>2, <2>3 DEF SensorsOK
    <3> QED
      BY <1>0, <2>2, <2>3, <3>1 DEF SenseTypes, SensorsOK, Acceptable
  <2>5. ASSUME NEW q \in Signals \ mixed'
        PROVE  SignalOK(q)' /\ OneByOne(q)'
    <3>1. q \notin mixed /\ SignalOK(q) /\ OneByOne(q)
      BY <2>2, <2>5 DEF SenseInv
    <3>2. SignalOK(q)'
      BY <2>2, <3>1 DEF SignalOK
    <3>3. q = s => \A u \in Sensors \ {t} : ~Registers(u, s)
      BY <2>2, <2>5 DEF Registers
    <3>4. \A u \in Sensors \ {t} : Registers(u, q)' <=> Registers(u, q)
      BY <2>3 DEF Registers
    <3>5. Registers(t, q)' => q = s /\ sensing'[t].existing = registry[q]
      BY <2>1, <2>3 DEF Registers
    <3> QED
      BY <2>2, <2>3, <3>1, <3>2, <3>3, <3>4, <3>5 DEF OneByOne
  <2> QED
    BY <2>4, <2>5 DEF SenseInv
<1>2. ASSUME NEW t \in Sensors, Register(t)
      PROVE  SenseInv'
  <2>0. PICK x : x = sensing[t].existing
    OBVIOUS
  <2>1. PICK s \in Signals, r \in Records :
           /\ s = sensing[t].signal /\ r = sensing[t].record
           /\ x = sensing[t].existing /\ Acceptable(r) /\ Registers(t, s)
    BY <1>2, <1>0, <2>0 DEF Register, SensorsOK, Registers
  <2>2. /\ registry' = [registry EXCEPT ![s] = Correlated(x, r)]
        /\ sighted' = [sighted EXCEPT ![s] = @ \cup r.correlated]
        /\ firsts' = [firsts EXCEPT ![s] = IF x = NoCandidate THEN @ + 1 ELSE @]
        /\ sensing' = [sensing EXCEPT ![t] = NoRecord]
        /\ mixed' = mixed
    BY <1>2, <2>1 DEF Register
  <2>3. /\ sensing'[t] = NoRecord /\ \A u \in Sensors \ {t} : sensing'[u] = sensing[u]
        /\ sensing' = [u \in Sensors |-> sensing'[u]]
    BY <2>2, <1>0 DEF SensorsOK
  <2>4. SenseTypes' /\ SensorsOK'
    BY <1>0, <2>2, <2>3 DEF SenseTypes, SensorsOK, Acceptable
  <2>5. ASSUME NEW q \in Signals \ mixed
        PROVE  SignalOK(q)' /\ OneByOne(q)'
    <3>1. SignalOK(q) /\ OneByOne(q)
      BY <2>5 DEF SenseInv
    <3>2. CASE q # s
      <4>1. /\ registry'[q] = registry[q] /\ sighted'[q] = sighted[q]
            /\ firsts'[q] = firsts[q]
        BY <1>0, <2>2, <3>2 DEF SenseTypes
      <4>2. SignalOK(q)'
        BY <3>1, <4>1 DEF SignalOK
      <4>3. \A u \in Sensors : Registers(u, q)' =>
               Registers(u, q) /\ sensing'[u] = sensing[u]
        BY <2>3 DEF Registers
      <4> QED
        BY <3>1, <4>1, <4>2, <4>3 DEF OneByOne
    <3>3. CASE q = s
      <4>1. x = registry[q]
        BY <2>1, <3>1, <3>3 DEF OneByOne
      <4>2. \A u \in Sensors : ~Registers(u, q)'
        BY <2>1, <2>3, <3>1, <3>3 DEF Registers, OneByOne
      <4>3. /\ registry'[q] = Correlated(x, r)
            /\ sighted'[q] = sighted[q] \cup r.correlated
            /\ firsts'[q] = IF x = NoCandidate THEN firsts[q] + 1 ELSE firsts[q]
        BY <1>0, <2>2, <3>3 DEF SenseTypes
      <4>4. /\ x \in Candidate \cup {NoCandidate}
            /\ x # NoCandidate => /\ x.paths # {}
                                  /\ \/ x.paths = x.from.correlated
                                     \/ x.kind = "attention_candidate"
        BY <3>1, <4>1 DEF SignalOK
      <4>5. PICK new : new = Correlated(x, r)
        OBVIOUS
      <4>6. /\ new \in Candidate
            /\ new.paths = r.correlated \cup IF x = NoCandidate THEN {} ELSE x.paths
            /\ new.paths # {}
            /\ \/ new.paths = new.from.correlated
               \/ new.kind = "attention_candidate"
        BY <2>1, <4>4, <4>5, CorrelatedOK
      <4>7. SignalOK(q)'
        BY <3>1, <4>1, <4>3, <4>5, <4>6, SensingAssumption DEF SignalOK
      <4> QED
        BY <4>2, <4>7 DEF OneByOne
    <3> QED
      BY <3>2, <3>3
  <2> QED
    BY <2>2, <2>4, <2>5 DEF SenseInv
<1>3. CASE SenseCrash
  BY <1>3 DEF SenseCrash, SenseInv, SenseTypes, SensorsOK, SignalOK, OneByOne, Registers
<1>4. CASE UNCHANGED senseVars
  BY <1>4 DEF senseVars, SenseInv, SenseTypes, SensorsOK, SignalOK, OneByOne,
              Registers, Acceptable
<1> QED
  BY <1>1, <1>2, <1>3, <1>4 DEF SenseNext

(* Unless registrations of a signal have overlapped, its candidate names   *)
(* every path that has sighted it, and one sighting was the first.         *)
THEOREM SightingsCorrelate == SenseSpec => []SightingsKept
<1>1. SenseInit => SenseInv
  BY DEF SenseInit, SenseInv, SenseTypes, SensorsOK, SignalOK, OneByOne, Registers
<1>2. SenseInv => SightingsKept
  BY DEF SenseInv, SignalOK, SightingsKept
<1> QED
  BY <1>1, <1>2, SenseStep, PTL DEF SenseSpec

-----------------------------------------------------------------------------
(* Webhooks.  An id is given to one webhook: what a thread is about to add *)
(* is in no dict and nobody deletes it; what a thread is about to delete   *)
(* is owed nothing any more.                                               *)
Adds(t) == keeper[t].op \in {"make", "add"}

Deletes(t) == keeper[t].op = "delete"

Outstanding == UNION {{d.event} \X d.to : d \in deliveries}

AdderOK(t) ==
    Adds(t) => /\ DOMAIN keeper[t] = {"op", "hook", "dict"}
               /\ keeper[t].hook \in used
               /\ keeper[t].op = "add" => dicts # <<>>
               /\ \A g \in DOMAIN dicts : keeper[t].hook \notin dicts[g]
               /\ \A u \in Keepers \ {t} : Adds(u) \/ Deletes(u)
                                             => keeper[u].hook # keeper[t].hook

DeleterOK(t) ==
    Deletes(t) => /\ keeper[t].hook \in used \ registered
                  /\ \A f \in Firers : firer[f] # Rest
                                         => keeper[t].hook \notin firer[f].owed

FirerOK(f) ==
    firer[f] # Rest =>
       /\ DOMAIN firer[f] = {"op", "event", "dict", "size", "seen", "owed"}
       /\ firer[f].dict \in DOMAIN dicts
       /\ firer[f].owed \subseteq Interested
       /\ ~raced => firer[f].owed \subseteq dicts[firer[f].dict]

HookShapes ==
    /\ dicts \in Seq(SUBSET HookIds) /\ used \subseteq HookIds
    /\ \A g \in DOMAIN dicts : dicts[g] \subseteq used
    /\ DOMAIN keeper = Keepers /\ DOMAIN firer = Firers
    /\ \A d \in deliveries : DOMAIN d = {"event", "to", "failed"}

OneRegistry == ~raced => Len(dicts) <= 1 /\ registered \subseteq Registry

HookInv == /\ HookShapes /\ OneRegistry
           /\ \A t \in Keepers : AdderOK(t) /\ DeleterOK(t)
           /\ \A f \in Firers : FirerOK(f)
           /\ SubscribersAreTold

LEMMA Told ==
    SubscribersAreTold <=>
        (~raced => promised \subseteq told \cup dropped \cup Outstanding)
BY DEF SubscribersAreTold, Outstanding

LEMMA LookOK ==
    ASSUME HookInv, NEW t \in Keepers, NEW h \in HookIds, LookForRegistry(t, h)
    PROVE  HookInv'
<1> USE DEF HookInv
<1>1. /\ h \notin used /\ used' = used \cup {h}
      /\ keeper' = [keeper EXCEPT ![t] =
            [op |-> IF dicts = <<>> THEN "make" ELSE "add", hook |-> h, dict |-> 0]]
      /\ UNCHANGED <<dicts, firer, registered, raced, events, deliveries, told,
                     dropped, promised>>
  BY DEF LookForRegistry, Keep, deliveryVars
<1>2. HookShapes'
  BY <1>1 DEF HookShapes
<1>3. /\ \A u \in Keepers \ {t} : keeper'[u] = keeper[u]
      /\ keeper'[t].op = (IF dicts = <<>> THEN "make" ELSE "add")
      /\ keeper'[t].hook = h /\ DOMAIN keeper'[t] = {"op", "hook", "dict"}
  BY <1>1 DEF HookShapes
<1>4. \A u \in Keepers \ {t} : Adds(u) \/ Deletes(u) => keeper[u].hook # h
  BY <1>1 DEF AdderOK, DeleterOK
<1>5. ASSUME NEW u \in Keepers
      PROVE  AdderOK(u)' /\ DeleterOK(u)'
  <2>1. CASE u = t
    <3>1. ~Deletes(t)'
      BY <1>3 DEF Deletes
    <3>2. AdderOK(t)'
      BY <1>1, <1>3, <1>4 DEF AdderOK, Adds, Deletes, HookShapes
    <3> QED
      BY <2>1, <3>1, <3>2 DEF DeleterOK
  <2>2. CASE u # t
    BY <1>1, <1>3, <1>4, <2>2 DEF AdderOK, DeleterOK, Adds, Deletes
  <2> QED
    BY <2>1, <2>2
<1>6. OneRegistry' /\ \A f \in Firers : FirerOK(f)'
  BY <1>1 DEF OneRegistry, Registry, FirerOK
<1>7. SubscribersAreTold'
  BY <1>1 DEF SubscribersAreTold
<1> QED
  BY <1>2, <1>5, <1>6, <1>7

LEMMA MakeOK ==
    ASSUME HookInv, NEW t \in Keepers, MakeRegistry(t)
    PROVE  HookInv'
<1> USE DEF HookInv
<1>1. /\ keeper[t].op = "make" /\ dicts' = Append(dicts, {})
      /\ raced' = (raced \/ dicts # <<>>)
      /\ keeper' = [keeper EXCEPT ![t] = [keeper[t] EXCEPT !.op = "add"]]
      /\ UNCHANGED <<firer, used, registered, events, deliveries, told, dropped,
                     promised>>
  BY DEF MakeRegistry, Keep, deliveryVars
<1>2. /\ dicts' \in Seq(SUBSET HookIds) /\ Len(dicts') = Len(dicts) + 1
      /\ \A g \in DOMAIN dicts : g \in DOMAIN dicts' /\ dicts'[g] = dicts[g]
      /\ \A g \in DOMAIN dicts' \ DOMAIN dicts : dicts'[g] = {}
      /\ dicts' # <<>>
  BY <1>1, AppendProperties DEF HookShapes
<1>3. /\ \A u \in Keepers \ {t} : keeper'[u] = keeper[u]
      /\ keeper'[t].op = "add" /\ keeper'[t].hook = keeper[t].hook
      /\ DOMAIN keeper'[t] = {"op", "hook", "dict"}
  BY <1>1 DEF HookShapes, AdderOK, Adds
<1>4. HookShapes'
  BY <1>1, <1>2 DEF HookShapes
<1>5. \A u \in Keepers : /\ Adds(u)' = Adds(u) /\ Deletes(u)' = Deletes(u)
                         /\ keeper'[u].hook = keeper[u].hook
                         /\ Adds(u) => DOMAIN keeper'[u] = {"op", "hook", "dict"}
  BY <1>1, <1>3 DEF Adds, Deletes, AdderOK
<1>6. ASSUME NEW u \in Keepers
      PROVE  AdderOK(u)' /\ DeleterOK(u)'
  <2>1. ASSUME Adds(u)
        PROVE  \A g \in DOMAIN dicts' : keeper'[u].hook \notin dicts'[g]
    BY <1>2, <1>5, <2>1 DEF AdderOK
  <2> QED
    BY <1>1, <1>2, <1>5, <2>1 DEF AdderOK, DeleterOK
<1>7. \A f \in Firers : FirerOK(f)'
  BY <1>1, <1>2 DEF FirerOK
<1>8. OneRegistry'
  <2>1. SUFFICES ASSUME ~raced' PROVE OneRegistry'
    BY DEF OneRegistry
  <2>2. dicts = <<>> /\ ~raced
    BY <1>1, <2>1
  <2>3. Len(dicts') = 1 /\ registered' = {}
    BY <1>1, <1>2, <2>2 DEF OneRegistry, Registry, HookShapes
  <2> QED
    BY <2>3 DEF OneRegistry
<1>9. SubscribersAreTold'
  BY <1>1 DEF SubscribersAreTold
<1> QED
  BY <1>4, <1>6, <1>7, <1>8, <1>9

(* A dict is changed in place.                                             *)
LEMMA DictsChanged ==
    ASSUME HookShapes, NEW g \in DOMAIN dicts, NEW S \in SUBSET HookIds,
           dicts' = [dicts EXCEPT ![g] = S]
    PROVE  /\ dicts' \in Seq(SUBSET HookIds) /\ DOMAIN dicts' = DOMAIN dicts
           /\ Len(dicts') = Len(dicts) /\ dicts'[g] = S
           /\ \A k \in DOMAIN dicts \ {g} : dicts'[k] = dicts[k]
           /\ dicts # <<>> /\ dicts' # <<>>
<1>1. dicts \in Seq(SUBSET HookIds) /\ g \in 1..Len(dicts)
  BY DEF HookShapes
<1>2. /\ [dicts EXCEPT ![g] = S] \in Seq(SUBSET HookIds)
      /\ Len([dicts EXCEPT ![g] = S]) = Len(dicts)
  BY <1>1, ExceptSeq
<1>3. dicts # <<>> /\ dicts' # <<>>
  BY <1>1, <1>2
<1> QED
  BY <1>1, <1>2, <1>3

LEMMA AddOK ==
    ASSUME HookInv, NEW t \in Keepers, AddHook(t)
    PROVE  HookInv'
<1> USE DEF HookInv
<1> DEFINE h == keeper[t].hook
           S == dicts[Len(dicts)] \cup {h}
<1>1. /\ keeper[t].op = "add" /\ dicts' = [dicts EXCEPT ![Len(dicts)] = S]
      /\ registered' = registered \cup {h}
      /\ keeper' = [keeper EXCEPT ![t] = Rest]
      /\ UNCHANGED <<firer, used, raced, events, deliveries, told, dropped, promised>>
  BY DEF AddHook, Keep, deliveryVars
<1>2. Adds(t) /\ dicts # <<>> /\ h \in used /\ h \in HookIds
  BY <1>1 DEF Adds, AdderOK, HookShapes
<1>3. Len(dicts) \in DOMAIN dicts /\ S \in SUBSET HookIds
  BY <1>2 DEF HookShapes
<1> HIDE DEF S, h
<1>4. /\ dicts' \in Seq(SUBSET HookIds) /\ DOMAIN dicts' = DOMAIN dicts
      /\ Len(dicts') = Len(dicts) /\ dicts'[Len(dicts)] = S
      /\ \A k \in DOMAIN dicts \ {Len(dicts)} : dicts'[k] = dicts[k]
      /\ dicts # <<>> /\ dicts' # <<>>
  BY <1>1, <1>3, DictsChanged
<1>5. \A g \in DOMAIN dicts : dicts[g] \subseteq dicts'[g] /\ dicts'[g] \subseteq dicts[g] \cup {h}
  BY <1>4 DEF S
<1>6. HookShapes'
  BY <1>1, <1>2, <1>4, <1>5 DEF HookShapes
<1>7. (\A u \in Keepers \ {t} : keeper'[u] = keeper[u]) /\ keeper'[t].op = "none"
  BY <1>1 DEF HookShapes, Rest
<1>8. \A u \in Keepers \ {t} : Adds(u) \/ Deletes(u) => keeper[u].hook # h
  BY <1>2 DEF AdderOK, h
<1>9. ASSUME NEW u \in Keepers
      PROVE  AdderOK(u)' /\ DeleterOK(u)'
  <2>1. CASE u = t
    BY <1>7, <2>1 DEF AdderOK, DeleterOK, Adds, Deletes
  <2>2. CASE u # t
    <3>1. (Adds(u)' <=> Adds(u)) /\ (Deletes(u)' <=> Deletes(u))
      BY <1>7, <2>2 DEF Adds, Deletes
    <3>2. AdderOK(u)'
      <4>1. SUFFICES ASSUME Adds(u) PROVE AdderOK(u)'
        BY <3>1 DEF AdderOK
      <4>2. \A g \in DOMAIN dicts' : keeper'[u].hook \notin dicts'[g]
        BY <1>4, <1>5, <1>7, <1>8, <2>2, <4>1 DEF AdderOK
      <4>3. \A v \in Keepers \ {u} : Adds(v)' \/ Deletes(v)'
                                        => keeper'[v].hook # keeper'[u].hook
        BY <1>7, <2>2, <4>1 DEF AdderOK, Adds, Deletes
      <4> QED
        BY <1>1, <1>4, <1>7, <2>2, <4>1, <4>2, <4>3 DEF AdderOK
    <3>3. DeleterOK(u)'
      BY <1>1, <1>7, <1>8, <2>2, <3>1 DEF DeleterOK
    <3> QED
      BY <3>2, <3>3
  <2> QED
    BY <2>1, <2>2
<1>10. \A f \in Firers : FirerOK(f)'
  BY <1>1, <1>4, <1>5 DEF FirerOK
<1>11. OneRegistry'
  BY <1>1, <1>4 DEF OneRegistry, Registry, S
<1>12. SubscribersAreTold'
  BY <1>1 DEF SubscribersAreTold
<1> QED
  BY <1>6, <1>9, <1>10, <1>11, <1>12

LEMMA FindOK ==
    ASSUME HookInv, NEW t \in Keepers, NEW h \in HookIds, FindHook(t, h)
    PROVE  HookInv'
<1> USE DEF HookInv
<1>1. /\ h \in Registry /\ registered' = registered \ {h}
      /\ keeper' = [keeper EXCEPT ![t] = [op |-> "delete", hook |-> h,
                                          dict |-> Len(dicts)]]
      /\ firer' = [f \in Firers |-> IF firer[f] = Rest THEN Rest
                                    ELSE [firer[f] EXCEPT !.owed = @ \ {h}]]
      /\ UNCHANGED <<dicts, used, raced, events, deliveries, told, dropped, promised>>
  BY DEF FindHook, Keep, deliveryVars
<1>2. PICK g \in DOMAIN dicts : h \in dicts[g]
  <2>1. dicts # <<>> /\ h \in dicts[Len(dicts)]
    BY <1>1 DEF Registry
  <2>2. Len(dicts) \in DOMAIN dicts
    BY <2>1 DEF HookShapes
  <2> QED
    BY <2>1, <2>2
<1>3. /\ \A u \in Keepers \ {t} : keeper'[u] = keeper[u]
      /\ keeper'[t].op = "delete" /\ keeper'[t].hook = h
  BY <1>1 DEF HookShapes
<1>4. ASSUME NEW f \in Firers, firer'[f] # Rest
      PROVE  /\ firer[f] # Rest /\ DOMAIN firer'[f] = DOMAIN firer[f]
             /\ firer'[f].dict = firer[f].dict
             /\ firer'[f].owed = firer[f].owed \ {h}
  <2>1. firer[f] # Rest
    BY <1>1, <1>4
  <2>2. firer'[f] = [firer[f] EXCEPT !.owed = @ \ {h}]
    BY <1>1, <2>1
  <2> QED
    BY <2>1, <2>2 DEF FirerOK
<1>5. HookShapes'
  BY <1>1 DEF HookShapes
<1>6. ASSUME NEW u \in Keepers, u # t
      PROVE  AdderOK(u)' /\ DeleterOK(u)'
  <2>1. Adds(u) => keeper[u].hook # h
    BY <1>2 DEF AdderOK
  <2>2. AdderOK(u)'
    BY <1>1, <1>3, <1>6, <2>1 DEF AdderOK, Adds, Deletes
  <2>3. DeleterOK(u)'
    BY <1>1, <1>3, <1>4, <1>6 DEF DeleterOK, Deletes
  <2> QED
    BY <2>2, <2>3
<1>7. AdderOK(t)' /\ DeleterOK(t)'
  <2>1. h \in used
    BY <1>2 DEF HookShapes
  <2> QED
    BY <1>1, <1>3, <1>4, <2>1 DEF AdderOK, DeleterOK, Adds
<1>8. \A f \in Firers : FirerOK(f)'
  BY <1>1, <1>4 DEF FirerOK
<1>9. OneRegistry' /\ SubscribersAreTold'
  BY <1>1 DEF OneRegistry, Registry, SubscribersAreTold
<1> QED
  BY <1>5, <1>6, <1>7, <1>8, <1>9

LEMMA DeleteOK ==
    ASSUME HookInv, NEW t \in Keepers, DeleteHook(t)
    PROVE  HookInv'
<1> USE DEF HookInv
<1> DEFINE h == keeper[t].hook
           k == keeper[t].dict
           S == dicts[k] \ {h}
<1>1. /\ Deletes(t) /\ dicts' = [dicts EXCEPT ![k] = S]
      /\ keeper' = [keeper EXCEPT ![t] = Rest]
      /\ UNCHANGED <<firer, used, registered, raced, events, deliveries, told,
                     dropped, promised>>
  BY DEF DeleteHook, Keep, deliveryVars, Deletes
<1>2. /\ h \in used \ registered
      /\ \A f \in Firers : firer[f] # Rest => h \notin firer[f].owed
  BY <1>1 DEF DeleterOK
<1>3. /\ dicts' \in Seq(SUBSET HookIds) /\ DOMAIN dicts' = DOMAIN dicts
      /\ Len(dicts') = Len(dicts) /\ (dicts = <<>> <=> dicts' = <<>>)
      /\ \A g \in DOMAIN dicts : dicts[g] \ {h} \subseteq dicts'[g] /\ dicts'[g] \subseteq dicts[g]
  <2>1. CASE k \in DOMAIN dicts
    <3>1. S \in SUBSET HookIds
      BY <2>1 DEF HookShapes
    <3>2. /\ dicts' \in Seq(SUBSET HookIds) /\ DOMAIN dicts' = DOMAIN dicts
          /\ Len(dicts') = Len(dicts) /\ dicts'[k] = S
          /\ \A g \in DOMAIN dicts \ {k} : dicts'[g] = dicts[g]
          /\ dicts # <<>> /\ dicts' # <<>>
      BY <1>1, <2>1, <3>1, DictsChanged
    <3> QED
      BY <3>2
  <2>2. CASE k \notin DOMAIN dicts
    <3>1. dicts' = dicts
      BY <1>1, <2>2 DEF HookShapes
    <3> QED
      BY <3>1 DEF HookShapes
  <2> QED
    BY <2>1, <2>2
<1> HIDE DEF S, h, k
<1>4. (\A u \in Keepers \ {t} : keeper'[u] = keeper[u]) /\ keeper'[t].op = "none"
  BY <1>1 DEF HookShapes, Rest
<1>5. HookShapes'
  BY <1>1, <1>3 DEF HookShapes
<1>6. ASSUME NEW u \in Keepers
      PROVE  AdderOK(u)' /\ DeleterOK(u)'
  BY <1>1, <1>3, <1>4 DEF AdderOK, DeleterOK, Adds, Deletes
<1>7. \A f \in Firers : FirerOK(f)'
  BY <1>1, <1>2, <1>3 DEF FirerOK
<1>8. OneRegistry'
  <2>1. SUFFICES ASSUME ~raced PROVE Len(dicts') <= 1 /\ registered' \subseteq Registry'
    BY <1>1 DEF OneRegistry
  <2>2. dicts # <<>> => Len(dicts) \in DOMAIN dicts
    BY DEF HookShapes
  <2> QED
    BY <1>1, <1>2, <1>3, <2>1, <2>2 DEF OneRegistry, Registry
<1>9. SubscribersAreTold'
  BY <1>1 DEF SubscribersAreTold
<1> QED
  BY <1>5, <1>6, <1>7, <1>8, <1>9

(* Steps of the firing threads: what is registered stays as it is.         *)
LEMMA FirerStep ==
    ASSUME HookInv, NEW f \in Firers,
           UNCHANGED <<dicts, keeper, used, registered, raced>>,
           HookShapes', SubscribersAreTold',
           \A e \in Firers \ {f} : firer'[e] = firer[e],
           FirerOK(f)',
           firer'[f] # Rest => firer'[f].owed \subseteq
                                 registered \cup (IF firer[f] = Rest THEN {} ELSE firer[f].owed)
    PROVE  HookInv'
<1>1. OneRegistry' /\ \A t \in Keepers : AdderOK(t)'
  BY DEF HookInv, OneRegistry, Registry, AdderOK, Adds, Deletes
<1>2. \A t \in Keepers : DeleterOK(t)'
  <2>1. SUFFICES ASSUME NEW t \in Keepers, Deletes(t)
                 PROVE  \A e \in Firers : firer'[e] # Rest
                                            => keeper[t].hook \notin firer'[e].owed
    BY DEF HookInv, DeleterOK, Deletes
  <2> QED
    BY <2>1 DEF HookInv, DeleterOK
<1>3. \A e \in Firers : FirerOK(e)'
  BY DEF HookInv, FirerOK
<1> QED
  BY <1>1, <1>2, <1>3 DEF HookInv

LEMMA FireOK ==
    ASSUME HookInv, NEW f \in Firers, Fire(f)
    PROVE  HookInv'
<1>1. /\ firer[f] = Rest
      /\ UNCHANGED <<dicts, keeper, deliveries, told, dropped, used, registered, raced>>
  BY DEF Fire
<1>2. CASE Registry = {}
  <2>1. /\ firer' = firer
        /\ promised' = promised \cup ({events + 1} \X (registered \cap Interested))
    BY <1>2 DEF Fire
  <2>2. SubscribersAreTold'
    <3>1. ~raced => registered \cap Interested = {}
      BY <1>2 DEF HookInv, OneRegistry
    <3>2. ~raced => promised' = promised
      BY <2>1, <3>1
    <3> QED
      BY <1>1, <3>2 DEF HookInv, SubscribersAreTold
  <2> QED
    BY <1>1, <2>1, <2>2 DEF HookInv, HookShapes, OneRegistry, Registry, AdderOK,
                            DeleterOK, Adds, Deletes, FirerOK
<1>3. CASE Registry # {}
  <2>1. /\ firer' = [firer EXCEPT ![f] =
              [op |-> "iterate", event |-> events + 1, dict |-> Len(dicts),
               size |-> Cardinality(Registry), seen |-> {},
               owed |-> registered \cap Interested]]
        /\ promised' = promised
    BY <1>3 DEF Fire
  <2>2. /\ \A e \in Firers \ {f} : firer'[e] = firer[e]
        /\ DOMAIN firer'[f] = {"op", "event", "dict", "size", "seen", "owed"}
        /\ firer'[f].dict = Len(dicts) /\ firer'[f].owed = registered \cap Interested
    BY <2>1 DEF HookInv, HookShapes
  <2>3. dicts # <<>> /\ Registry = dicts[Len(dicts)] /\ Len(dicts) \in DOMAIN dicts
    BY <1>3 DEF Registry, HookInv, HookShapes
  <2>4. FirerOK(f)'
    BY <1>1, <2>2, <2>3 DEF HookInv, OneRegistry, FirerOK
  <2>5. HookShapes' /\ SubscribersAreTold'
    BY <1>1, <2>1 DEF HookInv, HookShapes, SubscribersAreTold
  <2> QED
    BY <1>1, <2>2, <2>4, <2>5, FirerStep
<1> QED
  BY <1>2, <1>3

LEMMA NextHookOK ==
    ASSUME HookInv, NEW f \in Firers, NextHook(f)
    PROVE  HookInv'
<1>1. /\ firer[f] # Rest
      /\ UNCHANGED <<dicts, keeper, used, registered, raced, deliveries, told,
                     dropped, promised>>
  BY DEF NextHook, deliveryVars
<1>2. PICK h \in Unseen(f) : firer' = [firer EXCEPT ![f] =
                                 [firer[f] EXCEPT !.seen = @ \cup {h}]]
  BY DEF NextHook
<1>3. /\ \A e \in Firers \ {f} : firer'[e] = firer[e]
      /\ DOMAIN firer'[f] = DOMAIN firer[f]
      /\ firer'[f].dict = firer[f].dict /\ firer'[f].owed = firer[f].owed
  BY <1>1, <1>2 DEF HookInv, HookShapes, FirerOK
<1>4. FirerOK(f)' /\ HookShapes' /\ SubscribersAreTold'
  BY <1>1, <1>2, <1>3 DEF HookInv, FirerOK, HookShapes, SubscribersAreTold
<1> QED
  BY <1>1, <1>3, <1>4, FirerStep

(* The iteration has met every key of the dict: all that is owed is among  *)
(* the targets.                                                            *)
LEMMA IterationOverOK ==
    ASSUME HookInv, NEW f \in Firers, IterationEnds(f) \/ IterationRaises(f)
    PROVE  HookInv'
<1>1. /\ firer[f] # Rest /\ firer' = [firer EXCEPT ![f] = Rest]
      /\ UNCHANGED <<dicts, keeper, told, dropped, used, registered, raced>>
  BY DEF IterationEnds, IterationRaises, deliveryVars
<1>2. HookShapes' /\ SubscribersAreTold'
  <2>1. CASE IterationRaises(f)
    BY <1>1, <2>1 DEF HookInv, HookShapes, SubscribersAreTold, IterationRaises,
                      deliveryVars
  <2>2. CASE IterationEnds(f)
    <3> DEFINE targets == firer[f].seen \cap Interested
               new == [event |-> firer[f].event, to |-> targets, failed |-> 0]
    <3>1. /\ dicts[firer[f].dict] \subseteq firer[f].seen
          /\ deliveries' = IF targets = {} THEN deliveries ELSE deliveries \cup {new}
          /\ promised' = promised \cup ({firer[f].event} \X firer[f].owed)
      BY <2>2 DEF IterationEnds, Unseen
    <3>2. HookShapes'
      BY <1>1, <3>1 DEF HookInv, HookShapes
    <3>3. SubscribersAreTold'
      <4>1. SUFFICES ASSUME ~raced
                     PROVE  promised' \subseteq told \cup dropped \cup Outstanding'
        BY <1>1, Told DEF SubscribersAreTold, Outstanding
      <4>2. firer[f].owed \subseteq targets
        BY <1>1, <3>1, <4>1 DEF HookInv, FirerOK
      <4>3. Outstanding \subseteq Outstanding'
        BY <3>1 DEF Outstanding
      <4>4. {firer[f].event} \X targets \subseteq Outstanding'
        <5>1. CASE targets = {}
          BY <5>1
        <5>2. CASE targets # {}
          <6>1. new \in deliveries' /\ new.event = firer[f].event /\ new.to = targets
            BY <3>1, <5>2
          <6> QED
            BY <6>1 DEF Outstanding
        <5> QED
          BY <5>1, <5>2
      <4>5. promised \subseteq told \cup dropped \cup Outstanding
        BY <4>1, Told DEF HookInv
      <4>6. {firer[f].event} \X firer[f].owed \subseteq {firer[f].event} \X targets
        BY <4>2
      <4> QED
        BY <3>1, <4>3, <4>4, <4>5, <4>6
    <3> QED
      BY <3>2, <3>3
  <2> QED
    BY <2>1, <2>2
<1>3. (\A e \in Firers \ {f} : firer'[e] = firer[e]) /\ firer'[f] = Rest
  BY <1>1 DEF HookInv, HookShapes
<1>4. FirerOK(f)'
  BY <1>3 DEF FirerOK
<1> QED
  BY <1>1, <1>2, <1>3, <1>4, FirerStep

(* A delivery goes on: what leaves it has been told, or dropped.           *)
LEMMA DeliveryOK ==
    ASSUME HookInv, NEW d \in deliveries, Delivered(d) \/ Fails(d)
    PROVE  HookInv'
<1> DEFINE h == Current(d)
<1>1. UNCHANGED <<dicts, keeper, firer, used, registered, raced, promised>>
  BY DEF Delivered, Fails
<1>2. PICK next : /\ Replace(d, next) /\ DOMAIN next = {"event", "to", "failed"}
                  /\ next.event = d.event /\ d.to \subseteq next.to \cup {h}
                  /\ \/ next.to = d.to
                     \/ <<d.event, h>> \in told' \cup dropped'
                  /\ told \cup dropped \subseteq told' \cup dropped'
  <2>1. DOMAIN d = {"event", "to", "failed"}
    BY DEF HookInv, HookShapes
  <2>2. /\ DOMAIN DoneWith(d, h) = {"event", "to", "failed"}
        /\ DoneWith(d, h).event = d.event /\ DoneWith(d, h).to = d.to \ {h}
    BY <2>1 DEF DoneWith
  <2>3. CASE Delivered(d)
    BY <2>2, <2>3 DEF Delivered
  <2>4. CASE Fails(d) /\ d.failed + 1 < MaxAttempts
    <3>1. PICK n : n = [d EXCEPT !.failed = @ + 1]
      OBVIOUS
    <3>2. DOMAIN n = {"event", "to", "failed"} /\ n.event = d.event /\ n.to = d.to
      BY <2>1, <3>1
    <3>3. Replace(d, n) /\ told' = told /\ dropped' = dropped
      BY <2>4, <3>1 DEF Fails
    <3> QED
      BY <3>2, <3>3
  <2>5. CASE Fails(d) /\ ~(d.failed + 1 < MaxAttempts)
    BY <2>2, <2>5 DEF Fails
  <2> QED
    BY <2>3, <2>4, <2>5
<1>3. deliveries' = (deliveries \ {d}) \cup {n \in {next} : n.to # {}}
  BY <1>2 DEF Replace
<1> HIDE DEF h
<1>4. {d.event} \X d.to \subseteq told' \cup dropped' \cup Outstanding'
  <2>1. SUFFICES ASSUME NEW x \in d.to
                 PROVE  <<d.event, x>> \in told' \cup dropped' \cup Outstanding'
    OBVIOUS
  <2>2. CASE x \in next.to
    <3>1. next \in deliveries'
      BY <1>3, <2>2
    <3> QED
      BY <1>2, <2>2, <3>1 DEF Outstanding
  <2>3. CASE x \notin next.to
    BY <1>2, <2>1, <2>3
  <2> QED
    BY <2>2, <2>3
<1>5. Outstanding \subseteq Outstanding' \cup ({d.event} \X d.to)
  BY <1>3 DEF Outstanding
<1>6. SubscribersAreTold'
  <2>1. ~raced => promised \subseteq told \cup dropped \cup Outstanding
    BY Told DEF HookInv
  <2>2. ~raced' => promised' \subseteq told' \cup dropped' \cup Outstanding'
    BY <1>1, <1>2, <1>4, <1>5, <2>1
  <2> QED
    BY <2>2 DEF SubscribersAreTold, Outstanding
<1>7. HookShapes'
  BY <1>1, <1>2, <1>3 DEF HookInv, HookShapes
<1> QED
  BY <1>1, <1>6, <1>7 DEF HookInv, OneRegistry, Registry, AdderOK, DeleterOK, Adds,
                          Deletes, FirerOK

LEMMA HookStep == HookInv /\ [HooksNext]_hookVars => HookInv'
<1> SUFFICES ASSUME HookInv, [HooksNext]_hookVars PROVE HookInv'
  OBVIOUS
<1>1. CASE HooksCrash
  BY <1>1 DEF HooksCrash, HookInv, HookShapes, OneRegistry, Registry, AdderOK,
              DeleterOK, FirerOK, Adds, Deletes, Rest, SubscribersAreTold
<1>2. CASE UNCHANGED hookVars
  BY <1>2 DEF hookVars, HookInv, HookShapes, OneRegistry, Registry, AdderOK,
              DeleterOK, FirerOK, Adds, Deletes, SubscribersAreTold
<1> QED
  BY <1>1, <1>2, LookOK, FindOK, MakeOK, AddOK, DeleteOK, FireOK, NextHookOK,
     IterationOverOK, DeliveryOK DEF HooksNext

LEMMA HookInvInit == HooksInit => HookInv
BY DEF HooksInit, HookInv, HookShapes, OneRegistry, Registry, AdderOK, DeleterOK,
       FirerOK, Adds, Deletes, Rest, SubscribersAreTold

(* What was promised is told, dropped after its attempts, or under way.    *)
THEOREM PromisesAreKept == HooksSpec => []SubscribersAreTold
<1>1. HookInv => SubscribersAreTold
  BY DEF HookInv
<1> QED
  BY <1>1, HookInvInit, HookStep, PTL DEF HooksSpec

-----------------------------------------------------------------------------
(* Rate limits.  The hits of a key at the present time are numbered from 0;*)
(* its list holds no recent hit that was not admitted, and all that are    *)
(* later than the last query that wrote back a list without one.           *)
HitsNumbered(list) ==
    \E c \in Nat : {hit \in list : hit[1] = clock} = {clock} \X (0..(c - 1))

ListOK(k) ==
    /\ HitsNumbered(admitted[k])
    /\ Recent(hits[k]) \subseteq admitted[k]
    /\ \A hit \in Recent(admitted[k]) : hit[1] > clobbered[k] => hit \in hits[k]

QueryOK(t) == asking[t] # NoQuery =>
                 /\ asking[t].key \in LimiterKeys
                 /\ Recent(asking[t].list) \subseteq admitted[asking[t].key]

RateInv == /\ RateTypeOK
           /\ \A k \in LimiterKeys : ListOK(k)
           /\ \A t \in Askers : QueryOK(t)
           /\ \A m \in Methods : Recent(endpointHits[m]) = Recent(admitted[m])

LEMMA Limits ==
    ASSUME RateTypeOK
    PROVE  /\ clock \in Nat /\ Window \in Nat /\ Window >= 1 /\ clock >= Window
           /\ MaxHits \in Nat /\ MaxClock \in Nat
           /\ Methods \subseteq LimiterKeys /\ Clients \subseteq LimiterKeys
<1>1. /\ Window \in Nat /\ Window # 0 /\ MaxHits \in Nat /\ MaxClock \in Nat
  BY RateAssumption
<1>2. clock \in Window..MaxClock
  BY DEF RateTypeOK
<1> QED
  BY <1>1, <1>2 DEF LimiterKeys

LEMMA ListFacts ==
    ASSUME RateTypeOK, NEW list \in Lists
    PROVE  /\ Recent(list) \in Lists /\ Recent(list) \subseteq list
           /\ IsFiniteSet(list) /\ IsFiniteSet(Recent(list))
           /\ Cardinality(Recent(list)) \in Nat
           /\ \A hit \in list : /\ hit = <<hit[1], hit[2]>>
                                /\ hit[1] \in 1..clock /\ hit[2] \in 0..MaxHits
<1>1. IsFiniteSet((1..clock) \X (0..MaxHits))
  <2>1. IsFiniteSet(1..clock)
    BY Limits, FS_Interval
  <2>2. IsFiniteSet(0..MaxHits)
    BY Limits, FS_Interval
  <2> QED
    BY <2>1, <2>2, FS_Product
<1>2. IsFiniteSet(list)
  BY <1>1, FS_Subset DEF Lists
<1>3. Recent(list) \in Lists /\ Recent(list) \subseteq list
  BY DEF Recent, Lists
<1>4. IsFiniteSet(Recent(list)) /\ Cardinality(Recent(list)) \in Nat
  BY <1>2, <1>3, FS_Subset, FS_CardinalityType
<1> QED
  BY <1>2, <1>3, <1>4 DEF Lists

(* A hit that is added is a new one, so that it is counted.                *)
LEMMA NowIsNew ==
    ASSUME RateInv, NEW k \in LimiterKeys, Bounded(k)
    PROVE  /\ Now(k) \in (1..clock) \X (0..MaxHits)
           /\ Now(k)[1] = clock
           /\ Now(k) \notin admitted[k]
           /\ HitsNumbered(Recent(admitted[k]) \cup {Now(k)})
<1> DEFINE A == admitted[k]
           S == {hit \in A : hit[1] = clock}
<1>1. RateTypeOK /\ ListOK(k) /\ A \in Lists
  BY DEF RateInv, RateTypeOK
<1>2. PICK c \in Nat : S = {clock} \X (0..(c - 1))
  BY <1>1 DEF ListOK, HitsNumbered
<1>3. Cardinality(S) = c
  <2>1. IsFiniteSet({clock}) /\ Cardinality({clock}) = 1
    BY FS_Singleton
  <2>2. IsFiniteSet(0..(c - 1)) /\ Cardinality(0..(c - 1)) = c
    BY FS_Interval
  <2>3. Cardinality({clock} \X (0..(c - 1))) = 1 * c
    <3> DEFINE P == {clock} Q == 0..(c - 1)
    <3>1. Cardinality(P \X Q) = Cardinality(P) * Cardinality(Q)
      <4> HIDE DEF P, Q
      <4> QED
        BY <2>1, <2>2, FS_Product DEF P, Q
    <3> QED
      BY <2>1, <2>2, <3>1
  <2> QED
    BY <1>2, <2>3
<1>4. Now(k) = <<clock, c>>
  BY <1>3 DEF Now
<1>5. S \subseteq Recent(A)
  BY <1>1, Limits DEF Recent
<1>6. c <= MaxHits
  <2>1. IsFiniteSet(Recent(A)) /\ Cardinality(Recent(A)) \in Nat
    BY <1>1, ListFacts
  <2>2. Cardinality(S) <= Cardinality(Recent(A))
    BY <1>5, <2>1, FS_Subset
  <2> QED
    BY <1>1, <1>3, <2>1, <2>2, Limits DEF Bounded
<1>7. Now(k) \in (1..clock) \X (0..MaxHits) /\ Now(k)[1] = clock
  BY <1>1, <1>4, <1>6, Limits
<1>8. Now(k) \notin A
  <2>1. <<clock, c>> \notin {clock} \X (0..(c - 1))
    OBVIOUS
  <2> QED
    BY <1>2, <1>4, <1>7, <2>1
<1>9. {hit \in Recent(A) \cup {Now(k)} : hit[1] = clock} = S \cup {<<clock, c>>}
  BY <1>4, <1>5 DEF Recent
<1>10. S \cup {<<clock, c>>} = {clock} \X (0..((c + 1) - 1))
  <2>1. 0..((c + 1) - 1) = (0..(c - 1)) \cup {c}
    OBVIOUS
  <2>2. {clock} \X ((0..(c - 1)) \cup {c})
           = ({clock} \X (0..(c - 1))) \cup {<<clock, c>>}
    OBVIOUS
  <2> QED
    BY <1>2, <2>1, <2>2
<1>11. c + 1 \in Nat
  OBVIOUS
<1>12. HitsNumbered(Recent(A) \cup {Now(k)})
  BY <1>9, <1>10, <1>11 DEF HitsNumbered
<1> QED
  BY <1>7, <1>8, <1>12

(* What is_allowed does to the list of a key, and to no other.             *)
LEMMA AllowOK ==
    ASSUME RateInv, NEW k \in LimiterKeys, Bounded(k), Allow(k),
           UNCHANGED <<clock, clobbered, asking>>
    PROVE  /\ hits' \in [LimiterKeys -> Lists] /\ admitted' \in [LimiterKeys -> Lists]
           /\ \A j \in LimiterKeys : ListOK(j)'
           /\ \A t \in Askers : QueryOK(t)'
           /\ \A j \in LimiterKeys \ {k} : admitted'[j] = admitted[j]
           /\ Recent(admitted[k])' = Recent(admitted[k]) \cup {Now(k)}
<1>1. RateTypeOK /\ hits[k] \in Lists /\ admitted[k] \in Lists
  BY DEF RateInv, RateTypeOK
<1>2. /\ hits'[k] = Recent(hits[k]) \cup {Now(k)}
      /\ admitted'[k] = Recent(admitted[k]) \cup {Now(k)}
      /\ \A j \in LimiterKeys \ {k} : hits'[j] = hits[j] /\ admitted'[j] = admitted[j]
  BY <1>1 DEF Allow, RateTypeOK
<1>3. hits' \in [LimiterKeys -> Lists] /\ admitted' \in [LimiterKeys -> Lists]
  <2>1. /\ Recent(hits[k]) \cup {Now(k)} \in Lists
        /\ Recent(admitted[k]) \cup {Now(k)} \in Lists
    <3>1. Now(k) \in (1..clock) \X (0..MaxHits)
      BY NowIsNew
    <3>2. Recent(hits[k]) \in Lists /\ Recent(admitted[k]) \in Lists
      BY <1>1, ListFacts
    <3> QED
      BY <3>1, <3>2 DEF Lists
  <2>2. hits \in [LimiterKeys -> Lists] /\ admitted \in [LimiterKeys -> Lists]
    BY <1>1 DEF RateTypeOK
  <2> QED
    BY <2>1, <2>2 DEF Allow
<1>4. \A list : Recent(list)' = Recent(list')
  BY DEF Recent
<1>5. \A list : Recent(Recent(list)) = Recent(list)
  BY DEF Recent
<1>6. clock > clock - Window
  BY <1>1, Limits
<1>7. \A list : Recent(list \cup {Now(k)}) = Recent(list) \cup {Now(k)}
  BY <1>6, NowIsNew DEF Recent
<1>8. Recent(admitted[k])' = Recent(admitted[k]) \cup {Now(k)}
  BY <1>2, <1>5, <1>7 DEF Recent
<1>9. ListOK(k)'
  <2>1. HitsNumbered(admitted[k])'
    BY <1>2, NowIsNew DEF HitsNumbered
  <2>2. Recent(hits[k])' \subseteq admitted'[k]
    BY <1>2, <1>5, <1>7 DEF RateInv, ListOK, Recent
  <2>3. \A hit \in Recent(admitted[k])' : hit[1] > clobbered'[k] => hit \in hits'[k]
    BY <1>2, <1>8 DEF RateInv, ListOK, Recent
  <2> QED
    BY <2>1, <2>2, <2>3 DEF ListOK
<1>10. \A j \in LimiterKeys \ {k} : ListOK(j)'
  BY <1>2 DEF RateInv, ListOK, HitsNumbered, Recent
<1>11. \A t \in Askers : QueryOK(t)'
  BY <1>2 DEF RateInv, QueryOK, Recent
<1> QED
  BY <1>2, <1>3, <1>8, <1>9, <1>10, <1>11

LEMMA RefuseOK ==
    ASSUME RateInv, NEW k \in LimiterKeys, Refuse(k),
           UNCHANGED <<clock, clobbered, asking>>
    PROVE  /\ hits' \in [LimiterKeys -> Lists] /\ admitted' = admitted
           /\ \A j \in LimiterKeys : ListOK(j)'
           /\ \A t \in Askers : QueryOK(t)'
<1>1. RateTypeOK /\ hits[k] \in Lists
  BY DEF RateInv, RateTypeOK
<1>2. /\ hits'[k] = Recent(hits[k]) /\ admitted' = admitted
      /\ \A j \in LimiterKeys \ {k} : hits'[j] = hits[j]
  BY <1>1 DEF Refuse, RateTypeOK
<1>3. hits' \in [LimiterKeys -> Lists]
  BY <1>1, ListFacts DEF Refuse, RateTypeOK
<1>4. \A j \in LimiterKeys : ListOK(j)'
  <2>1. ListOK(k)'
    <3>1. ListOK(k)
      BY DEF RateInv
    <3>2. HitsNumbered(admitted[k])'
      BY <1>2, <3>1 DEF ListOK, HitsNumbered
    <3>3. Recent(hits[k])' \subseteq admitted'[k]
      BY <1>2, <3>1 DEF ListOK, Recent
    <3>4. \A hit \in Recent(admitted[k])' : hit[1] > clobbered'[k] => hit \in hits'[k]
      BY <1>2, <3>1 DEF ListOK, Recent
    <3> QED
      BY <3>2, <3>3, <3>4 DEF ListOK
  <2>2. \A j \in LimiterKeys \ {k} : ListOK(j)'
    BY <1>2 DEF RateInv, ListOK, HitsNumbered, Recent
  <2> QED
    BY <2>1, <2>2
<1>5. \A t \in Askers : QueryOK(t)'
  BY <1>2 DEF RateInv, QueryOK, Recent
<1> QED
  BY <1>2, <1>3, <1>4, <1>5

LEMMA RateInit_OK == RateInit => RateInv
<1> SUFFICES ASSUME RateInit PROVE RateInv
  OBVIOUS
<1>1. /\ Window \in Nat /\ Window <= MaxClock /\ MaxClock \in Nat
      /\ MaxEvaluating \in Nat
  BY RateAssumption
<1>2. RateTypeOK
  BY <1>1 DEF RateInit, RateTypeOK, Lists, NoQuery
<1>3. {} = {clock} \X (0..(0 - 1)) /\ 0 \in Nat
  OBVIOUS
<1>4. \A k \in LimiterKeys : ListOK(k)
  BY <1>3 DEF RateInit, ListOK, HitsNumbered, Recent
<1>5. \A t \in Askers : QueryOK(t)
  BY DEF RateInit, QueryOK
<1>6. \A m \in Methods : Recent(endpointHits[m]) = Recent(admitted[m])
  BY DEF RateInit, Recent, LimiterKeys
<1> QED
  BY <1>2, <1>4, <1>5, <1>6 DEF RateInv

LEMMA RateStep == RateInv /\ [RateNext]_rateVars => RateInv'
<1> SUFFICES ASSUME RateInv, [RateNext]_rateVars PROVE RateInv'
  OBVIOUS
<1>0. /\ RateTypeOK /\ \A m \in Methods : m \in LimiterKeys
      /\ \A c \in Clients : c \in LimiterKeys /\ c \notin Methods
      /\ \A m \in Methods : Recent(endpointHits[m]) = Recent(admitted[m])
      /\ \A k \in LimiterKeys : ListOK(k)
      /\ \A t \in Askers : QueryOK(t)
  BY RateAssumption DEF RateInv, LimiterKeys
<1>1. ASSUME NEW c \in Clients, Admit(c) PROVE RateInv'
  <2>1. /\ Bounded(c) /\ (Allow(c) \/ Refuse(c))
        /\ UNCHANGED <<clock, endpointHits, keyLimit, asking, clobbered>>
        /\ evaluating' \in 0..MaxEvaluating
    BY <1>0, <1>1 DEF Admit, RateTypeOK
  <2>2. /\ hits' \in [LimiterKeys -> Lists] /\ admitted' \in [LimiterKeys -> Lists]
        /\ \A j \in LimiterKeys : ListOK(j)'
        /\ \A t \in Askers : QueryOK(t)'
        /\ \A j \in LimiterKeys \ {c} : admitted'[j] = admitted[j]
    BY <1>0, <2>1, AllowOK, RefuseOK DEF RateTypeOK
  <2>3. \A m \in Methods : Recent(endpointHits[m])' = Recent(admitted[m])'
    BY <1>0, <2>1, <2>2 DEF Recent
  <2>4. RateTypeOK'
    BY <1>0, <2>1, <2>2 DEF RateTypeOK, Lists
  <2> QED
    BY <2>2, <2>3, <2>4 DEF RateInv
<1>2. ASSUME NEW m \in Methods, Budget(m) PROVE RateInv'
  <2> DEFINE spent == Recent(endpointHits[m])
  <2>1. /\ Bounded(m) /\ UNCHANGED <<clock, keyLimit, asking, clobbered>>
        /\ evaluating' \in 0..MaxEvaluating
        /\ spent \in Lists /\ Recent(spent) = spent
    <3>1. evaluating' \in 0..MaxEvaluating
      <4>1. evaluating \in 0..MaxEvaluating /\ MaxEvaluating \in Nat
        BY <1>0, RateAssumption DEF RateTypeOK
      <4>2. evaluating > 0 /\ evaluating' = evaluating - 1
        BY <1>2 DEF Budget
      <4> QED
        BY <4>1, <4>2
    <3>2. spent \in Lists
      BY <1>0, ListFacts DEF RateTypeOK
    <3> QED
      BY <1>2, <3>1, <3>2 DEF Budget, Recent
  <2>2. CASE /\ Refuse(m)
             /\ endpointHits' \in {endpointHits, [endpointHits EXCEPT ![m] = spent]}
    <3>1. /\ hits' \in [LimiterKeys -> Lists] /\ admitted' = admitted
          /\ \A j \in LimiterKeys : ListOK(j)'
          /\ \A t \in Askers : QueryOK(t)'
      BY <1>0, <2>1, <2>2, RefuseOK
    <3>2. /\ endpointHits' \in [Methods -> Lists]
          /\ \A n \in Methods : \/ endpointHits'[n] = endpointHits[n]
                                \/ n = m /\ endpointHits'[n] = spent
      BY <1>0, <2>1, <2>2 DEF RateTypeOK
    <3>3. \A n \in Methods : Recent(endpointHits[n])' = Recent(admitted[n])'
      BY <1>0, <2>1, <3>1, <3>2 DEF Recent
    <3>4. RateTypeOK'
      BY <1>0, <2>1, <3>1, <3>2 DEF RateTypeOK, Lists
    <3> QED
      BY <3>1, <3>3, <3>4 DEF RateInv
  <2>3. CASE /\ Allow(m)
             /\ endpointHits' = [endpointHits EXCEPT ![m] = spent \cup {Now(m)}]
    <3>1. /\ hits' \in [LimiterKeys -> Lists] /\ admitted' \in [LimiterKeys -> Lists]
          /\ \A j \in LimiterKeys : ListOK(j)'
          /\ \A t \in Askers : QueryOK(t)'
          /\ \A j \in LimiterKeys \ {m} : admitted'[j] = admitted[j]
          /\ Recent(admitted[m])' = Recent(admitted[m]) \cup {Now(m)}
      BY <1>0, <2>1, <2>3, AllowOK
    <3>2. /\ endpointHits' \in [Methods -> Lists]
          /\ endpointHits'[m] = spent \cup {Now(m)}
          /\ \A n \in Methods \ {m} : endpointHits'[n] = endpointHits[n]
      BY <1>0, <2>1, <2>3, NowIsNew DEF RateTypeOK, Lists
    <3>3. Recent(endpointHits[m])' = spent \cup {Now(m)}
      <4>1. Now(m)[1] > clock - Window
        <5>1. Now(m)[1] = clock
          BY <1>0, <2>1, NowIsNew
        <5>2. clock \in Nat /\ Window \in Nat /\ Window >= 1
          BY <1>0, Limits
        <5> QED
          BY <5>1, <5>2
      <4> QED
        BY <2>1, <3>2, <4>1 DEF Recent
    <3>4. \A n \in Methods : Recent(endpointHits[n])' = Recent(admitted[n])'
      <4>1. \A n \in Methods \ {m} : Recent(endpointHits[n])' = Recent(admitted[n])'
        BY <1>0, <2>1, <3>1, <3>2 DEF Recent
      <4> QED
        BY <1>0, <3>1, <3>3, <4>1
    <3>5. RateTypeOK'
      BY <1>0, <2>1, <3>1, <3>2 DEF RateTypeOK, Lists
    <3> QED
      BY <3>1, <3>4, <3>5 DEF RateInv
  <2> QED
    BY <1>2, <2>2, <2>3 DEF Budget
<1>3. ASSUME NEW k \in LimiterKeys, NEW l \in KeyLimits, SetLimit(k, l)
      PROVE  RateInv'
  BY <1>0, <1>3 DEF SetLimit, RateInv, RateTypeOK, Lists, ListOK, HitsNumbered,
                    Recent, QueryOK
<1>4. ASSUME NEW t \in Askers, NEW k \in LimiterKeys, QueryFilters(t, k)
      PROVE  RateInv'
  <2>1. /\ UNCHANGED <<clock, hits, endpointHits, keyLimit, evaluating, admitted,
                       clobbered>>
        /\ asking' = [asking EXCEPT ![t] = [key |-> k, list |-> Recent(hits[k])]]
        /\ Recent(hits[k]) \in Lists
    BY <1>0, <1>4, ListFacts DEF QueryFilters, RateTypeOK
  <2>2. RateTypeOK'
    BY <1>0, <2>1 DEF RateTypeOK, Lists
  <2>3. Recent(Recent(hits[k])) \subseteq admitted[k]
    BY <1>0 DEF ListOK, Recent
  <2>4. \A u \in Askers : QueryOK(u)'
    <3>1. /\ asking'[t] = [key |-> k, list |-> Recent(hits[k])]
          /\ \A u \in Askers \ {t} : asking'[u] = asking[u]
      BY <1>0, <2>1 DEF RateTypeOK
    <3>2. QueryOK(t)'
      BY <2>1, <2>3, <3>1 DEF QueryOK, Recent
    <3> QED
      BY <1>0, <2>1, <3>1, <3>2 DEF QueryOK, Recent
  <2> QED
    BY <1>0, <2>1, <2>2, <2>4 DEF RateInv, ListOK, HitsNumbered, Recent
<1>5. ASSUME NEW t \in Askers, QueryAssigns(t) PROVE RateInv'
  <2>1. PICK k \in LimiterKeys, list \in Lists :
           /\ asking[t].key = k /\ asking[t].list = list
           /\ Recent(list) \subseteq admitted[k]
    <3>1. asking[t] # NoQuery
      BY <1>5 DEF QueryAssigns
    <3>2. asking[t].list \in Lists
      BY <1>0 DEF RateTypeOK
    <3> QED
      BY <1>0, <3>1, <3>2 DEF QueryOK
  <2>2. /\ UNCHANGED <<clock, endpointHits, keyLimit, evaluating, admitted>>
        /\ hits' = [hits EXCEPT ![k] = list]
        /\ clobbered' = [clobbered EXCEPT ![k] =
                           IF Recent(list) = Recent(admitted[k]) THEN @ ELSE clock]
        /\ asking' = [asking EXCEPT ![t] = NoQuery]
    BY <1>5, <2>1 DEF QueryAssigns
  <2>3. clock \in 0..clock
    BY <1>0, Limits
  <2>4. NoQuery \in [key : LimiterKeys \cup {"none"}, list : Lists]
    BY DEF NoQuery, Lists
  <2>5. RateTypeOK'
    BY <1>0, <2>2, <2>3, <2>4 DEF RateTypeOK, Lists
  <2>6. /\ hits'[k] = list
        /\ clobbered'[k] = IF Recent(list) = Recent(admitted[k])
                           THEN clobbered[k] ELSE clock
        /\ \A j \in LimiterKeys \ {k} : hits'[j] = hits[j] /\ clobbered'[j] = clobbered[j]
    BY <1>0, <2>2 DEF RateTypeOK
  <2>7. ListOK(k)'
    <3>1. HitsNumbered(admitted[k])'
      BY <1>0, <2>2 DEF ListOK, HitsNumbered
    <3>2. Recent(hits[k])' = Recent(list) /\ Recent(admitted[k])' = Recent(admitted[k])
      BY <2>2, <2>6 DEF Recent
    <3>3. \A hit \in Recent(admitted[k]) : hit[1] > clobbered'[k] => hit \in list
      <4>1. CASE Recent(list) = Recent(admitted[k])
        BY <4>1 DEF Recent
      <4>2. CASE Recent(list) # Recent(admitted[k])
        <5>1. clobbered'[k] = clock
          BY <2>6, <4>2
        <5>2. \A hit \in Recent(admitted[k]) : hit[1] \in 1..clock
          BY <1>0, ListFacts DEF RateTypeOK, Recent
        <5> QED
          BY <1>0, Limits, <5>1, <5>2
      <4> QED
        BY <4>1, <4>2
    <3>4. admitted'[k] = admitted[k]
      BY <2>2
    <3> QED
      BY <2>1, <2>6, <3>1, <3>2, <3>3, <3>4 DEF ListOK
  <2>8. \A j \in LimiterKeys \ {k} : ListOK(j)'
    BY <1>0, <2>2, <2>6 DEF ListOK, HitsNumbered, Recent
  <2>9. \A u \in Askers : QueryOK(u)'
    BY <1>0, <2>2 DEF QueryOK, Recent, RateTypeOK
  <2>10. \A m \in Methods : Recent(endpointHits[m])' = Recent(admitted[m])'
    BY <1>0, <2>2 DEF Recent
  <2> QED
    BY <2>5, <2>7, <2>8, <2>9, <2>10 DEF RateInv
<1>6. CASE Tick
  <2>1. /\ clock' = clock + 1 /\ clock' <= MaxClock
        /\ UNCHANGED <<hits, endpointHits, keyLimit, evaluating, asking,
                       admitted, clobbered>>
        /\ clock \in Nat /\ Window \in Nat /\ MaxClock \in Nat
    BY <1>0, <1>6, Limits DEF Tick, RateTypeOK
  <2>2. Lists \subseteq Lists' /\ (0..clock) \subseteq (0..clock)'
    <3>1. (1..clock) \X (0..MaxHits) \subseteq (1..clock') \X (0..MaxHits)
      BY <2>1
    <3> QED
      BY <2>1, <3>1 DEF Lists
  <2>3. RateTypeOK'
    BY <1>0, <2>1, <2>2 DEF RateTypeOK
  <2>4. ASSUME NEW list \in Lists
        PROVE  /\ Recent(list)' = {hit \in Recent(list) : hit[1] > clock + 1 - Window}
               /\ {hit \in list : hit[1] = clock'} = {}
    <3>1. \A hit \in list : hit[1] \in 1..clock
      BY <1>0, ListFacts
    <3> QED
      BY <2>1, <3>1 DEF Recent
  <2>5. ASSUME NEW k \in LimiterKeys PROVE ListOK(k)'
    <3>1. hits[k] \in Lists /\ admitted[k] \in Lists
      BY <1>0 DEF RateTypeOK
    <3>2. HitsNumbered(admitted[k])'
      <4>1. {} = {clock'} \X (0..(0 - 1)) /\ 0 \in Nat
        OBVIOUS
      <4> QED
        BY <2>1, <2>4, <3>1, <4>1 DEF HitsNumbered
    <3>3. Recent(hits[k])' \subseteq Recent(hits[k])
      BY <2>1, <2>4, <3>1
    <3>4. Recent(admitted[k])' \subseteq Recent(admitted[k])
      BY <2>1, <2>4, <3>1
    <3> QED
      BY <1>0, <2>1, <3>2, <3>3, <3>4 DEF ListOK
  <2>6. ASSUME NEW t \in Askers PROVE QueryOK(t)'
    <3>1. asking[t].list \in Lists
      BY <1>0 DEF RateTypeOK
    <3>2. Recent(asking[t].list)' \subseteq Recent(asking[t].list)
      BY <2>1, <2>4, <3>1
    <3> QED
      BY <1>0, <2>1, <3>2 DEF QueryOK
  <2>7. ASSUME NEW m \in Methods
        PROVE  Recent(endpointHits[m])' = Recent(admitted[m])'
    <3>1. endpointHits[m] \in Lists /\ admitted[m] \in Lists
      BY <1>0 DEF RateTypeOK
    <3> QED
      BY <1>0, <2>1, <2>4, <3>1
  <2> QED
    BY <2>3, <2>5, <2>6, <2>7 DEF RateInv
<1>7. CASE UNCHANGED rateVars
  BY <1>0, <1>7 DEF rateVars, RateInv, RateTypeOK, Lists, ListOK, HitsNumbered,
                    Recent, QueryOK
<1> QED
  BY <1>1, <1>2, <1>3, <1>4, <1>5, <1>6, <1>7 DEF RateNext

(* Every variable of the rate limiter keeps its type.                      *)
THEOREM LimiterTypeCorrect == RateSpec => []RateTypeOK
<1>1. RateInv => RateTypeOK
  BY DEF RateInv
<1> QED
  BY <1>1, RateInit_OK, RateStep, PTL DEF RateSpec

(* What the decision to admit is based on, when no list was written back   *)
(* within the window: the count of is_allowed is that of what it admitted. *)
LEMMA CountsAreTrue ==
    ASSUME RateInv, NEW k \in LimiterKeys, ~(clobbered[k] > clock - Window)
    PROVE  Recent(hits[k]) = Recent(admitted[k])
<1>1. /\ RateTypeOK /\ ListOK(k) /\ admitted[k] \in Lists
      /\ clobbered[k] \in 0..clock
  BY DEF RateInv, RateTypeOK
<1>2. \A hit \in Recent(admitted[k]) : hit[1] > clobbered[k]
  <2>1. clock \in Nat /\ Window \in Nat
    BY <1>1, Limits
  <2>2. clobbered[k] <= clock - Window
    BY <1>1, <2>1
  <2>3. \A hit \in Recent(admitted[k]) : hit[1] \in 1..clock /\ hit[1] > clock - Window
    BY <1>1, ListFacts DEF Recent
  <2> QED
    BY <1>1, <2>1, <2>2, <2>3
<1> QED
  BY <1>1, <1>2 DEF ListOK, Recent

(* A client exceeds its limit, and the evaluator's budget is not even then *)
(* exceeded, only if a usage query has written back a list without one of  *)
(* the hits: however requests, queries and changes of limits interleave.   *)
THEOREM OnlyQueriesExceed == RateSpec => OverLimitOnlyByQuery
<1> DEFINE Held(k) ==
             LET before == Cardinality(Recent(admitted[k])) IN
             admitted'[k] # admitted[k] =>
                /\ before < keyLimit[k] \/ clobbered[k] > clock - Window
                /\ k \in Methods => before < EndpointLimit
<1>1. ASSUME RateInv, [RateNext]_rateVars, NEW k \in LimiterKeys PROVE Held(k)
  <2>0. /\ RateTypeOK /\ DOMAIN admitted = LimiterKeys
        /\ \A m \in Methods : Recent(endpointHits[m]) = Recent(admitted[m])
        /\ \A m \in Methods : m \in LimiterKeys
        /\ \A c \in Clients : c \in LimiterKeys /\ c \notin Methods
    BY <1>1, RateAssumption DEF RateInv, RateTypeOK, LimiterKeys
  <2>1. ASSUME NEW j \in LimiterKeys, Allow(j), HasRoom(j),
               j \in Methods => Cardinality(Recent(admitted[j])) < EndpointLimit
        PROVE  Held(k)
    <3>1. CASE k # j
      BY <2>0, <2>1, <3>1 DEF Allow
    <3>2. CASE k = j
      BY <1>1, <2>1, <3>2, CountsAreTrue DEF HasRoom
    <3> QED
      BY <3>1, <3>2
  <2>2. admitted' = admitted => Held(k)
    OBVIOUS
  <2>3. ASSUME NEW c \in Clients, Admit(c) PROVE Held(k)
    BY <2>0, <2>1, <2>2, <2>3 DEF Admit, Refuse
  <2>4. ASSUME NEW m \in Methods, Budget(m) PROVE Held(k)
    BY <2>0, <2>1, <2>2, <2>4 DEF Budget, Refuse
  <2>5. CASE \/ \E i \in LimiterKeys, l \in KeyLimits : SetLimit(i, l)
             \/ \E t \in Askers : \/ \E i \in LimiterKeys : QueryFilters(t, i)
                                  \/ QueryAssigns(t)
             \/ Tick \/ UNCHANGED rateVars
    BY <2>2, <2>5 DEF SetLimit, QueryFilters, QueryAssigns, Tick, rateVars
  <2> QED
    BY <1>1, <2>3, <2>4, <2>5 DEF RateNext
<1>2. RateInv /\ [RateNext]_rateVars
        => [\A k \in LimiterKeys : Held(k)]_rateVars
  BY <1>1
<1>3. RateSpec => []RateInv
  BY RateInit_OK, RateStep, PTL DEF RateSpec
<1> QED
  BY <1>2, <1>3, PTL DEF RateSpec, OverLimitOnlyByQuery

-----------------------------------------------------------------------------
(* Types.  Those of the requests of publication, which every step but a    *)
(* crash changes one at a time.                                            *)
ThreadTyped(t) == at[t] \in PubSteps => /\ request[t] \in PubRequest
                                        /\ request[t].bearer <= epoch

RequestsTyped == /\ at \in [Publishers -> PubAnswered \cup PubSteps]
                 /\ request \in [Publishers -> PubRequest \cup {Idle}]
                 /\ \A t \in Publishers : ThreadTyped(t)

LEMMA PubTypeParts ==
    PubTypeOK <=>
       /\ RequestsTyped
       /\ policies \in TenantPolicy /\ policyRow \in TenantPolicy \cup {NoRow}
       /\ shared \in BOOLEAN
       /\ epoch \in 1..MaxEpoch /\ token \in 0..epoch
       /\ works \subseteq {KeyOf[i] : i \in Articles}
       /\ publications \subseteq [n : 1..taken, item : Articles, to : Destinations]
       /\ taken \in 0..MaxPubRequests
       /\ unheard \subseteq accepted /\ accepted \subseteq 1..taken
       /\ intended \in TenantPolicy
       /\ lost \in BOOLEAN /\ doubtful \in BOOLEAN
BY DEF PubTypeOK, RequestsTyped, ThreadTyped

LEMMA LocalsTyped ==
    ASSUME RequestsTyped, NEW t \in Publishers, NEW r \in PubRequest,
           NEW step \in PubAnswered \cup PubSteps,
           GoTo(t, step), Locals(t, r), r.bearer <= epoch, epoch' = epoch
    PROVE  RequestsTyped'
<1>1. /\ at' \in [Publishers -> PubAnswered \cup PubSteps]
      /\ request' \in [Publishers -> PubRequest \cup {Idle}]
  BY DEF RequestsTyped, GoTo, Locals
<1>2. /\ at'[t] = step /\ request'[t] = r
      /\ \A u \in Publishers \ {t} : at'[u] = at[u] /\ request'[u] = request[u]
  BY DEF RequestsTyped, GoTo, Locals
<1>3. \A u \in Publishers : ThreadTyped(u)'
  BY <1>2 DEF RequestsTyped, ThreadTyped
<1> QED
  BY <1>1, <1>3 DEF RequestsTyped

LEMMA ReplyTyped ==
    ASSUME RequestsTyped, NEW t \in Publishers, at[t] \in PubSteps,
           NEW step \in PubAnswered \cup PubSteps,
           Reply(t, step), epoch' = epoch
    PROVE  RequestsTyped'
<1>1. request[t] \in PubRequest /\ request[t].bearer <= epoch
  BY DEF RequestsTyped, ThreadTyped
<1>2. GoTo(t, step) /\ Locals(t, request[t])
  BY DEF RequestsTyped, Reply, Locals
<1> QED
  BY <1>1, <1>2, LocalsTyped

(* The requests as they arrive, and the policy an update builds.           *)
LEMMA DefaultTyped == DefaultTenantPolicy \in TenantPolicy
BY DEF DefaultTenantPolicy, TenantPolicy


LEMMA MergedTyped ==
    ASSUME NEW u \in Updates, NEW p \in TenantPolicy
    PROVE  [f \in Fields |-> IF f \in u.gives THEN u.to[f] ELSE p[f]] \in TenantPolicy
<1> DEFINE m == [f \in Fields |-> IF f \in u.gives THEN u.to[f] ELSE p[f]]
<1>1. u.to \in TenantPolicy
  BY PublicationAssumption
<1>2. /\ m["destinations"] \in SUBSET Destinations
      /\ m["works"] \in BOOLEAN
  BY <1>1 DEF Fields, TenantPolicy
<1>3. m = [destinations |-> m["destinations"], works |-> m["works"]]
  BY DEF Fields
<1> HIDE DEF m
<1>4. m \in TenantPolicy
  BY <1>2, <1>3 DEF TenantPolicy
<1> QED
  BY <1>4 DEF m

LEMMA AsksTyped ==
    ASSUME NEW n \in Nat
    PROVE  /\ \A u \in Updates, p \in TenantPolicy, b \in BOOLEAN :
                 [Blank(n) EXCEPT !.op = "update", !.update = u, !.policy = p,
                                  !.alone = b] \in PubRequest
           /\ [Blank(n) EXCEPT !.op = "delete"] \in PubRequest
           /\ \A i \in Articles, d \in Destinations :
                 [Blank(n) EXCEPT !.op = "publish", !.item = i, !.to = d]
                    \in PubRequest
           /\ \A i \in Articles :
                 [Blank(n) EXCEPT !.op = "status", !.item = i, !.to = "works"]
                    \in PubRequest
           /\ Blank(n).bearer = 0
<1>1. /\ (CHOOSE i \in Articles : TRUE) \in Articles
      /\ (CHOOSE u \in Updates : TRUE) \in Updates
  BY PublicationAssumption
<1>2. /\ Elsewhere \in Destinations /\ "works" \in Destinations
  BY DEF Destinations
<1> QED
  BY <1>1, <1>2, DefaultTyped DEF Blank, PubRequest

(* The steps of requests, by what else they change.                        *)
LEMMA StepsTyped ==
    ASSUME PubTypeOK, NEW t \in Publishers, ServePublisher(t)
    PROVE  RequestsTyped'
<1>0. /\ RequestsTyped
      /\ policies \in TenantPolicy /\ taken \in Nat /\ taken + 1 \in Nat
      /\ epoch \in Nat /\ token \in Nat /\ token <= epoch
      /\ MaxEpoch \in Nat /\ MaxPubRequests \in Nat
  <2>1. taken \in 0..MaxPubRequests /\ epoch \in 1..MaxEpoch /\ token \in 0..epoch
    BY PubTypeParts
  <2> QED
    BY PubTypeParts, <2>1, PublicationAssumption
<1>1. ASSUME NEW u \in Updates, ReadPolicy(t, u) PROVE RequestsTyped'
  <2> DEFINE mine == [Blank(taken + 1) EXCEPT !.op = "update", !.update = u,
                        !.policy = Merged(u, policies), !.alone = ~(Updating # {})]
  <2>1. mine \in PubRequest /\ mine.bearer = 0
    <3>1. Merged(u, policies) \in TenantPolicy
      BY <1>0, MergedTyped DEF Merged
    <3>2. (~(Updating # {})) \in BOOLEAN
      OBVIOUS
    <3>3. mine \in PubRequest
      BY <1>0, <3>1, <3>2, AsksTyped
    <3> QED
      BY <3>3 DEF Blank
  <2> HIDE DEF mine
  <2>2. /\ request' = [s \in Publishers |->
                        IF s = t THEN mine
                        ELSE IF s \in Updating
                             THEN [request[s] EXCEPT !.alone = FALSE]
                             ELSE request[s]]
        /\ at' = [at EXCEPT ![t] = "put"] /\ epoch' = epoch
    BY <1>1 DEF ReadPolicy, Take, GoTo, outsideVars, mine
  <2>3. ASSUME NEW s \in Updating
        PROVE  /\ [request[s] EXCEPT !.alone = FALSE] \in PubRequest
               /\ [request[s] EXCEPT !.alone = FALSE].bearer = request[s].bearer
    <3>1. request[s] \in PubRequest
      BY <1>0 DEF Updating, RequestsTyped, ThreadTyped, PubSteps
    <3> QED
      BY <3>1 DEF PubRequest
  <2>4. request' \in [Publishers -> PubRequest \cup {Idle}]
    BY <1>0, <2>1, <2>2, <2>3 DEF RequestsTyped
  <2>5. at' \in [Publishers -> PubAnswered \cup PubSteps]
    BY <1>0, <2>2 DEF RequestsTyped, PubSteps
  <2>6. ASSUME NEW s \in Publishers PROVE ThreadTyped(s)'
    <3>1. CASE s = t
      BY <1>0, <2>1, <2>2, <3>1 DEF ThreadTyped
    <3>2. CASE s # t
      <4>1. ThreadTyped(s) /\ at'[s] = at[s]
        BY <1>0, <2>2, <3>2 DEF RequestsTyped
      <4>2. CASE s \in Updating
        BY <2>2, <2>3, <3>2, <4>1, <4>2 DEF ThreadTyped
      <4>3. CASE s \notin Updating
        BY <2>2, <3>2, <4>1, <4>3 DEF ThreadTyped
      <4> QED
        BY <4>2, <4>3
    <3> QED
      BY <3>1, <3>2
  <2> QED
    BY <2>4, <2>5, <2>6 DEF RequestsTyped
<1>2. ASSUME NEW r \in PubRequest, NEW step \in PubSteps, r.bearer = 0,
             GoTo(t, step), Locals(t, r), UNCHANGED outsideVars
      PROVE  RequestsTyped'
  <2>1. r.bearer <= epoch /\ epoch' = epoch
    BY <1>0, <1>2 DEF outsideVars
  <2> QED
    BY <1>0, <1>2, <2>1, LocalsTyped
<1>3. CASE AskDelete(t)
  <2> DEFINE r == [Blank(taken + 1) EXCEPT !.op = "delete"]
  <2>1. r \in PubRequest /\ r.bearer = 0
    BY <1>0, AsksTyped DEF Blank
  <2>2. GoTo(t, "delete") /\ Locals(t, r) /\ UNCHANGED outsideVars
    BY <1>3 DEF AskDelete, Take
  <2> HIDE DEF r
  <2> QED
    BY <1>2, <2>1, <2>2 DEF PubSteps
<1>4. ASSUME NEW i \in Articles, NEW d \in Destinations, AskPublish(t, i, d)
      PROVE  RequestsTyped'
  <2> DEFINE r == [Blank(taken + 1) EXCEPT !.op = "publish", !.item = i, !.to = d]
  <2>1. r \in PubRequest /\ r.bearer = 0
    BY <1>0, AsksTyped DEF Blank
  <2>2. GoTo(t, "route") /\ Locals(t, r) /\ UNCHANGED outsideVars
    BY <1>4 DEF AskPublish, Take
  <2> HIDE DEF r
  <2> QED
    BY <1>2, <2>1, <2>2 DEF PubSteps
<1>5. ASSUME NEW i \in Articles, AskStatus(t, i)
      PROVE  RequestsTyped'
  <2> DEFINE r == [Blank(taken + 1) EXCEPT !.op = "status", !.item = i, !.to = "works"]
  <2>1. r \in PubRequest /\ r.bearer = 0
    BY <1>0, AsksTyped DEF Blank
  <2>2. GoTo(t, "rows") /\ Locals(t, r) /\ UNCHANGED outsideVars
    BY <1>5 DEF AskStatus, Take
  <2> HIDE DEF r
  <2> QED
    BY <1>2, <2>1, <2>2 DEF PubSteps
<1>6. ASSUME \/ PutPolicyInMemory(t) \/ PersistPolicy(t) \/ PersistFails(t)
             \/ DeleteRow(t) \/ Route(t) \/ Post(t) \/ PostFails(t)
             \/ KeepToken(t) \/ Save(t) \/ SaveFails(t)
             \/ FindRows(t) \/ Fetch(t)
      PROVE  RequestsTyped'
  <2>1. /\ at[t] \in PubSteps /\ epoch' = epoch
        /\ \E step \in PubAnswered \cup PubSteps : Reply(t, step)
    BY <1>6 DEF PutPolicyInMemory, PersistPolicy, PersistFails, DeleteRow, Route,
                Post, PostFails, KeepToken, Save, SaveFails, FindRows, Fetch, Accept,
                Reply, outsideVars, PubAnswered, PubSteps
  <2> QED
    BY <1>0, <2>1, ReplyTyped
<1>7. CASE ReadToken(t)
  <2> DEFINE step == IF token = 0 THEN "enroll" ELSE NextCall(t)
             r == [request[t] EXCEPT !.bearer = token]
  <2>1. step \in PubSteps
    BY DEF NextCall, PubSteps
  <2>2. r \in PubRequest /\ r.bearer = token
    <3>1. request[t] \in PubRequest
      BY <1>0, <1>7 DEF ReadToken, RequestsTyped, ThreadTyped, PubSteps
    <3> QED
      BY <1>0, <3>1 DEF PubRequest
  <2>3. GoTo(t, step) /\ Locals(t, r) /\ epoch' = epoch
    BY <1>7 DEF ReadToken, outsideVars
  <2> HIDE DEF step, r
  <2> QED
    BY <1>0, <2>1, <2>2, <2>3, LocalsTyped
<1>8. CASE Enroll(t)
  <2>1. at[t] \in PubSteps /\ epoch' = epoch
    BY <1>8 DEF Enroll, PubSteps, outsideVars
  <2>2. CASE Reply(t, "bad_gateway")
    BY <1>0, <2>1, <2>2, ReplyTyped DEF PubAnswered
  <2>3. CASE /\ GoTo(t, IF at[t] = "enroll" THEN NextCall(t) ELSE "refetch")
             /\ Locals(t, [request[t] EXCEPT !.bearer = epoch, !.fresh = TRUE])
    <3> DEFINE step == IF at[t] = "enroll" THEN NextCall(t) ELSE "refetch"
               r == [request[t] EXCEPT !.bearer = epoch, !.fresh = TRUE]
    <3>1. step \in PubSteps
      BY DEF NextCall, PubSteps
    <3>2. r \in PubRequest /\ r.bearer = epoch
      <4>1. request[t] \in PubRequest
        BY <1>0, <2>1 DEF RequestsTyped, ThreadTyped
      <4> QED
        BY <1>0, <4>1 DEF PubRequest
    <3>3. GoTo(t, step) /\ Locals(t, r)
      BY <2>3
    <3> HIDE DEF step, r
    <3> QED
      BY <1>0, <2>1, <3>1, <3>2, <3>3, LocalsTyped
  <2> QED
    BY <1>8, <2>2, <2>3 DEF Enroll
<1> QED
  BY <1>1, <1>3, <1>4, <1>5, <1>6, <1>7, <1>8 DEF ServePublisher

(* What a step of a request leaves in the rest of the state.               *)
LEMMA OutcomesTyped ==
    ASSUME PubInv, PubTypeOK, NEW t \in Publishers, ServePublisher(t)
    PROVE  PubTypeOK'
<1> DEFINE RowsTyped == publications \subseteq
                          [n : 1..taken, item : Articles, to : Destinations]
           PoliciesTyped == /\ policies \in TenantPolicy
                            /\ policyRow \in TenantPolicy \cup {NoRow}
                            /\ intended \in TenantPolicy
                            /\ lost \in BOOLEAN /\ doubtful \in BOOLEAN
           OutsideTyped == /\ works \subseteq {KeyOf[i] : i \in Articles}
                           /\ unheard \subseteq accepted /\ accepted \subseteq 1..taken
<1>0. /\ RowsTyped /\ PoliciesTyped /\ OutsideTyped /\ RequestsTyped
      /\ taken \in 0..MaxPubRequests /\ taken \in Nat
      /\ token \in 0..epoch /\ epoch \in 1..MaxEpoch /\ shared \in BOOLEAN
      /\ MaxPubRequests \in Nat /\ MaxEpoch \in Nat
  <2>1. taken \in 0..MaxPubRequests
    BY PubTypeParts
  <2> QED
    BY PubTypeParts, <2>1, PublicationAssumption
<1>1. at[t] \in PubSteps => /\ request[t] \in PubRequest
                            /\ request[t].bearer <= epoch
                            /\ request[t].n \in 1..taken
  BY <1>0 DEF RequestsTyped, ThreadTyped, PubInv, Numbered, RequestOK, Busy
<1>2. UNCHANGED <<epoch, shared>>
  BY DEF ServePublisher, ReadPolicy, PutPolicyInMemory, PersistPolicy, PersistFails,
         AskDelete, DeleteRow, AskPublish, Route, ReadToken, Enroll, Post, PostFails,
         KeepToken, Save, SaveFails, AskStatus, FindRows, Fetch, Accept, outsideVars
<1>3. taken' \in 0..MaxPubRequests /\ (1..taken) \subseteq (1..taken')
  <2>1. \/ taken' = taken
        \/ taken' = taken + 1 /\ taken < MaxPubRequests
    BY DEF ServePublisher, ReadPolicy, PutPolicyInMemory, PersistPolicy, PersistFails,
           AskDelete, DeleteRow, AskPublish, Route, ReadToken, Enroll, Post, PostFails,
           KeepToken, Save, SaveFails, AskStatus, FindRows, Fetch, Take
  <2> QED
    BY <1>0, <2>1
<1>4. token' \in 0..epoch'
  <2>1. CASE KeepToken(t)
    <3>1. request[t].bearer \in Nat /\ request[t].bearer <= epoch
      BY <1>1, <2>1 DEF KeepToken, PubSteps, PubRequest
    <3> QED
      BY <1>0, <1>2, <2>1, <3>1 DEF KeepToken
  <2>2. CASE ~KeepToken(t)
    <3>1. token' = token
      BY <2>2 DEF ServePublisher, ReadPolicy, PutPolicyInMemory, PersistPolicy,
             PersistFails, AskDelete, DeleteRow, AskPublish, Route, ReadToken,
             Enroll, Post, PostFails, Save, SaveFails, AskStatus, FindRows, Fetch
    <3> QED
      BY <1>0, <1>2, <3>1
  <2> QED
    BY <2>1, <2>2
<1>5. RowsTyped'
  <2>1. \A p : p \in [n : 1..taken, item : Articles, to : Destinations]
                 => p \in [n : 1..taken', item : Articles, to : Destinations]
    BY <1>3
  <2>2. CASE Save(t)
    <3>1. publications' = publications \cup
            {[n |-> request[t].n, item |-> request[t].item, to |-> request[t].to]}
      BY <2>2 DEF Save
    <3>2. /\ request[t].n \in 1..taken /\ request[t].item \in Articles
          /\ request[t].to \in Destinations
      BY <1>1, <2>2 DEF Save, PubSteps, PubRequest
    <3>3. publications' \subseteq [n : 1..taken, item : Articles, to : Destinations]
      BY <1>0, <3>1, <3>2
    <3> QED
      BY <2>1, <3>3
  <2>3. CASE ~Save(t)
    <3>1. publications' = publications
      BY <2>3 DEF ServePublisher, ReadPolicy, PutPolicyInMemory, PersistPolicy,
             PersistFails, AskDelete, DeleteRow, AskPublish, Route, ReadToken,
             Enroll, Post, PostFails, KeepToken, SaveFails, AskStatus, FindRows, Fetch
    <3> QED
      BY <1>0, <2>1, <3>1
  <2> QED
    BY <2>2, <2>3
<1>6. PoliciesTyped'
  <2>1. ASSUME NEW u \in Updates, ReadPolicy(t, u) PROVE PoliciesTyped'
    BY <1>0, <2>1 DEF ReadPolicy
  <2>2. CASE PutPolicyInMemory(t)
    <3>1. /\ request[t] \in PubRequest /\ request[t].update \in Updates
          /\ request[t].policy \in TenantPolicy
      BY <1>1, <2>2 DEF PutPolicyInMemory, PubSteps, PubRequest
    <3>2. intended' \in TenantPolicy
      BY <1>0, <2>2, <3>1, MergedTyped DEF PutPolicyInMemory
    <3> QED
      BY <1>0, <2>2, <3>1, <3>2 DEF PutPolicyInMemory
  <2>3. CASE PersistPolicy(t)
    <3>1. request[t].policy \in TenantPolicy /\ request[t].alone \in BOOLEAN
      BY <1>1, <2>3 DEF PersistPolicy, PubSteps, PubRequest
    <3> QED
      BY <1>0, <2>3, <3>1 DEF PersistPolicy
  <2>4. CASE PersistFails(t) \/ DeleteRow(t)
    BY <1>0, <2>4 DEF PersistFails, DeleteRow
  <2>5. CASE \/ AskDelete(t) \/ Route(t) \/ ReadToken(t) \/ Enroll(t)
             \/ Post(t) \/ PostFails(t) \/ KeepToken(t) \/ Save(t)
             \/ SaveFails(t) \/ FindRows(t) \/ Fetch(t)
             \/ \E i \in Articles, d \in Destinations : AskPublish(t, i, d)
             \/ \E i \in Articles : AskStatus(t, i)
    <3>1. UNCHANGED policyVars
      BY <2>5 DEF AskDelete, AskPublish, Route, ReadToken, Enroll, Post, PostFails,
             KeepToken, Save, SaveFails, AskStatus, FindRows, Fetch
    <3> QED
      BY <1>0, <3>1 DEF policyVars
  <2> QED
    BY <2>1, <2>2, <2>3, <2>4, <2>5 DEF ServePublisher
<1>7. OutsideTyped'
  <2>1. CASE Post(t)
    <3>1. /\ request[t].n \in 1..taken /\ request[t].item \in Articles
      BY <1>1, <2>1 DEF Post, PubSteps, PubRequest
    <3> QED
      BY <1>0, <1>3, <2>1, <3>1 DEF Post, Accept
  <2>2. CASE SaveFails(t)
    <3>1. request[t].n \in accepted
      BY <2>2 DEF SaveFails, PubInv, Numbered, OnlyPublications, RequestOK, Busy, PubSteps
    <3> QED
      BY <1>0, <1>3, <2>2, <3>1 DEF SaveFails
  <2>3. CASE ~Post(t) /\ ~SaveFails(t)
    <3>1. UNCHANGED <<works, accepted, unheard>>
      BY <2>3 DEF ServePublisher, ReadPolicy, PutPolicyInMemory, PersistPolicy,
             PersistFails, AskDelete, DeleteRow, AskPublish, Route, ReadToken,
             Enroll, PostFails, KeepToken, Save, AskStatus, FindRows, Fetch,
             outsideVars
    <3> QED
      BY <1>0, <1>3, <3>1
  <2> QED
    BY <2>1, <2>2, <2>3
<1>8. RequestsTyped'
  BY StepsTyped
<1>9. PubTypeOK' <=>
        /\ RequestsTyped' /\ PoliciesTyped' /\ RowsTyped' /\ OutsideTyped'
        /\ shared' \in BOOLEAN /\ epoch' \in 1..MaxEpoch /\ token' \in 0..epoch'
        /\ taken' \in 0..MaxPubRequests
  BY DEF PubTypeOK, RequestsTyped, ThreadTyped
<1> QED
  BY <1>0, <1>2, <1>3, <1>4, <1>5, <1>6, <1>7, <1>8, <1>9

LEMMA PubTypeStep == PubInv /\ PubTypeOK /\ [PubNext]_pubVars => PubTypeOK'
<1> SUFFICES ASSUME PubInv, PubTypeOK, [PubNext]_pubVars PROVE PubTypeOK'
  OBVIOUS
<1>1. CASE \E t \in Publishers : ServePublisher(t)
  BY <1>1, OutcomesTyped
<1>2. CASE WorksRestarts
  <2>1. epoch \in 1..MaxEpoch /\ token \in 0..epoch /\ MaxEpoch \in Nat
    BY PublicationAssumption DEF PubTypeOK
  <2>2. epoch' \in 1..MaxEpoch /\ token' \in 0..epoch' /\ epoch <= epoch'
    BY <1>2, <2>1 DEF WorksRestarts
  <2>3. RequestsTyped'
    <3>1. \A t \in Publishers : at[t] \in PubSteps => request[t].bearer \in Nat
      BY DEF PubTypeOK, PubRequest
    <3> QED
      BY <1>2, <2>1, <2>2, <3>1 DEF PubTypeOK, RequestsTyped, ThreadTyped, WorksRestarts
  <2>4. UNCHANGED <<policies, policyRow, shared, works, publications, taken,
                    unheard, accepted, intended, lost, doubtful>>
    BY <1>2 DEF WorksRestarts, policyVars
  <2> DEFINE Others ==
               /\ policies \in TenantPolicy /\ policyRow \in TenantPolicy \cup {NoRow}
               /\ shared \in BOOLEAN
               /\ works \subseteq {KeyOf[i] : i \in Articles}
               /\ publications \subseteq [n : 1..taken, item : Articles, to : Destinations]
               /\ taken \in 0..MaxPubRequests
               /\ unheard \subseteq accepted /\ accepted \subseteq 1..taken
               /\ intended \in TenantPolicy
               /\ lost \in BOOLEAN /\ doubtful \in BOOLEAN
  <2>5. Others
    BY DEF PubTypeOK
  <2>6. Others'
    BY <2>4, <2>5
  <2>7. RequestsTyped' /\ Others' /\ epoch' \in 1..MaxEpoch /\ token' \in 0..epoch'
           => PubTypeOK'
    BY DEF PubTypeOK, RequestsTyped, ThreadTyped
  <2> QED
    BY <2>2, <2>3, <2>6, <2>7
<1>3. CASE PubCrash
  <2>1. /\ at' = [t \in Publishers |-> "idle"]
        /\ request' = [t \in Publishers |-> Idle]
        /\ policies' = DefaultTenantPolicy /\ intended' = DefaultTenantPolicy
        /\ token' = 0 /\ lost' = FALSE /\ doubtful' = TRUE
        /\ unheard' = unheard \cup (CutOff \cap accepted)
        /\ UNCHANGED <<policyRow, shared, publications, taken, epoch, works, accepted>>
    BY <1>3 DEF PubCrash
  <2>2. RequestsTyped'
    BY <2>1 DEF RequestsTyped, ThreadTyped, PubAnswered, PubSteps
  <2>3. epoch \in 1..MaxEpoch /\ 0 \in 0..epoch
    BY PublicationAssumption DEF PubTypeOK
  <2>4. unheard' \subseteq accepted
    BY <2>1 DEF PubTypeOK
  <2>5. PubTypeOK' <=>
           /\ RequestsTyped'
           /\ policies' \in TenantPolicy /\ policyRow' \in TenantPolicy \cup {NoRow}
           /\ shared' \in BOOLEAN
           /\ epoch' \in 1..MaxEpoch /\ token' \in 0..epoch'
           /\ works' \subseteq {KeyOf[i] : i \in Articles}
           /\ publications' \subseteq [n : 1..taken', item : Articles, to : Destinations]
           /\ taken' \in 0..MaxPubRequests
           /\ unheard' \subseteq accepted' /\ accepted' \subseteq 1..taken'
           /\ intended' \in TenantPolicy
           /\ lost' \in BOOLEAN /\ doubtful' \in BOOLEAN
    BY DEF PubTypeOK, RequestsTyped, ThreadTyped
  <2> QED
    BY <2>1, <2>2, <2>3, <2>4, <2>5, DefaultTyped DEF PubTypeOK
<1>4. CASE UNCHANGED pubVars
  BY <1>4 DEF pubVars, PubTypeOK
<1> QED
  BY <1>1, <1>2, <1>3, <1>4 DEF PubNext

LEMMA PublicationTyped == PubSpec => []PubTypeOK
<1>1. PubInit => PubTypeOK
  <2>1. SUFFICES ASSUME PubInit PROVE PubTypeOK
    OBVIOUS
  <2>2. 1 \in 1..MaxEpoch /\ 0 \in 0..1 /\ 0 \in 0..MaxPubRequests
    BY PublicationAssumption
  <2>3. RequestsTyped
    BY <2>1 DEF PubInit, RequestsTyped, ThreadTyped, PubAnswered, PubSteps
  <2> QED
    BY <2>1, <2>2, <2>3, PubTypeParts, DefaultTyped DEF PubInit
<1> QED
  BY <1>1, PubInvInit, PubStep, PubTypeStep, PTL DEF PubSpec

-----------------------------------------------------------------------------
(* Sensing.  A sighting is answered as the first by a thread that found no *)
(* candidate, and none is found again once there is one: so there are at   *)
(* most as many first answers as threads.                                  *)
FoundNone(s) == {t \in Sensors : Registers(t, s) /\ sensing[t].existing = NoCandidate}

FirstsOK(s) ==
    /\ registry[s] = NoCandidate => firsts[s] = 0
    /\ firsts[s] + Cardinality(FoundNone(s)) <= Cardinality(Sensors)

SensorTyped(t) == sensing[t] # NoRecord =>
                     /\ sensing[t].signal \in Signals
                     /\ sensing[t].record \in Records
                     /\ sensing[t].existing \in Candidate \cup {NoCandidate}

SenseTypeInv == /\ registry \in [Signals -> Candidate \cup {NoCandidate}]
                /\ sighted \in [Signals -> SUBSET Paths]
                /\ firsts \in [Signals -> Nat] /\ mixed \subseteq Signals
                /\ DOMAIN sensing = Sensors
                /\ \A t \in Sensors : SensorTyped(t)
                /\ \A s \in Signals : FirstsOK(s)

LEMMA FoundNoneFinite ==
    ASSUME NEW s
    PROVE  /\ IsFiniteSet(FoundNone(s)) /\ Cardinality(FoundNone(s)) \in Nat
           /\ Cardinality(FoundNone(s)) <= Cardinality(Sensors)
           /\ Cardinality(Sensors) \in Nat
<1>1. IsFiniteSet(Sensors) /\ FoundNone(s) \in SUBSET Sensors
  BY SensingAssumption DEF FoundNone
<1> QED
  BY <1>1, FS_Subset, FS_CardinalityType

LEMMA FoundNoneFiniteNext ==
    ASSUME NEW s
    PROVE  /\ IsFiniteSet(FoundNone(s)') /\ Cardinality(FoundNone(s)') \in Nat
           /\ Cardinality(FoundNone(s)') <= Cardinality(Sensors)
<1>1. IsFiniteSet(Sensors) /\ FoundNone(s)' \in SUBSET Sensors
  BY SensingAssumption DEF FoundNone
<1> QED
  BY <1>1, FS_Subset, FS_CardinalityType

LEMMA CorrelatedTyped ==
    ASSUME NEW x \in Candidate \cup {NoCandidate}, NEW r \in Records
    PROVE  /\ Correlated(x, r) \in Candidate
           /\ Correlated(x, r) # NoCandidate
<1>1. /\ r.correlated \subseteq Paths /\ r.kind \in Kinds
      /\ "attention_candidate" \in Kinds /\ NoCandidate \notin Candidate
  BY SensingAssumption DEF Record, Kinds
<1>2. CASE x = NoCandidate
  BY <1>1, <1>2 DEF Correlated, Candidate
<1>3. CASE x # NoCandidate
  <2>1. x \in Candidate /\ x.paths \subseteq Paths /\ x.kind \in Kinds
    BY <1>3 DEF Candidate
  <2>2. PICK merged : merged = x.paths \cup r.correlated
    OBVIOUS
  <2>3. merged \subseteq Paths
    BY <1>1, <2>1, <2>2
  <2>4. PICK kind \in Kinds :
           kind = IF Cardinality(merged) > 1 THEN "attention_candidate" ELSE x.kind
    BY <1>1, <2>1
  <2>5. Correlated(x, r) = [x EXCEPT !.paths = merged, !.kind = kind]
    <3>1. Correlated(x, r) = [x EXCEPT !.paths = merged,
                                !.kind = IF Cardinality(merged) > 1
                                         THEN "attention_candidate" ELSE @]
      BY <1>3, <2>2 DEF Correlated
    <3> QED
      BY <2>1, <2>4, <3>1 DEF Candidate
  <2> QED
    BY <1>1, <2>1, <2>3, <2>5 DEF Candidate
<1> QED
  BY <1>2, <1>3

LEMMA SenseTypeStep == SenseTypeInv /\ [SenseNext]_senseVars => SenseTypeInv'
<1> SUFFICES ASSUME SenseTypeInv, [SenseNext]_senseVars PROVE SenseTypeInv'
  OBVIOUS
<1>1. ASSUME NEW t \in Sensors, NEW s \in Signals, NEW r \in Records, Submit(t, s, r)
      PROVE  SenseTypeInv'
  <2>1. PICK new : new = [signal |-> s, record |-> r, existing |-> registry[s]]
    OBVIOUS
  <2>2. /\ sensing' = [sensing EXCEPT ![t] = new] /\ sensing[t] = NoRecord
        /\ UNCHANGED <<registry, sighted, firsts>>
        /\ mixed' \subseteq Signals
    BY <1>1, <2>1 DEF Submit, SenseTypeInv
  <2>3. /\ sensing'[t] = new /\ \A u \in Sensors \ {t} : sensing'[u] = sensing[u]
        /\ DOMAIN sensing' = Sensors
        /\ registry[s] \in Candidate \cup {NoCandidate}
    BY <2>2 DEF SenseTypeInv
  <2>4. \A u \in Sensors : SensorTyped(u)'
    BY <2>1, <2>3 DEF SenseTypeInv, SensorTyped
  <2>5. ASSUME NEW q \in Signals PROVE FirstsOK(q)'
    <3>1. FirstsOK(q)
      BY DEF SenseTypeInv
    <3>2. CASE registry[q] = NoCandidate
      <4>1. firsts'[q] = 0
        BY <2>2, <3>1, <3>2 DEF FirstsOK
      <4> QED
        BY <4>1, FoundNoneFiniteNext DEF FirstsOK
    <3>3. CASE registry[q] # NoCandidate
      <4>1. FoundNone(q)' = FoundNone(q)
        BY <2>1, <2>2, <2>3, <3>3 DEF FoundNone, Registers
      <4> QED
        BY <2>2, <3>1, <3>3, <4>1 DEF FirstsOK
    <3> QED
      BY <3>2, <3>3
  <2> QED
    BY <2>2, <2>3, <2>4, <2>5 DEF SenseTypeInv
<1>2. ASSUME NEW t \in Sensors, Register(t) PROVE SenseTypeInv'
  <2>1. PICK s \in Signals, r \in Records, x \in Candidate \cup {NoCandidate} :
           /\ s = sensing[t].signal /\ r = sensing[t].record
           /\ x = sensing[t].existing /\ Registers(t, s)
    BY <1>2 DEF Register, SenseTypeInv, SensorTyped, Registers
  <2>2. /\ registry' = [registry EXCEPT ![s] = Correlated(x, r)]
        /\ sighted' = [sighted EXCEPT ![s] = @ \cup r.correlated]
        /\ firsts' = [firsts EXCEPT ![s] = IF x = NoCandidate THEN @ + 1 ELSE @]
        /\ sensing' = [sensing EXCEPT ![t] = NoRecord]
        /\ mixed' = mixed
    BY <1>2, <2>1 DEF Register
  <2>3. /\ sensing'[t] = NoRecord /\ \A u \in Sensors \ {t} : sensing'[u] = sensing[u]
        /\ DOMAIN sensing' = Sensors
    BY <2>2 DEF SenseTypeInv
  <2>4. \A u \in Sensors : SensorTyped(u)'
    BY <2>3 DEF SenseTypeInv, SensorTyped
  <2>5. registry' \in [Signals -> Candidate \cup {NoCandidate}]
    BY <2>2, CorrelatedTyped DEF SenseTypeInv
  <2>6. sighted' \in [Signals -> SUBSET Paths]
    <3>1. r.correlated \subseteq Paths
      BY SensingAssumption DEF Record
    <3> QED
      BY <2>2, <3>1 DEF SenseTypeInv
  <2>7. ASSUME NEW q \in Signals PROVE FirstsOK(q)'
    <3>1. FirstsOK(q) /\ FoundNone(q)' = FoundNone(q) \ {t}
      BY <2>3 DEF SenseTypeInv, FoundNone, Registers
    <3>2. PICK n, m, k :
             /\ n = Cardinality(FoundNone(q)) /\ m = Cardinality(FoundNone(q)')
             /\ k = Cardinality(Sensors)
      OBVIOUS
    <3>3. /\ n \in Nat /\ k \in Nat
           /\ m = IF t \in FoundNone(q) THEN n - 1 ELSE n
      <4> DEFINE F == FoundNone(q)
      <4>1. IsFiniteSet(F) /\ n \in Nat /\ k \in Nat
        BY <3>2, FoundNoneFinite
      <4>2. m = Cardinality(F \ {t}) /\ n = Cardinality(F)
        BY <3>1, <3>2
      <4> HIDE DEF F
      <4>3. m = IF t \in F THEN n - 1 ELSE n
        BY <4>1, <4>2, FS_RemoveElement
      <4> QED
        BY <4>1, <4>3 DEF F
    <3>4. CASE q # s
      <4>1. registry'[q] = registry[q] /\ firsts'[q] = firsts[q] /\ t \notin FoundNone(q)
        BY <2>1, <2>2, <3>4 DEF SenseTypeInv, FoundNone, Registers
      <4> QED
        BY <3>1, <3>2, <3>3, <4>1 DEF FirstsOK
    <3>5. CASE q = s
      <4>1. /\ registry'[q] # NoCandidate
            /\ firsts'[q] = IF x = NoCandidate THEN firsts[q] + 1 ELSE firsts[q]
            /\ t \in FoundNone(q) <=> x = NoCandidate
        BY <2>1, <2>2, <3>5, CorrelatedTyped DEF SenseTypeInv, FoundNone
      <4>2. firsts[q] \in Nat /\ firsts[q] + n <= k
        BY <3>1, <3>2 DEF FirstsOK, SenseTypeInv
      <4>3. firsts'[q] + m <= k
        BY <3>3, <4>1, <4>2
      <4> QED
        BY <3>2, <4>1, <4>3 DEF FirstsOK
    <3> QED
      BY <3>4, <3>5
  <2>8. firsts' \in [Signals -> Nat] /\ mixed' \subseteq Signals
    BY <2>2 DEF SenseTypeInv
  <2> QED
    BY <2>3, <2>4, <2>5, <2>6, <2>7, <2>8 DEF SenseTypeInv
<1>3. CASE SenseCrash
  <2>1. \A s \in Signals : FirstsOK(s)'
    BY <1>3, FoundNoneFiniteNext DEF SenseCrash, FirstsOK
  <2> QED
    BY <1>3, <2>1 DEF SenseCrash, SenseTypeInv, SensorTyped
<1>4. CASE UNCHANGED senseVars
  <2>1. \A s \in Signals : FoundNone(s)' = FoundNone(s)
    BY <1>4 DEF senseVars, FoundNone, Registers
  <2> QED
    BY <1>4, <2>1 DEF senseVars, SenseTypeInv, SensorTyped, FirstsOK
<1> QED
  BY <1>1, <1>2, <1>3, <1>4 DEF SenseNext

LEMMA SensingTyped == SenseSpec => []SenseTypeOK
<1>1. SenseInit => SenseTypeInv
  BY FoundNoneFinite DEF SenseInit, SenseTypeInv, SensorTyped, FirstsOK
<1>2. SenseTypeInv => SenseTypeOK
  <2>1. SUFFICES ASSUME SenseTypeInv PROVE SenseTypeOK
    OBVIOUS
  <2>2. ASSUME NEW s \in Signals PROVE firsts[s] \in 0..Cardinality(Sensors)
    BY <2>1, FoundNoneFinite DEF SenseTypeInv, FirstsOK
  <2>3. firsts \in [Signals -> 0..Cardinality(Sensors)]
    BY <2>1, <2>2 DEF SenseTypeInv
  <2> QED
    BY <2>1, <2>3 DEF SenseTypeInv, SensorTyped, SenseTypeOK
<1> QED
  BY <1>1, <1>2, SenseTypeStep, PTL DEF SenseSpec

-----------------------------------------------------------------------------
(* Webhooks.                                                               *)
KeeperTyped(t) == keeper[t] # Rest => /\ keeper[t].op \in {"make", "add", "delete"}
                                      /\ keeper[t].hook \in HookIds
                                      /\ keeper[t].dict \in {0} \cup DOMAIN dicts

FirerTyped(t) == firer[t] # Rest => /\ firer[t].dict \in DOMAIN dicts
                                    /\ firer[t].event \in 1..events
                                    /\ firer[t].seen \subseteq HookIds
                                    /\ firer[t].owed \subseteq HookIds

DeliveriesTyped ==
    /\ \A d \in deliveries : /\ d.event \in 1..events
                             /\ d.to \subseteq Interested /\ d.to # {}
                             /\ d.failed \in 0..MaxAttempts - 1
    /\ told \subseteq Pairs /\ dropped \subseteq Pairs /\ promised \subseteq Pairs

LEMMA HookTypeParts ==
    HooksTypeOK <=>
        /\ \A g \in DOMAIN dicts : dicts[g] \subseteq HookIds
        /\ \A t \in Keepers : KeeperTyped(t)
        /\ \A t \in Firers : FirerTyped(t)
        /\ events \in 0..MaxEvents /\ DeliveriesTyped
        /\ registered \subseteq used /\ used \subseteq HookIds
        /\ raced \in BOOLEAN
BY DEF HooksTypeOK, KeeperTyped, FirerTyped, DeliveriesTyped

LEMMA HookFacts ==
    ASSUME HookInv, HooksTypeOK
    PROVE  /\ events \in Nat /\ MaxEvents \in Nat /\ MaxAttempts \in Nat \ {0}
           /\ Interested \subseteq HookIds
           /\ dicts \in Seq(SUBSET HookIds)
           /\ DOMAIN dicts = 1..Len(dicts) /\ Len(dicts) \in Nat
           /\ DOMAIN keeper = Keepers /\ DOMAIN firer = Firers
<1>1. dicts \in Seq(SUBSET HookIds) /\ DOMAIN keeper = Keepers /\ DOMAIN firer = Firers
  BY DEF HookInv, HookShapes
<1>2. events \in 0..MaxEvents
  BY DEF HooksTypeOK
<1> QED
  BY <1>1, <1>2, WebhooksAssumption

(* A thread that keeps the registry, and what it does to the dicts.        *)
LEMMA KeeperStepTyped ==
    ASSUME HookInv, HooksTypeOK, NEW t \in Keepers,
           \/ \E h \in HookIds : LookForRegistry(t, h) \/ FindHook(t, h)
           \/ MakeRegistry(t) \/ AddHook(t) \/ DeleteHook(t)
    PROVE  HooksTypeOK'
<1>0. /\ \A g \in DOMAIN dicts : dicts[g] \subseteq HookIds
      /\ \A u \in Keepers : KeeperTyped(u)
      /\ \A u \in Firers : FirerTyped(u)
      /\ events \in 0..MaxEvents /\ DeliveriesTyped
      /\ registered \subseteq used /\ used \subseteq HookIds
      /\ raced \in BOOLEAN
      /\ KeeperTyped(t)
  BY HookTypeParts
<1> USE HookFacts
<1>1. ASSUME NEW w, keeper' = [keeper EXCEPT ![t] = w],
             w # Rest => /\ w.op \in {"make", "add", "delete"} /\ w.hook \in HookIds
                         /\ w.dict \in {0} \cup DOMAIN dicts,
             DOMAIN dicts \subseteq DOMAIN dicts'
      PROVE  \A u \in Keepers : KeeperTyped(u)'
  <2>1. keeper'[t] = w /\ \A u \in Keepers \ {t} : keeper'[u] = keeper[u]
    BY <1>1
  <2>2. KeeperTyped(t)'
    BY <1>1, <2>1 DEF KeeperTyped, Rest
  <2>3. \A u \in Keepers \ {t} : KeeperTyped(u)'
    BY <1>0, <1>1, <2>1 DEF KeeperTyped, Rest
  <2> QED
    BY <2>2, <2>3
<1>2. ASSUME UNCHANGED firer, events' = events, DOMAIN dicts \subseteq DOMAIN dicts'
      PROVE  \A u \in Firers : FirerTyped(u)'
  BY <1>0, <1>2 DEF FirerTyped, Rest
<1>3. ASSUME UNCHANGED deliveryVars
      PROVE  DeliveriesTyped' /\ events' \in 0..MaxEvents /\ events' = events
  BY <1>0, <1>3 DEF deliveryVars, DeliveriesTyped, Pairs
<1>4. ASSUME NEW h \in HookIds, LookForRegistry(t, h) PROVE HooksTypeOK'
  <2> DEFINE w == [op |-> IF dicts = <<>> THEN "make" ELSE "add", hook |-> h, dict |-> 0]
  <2>1. /\ w.op \in {"make", "add", "delete"} /\ w.hook \in HookIds
        /\ w.dict \in {0} \cup DOMAIN dicts
    OBVIOUS
  <2>2. /\ keeper' = [keeper EXCEPT ![t] = w] /\ dicts' = dicts /\ firer' = firer
        /\ used' = used \cup {h} /\ registered' = registered /\ raced' = raced
        /\ UNCHANGED deliveryVars
    BY <1>4 DEF LookForRegistry, Keep
  <2> HIDE DEF w
  <2> QED
    BY <1>0, <1>1, <1>2, <1>3, <2>1, <2>2, HookTypeParts DEF HooksTypeOK, KeeperTyped,
       FirerTyped, DeliveriesTyped
<1>5. CASE MakeRegistry(t)
  <2>0. keeper[t] # Rest
    BY <1>5 DEF MakeRegistry, Rest
  <2> DEFINE w == [keeper[t] EXCEPT !.op = "add"]
  <2>1. /\ w.op \in {"make", "add", "delete"} /\ w.hook \in HookIds
        /\ w.dict \in {0} \cup DOMAIN dicts
    <3>1. DOMAIN keeper[t] = {"op", "hook", "dict"}
      BY <1>5 DEF MakeRegistry, HookInv, AdderOK, Adds
    <3> QED
      BY <1>0, <2>0, <3>1 DEF KeeperTyped
  <2>2. /\ keeper' = [keeper EXCEPT ![t] = w] /\ dicts' = Append(dicts, {})
        /\ firer' = firer /\ used' = used /\ registered' = registered
        /\ raced' \in BOOLEAN /\ UNCHANGED deliveryVars
    BY <1>0, <1>5 DEF MakeRegistry, Keep
  <2> HIDE DEF w
  <2>3. /\ DOMAIN dicts \subseteq DOMAIN dicts'
        /\ \A g \in DOMAIN dicts' : dicts'[g] \subseteq HookIds
    BY <1>0, <2>2
  <2> QED
    BY <1>0, <1>1, <1>2, <1>3, <2>1, <2>2, <2>3 DEF HooksTypeOK, KeeperTyped,
       FirerTyped, DeliveriesTyped
<1>6. CASE AddHook(t) \/ DeleteHook(t)
  <2>1. /\ keeper' = [keeper EXCEPT ![t] = Rest] /\ firer' = firer
        /\ used' = used /\ raced' = raced /\ UNCHANGED deliveryVars
    BY <1>6 DEF AddHook, DeleteHook, Keep
  <2>2. keeper[t] # Rest /\ keeper[t].hook \in HookIds
    BY <1>0, <1>6 DEF AddHook, DeleteHook, Rest, KeeperTyped
  <2>3. /\ DOMAIN dicts \subseteq DOMAIN dicts'
        /\ \A g \in DOMAIN dicts' : dicts'[g] \subseteq HookIds
    BY <1>0, <1>6, <2>2 DEF AddHook, DeleteHook
  <2>4. registered' \subseteq used'
    <3>1. CASE AddHook(t)
      BY <1>0, <2>1, <3>1 DEF AddHook, HookInv, AdderOK, Adds
    <3>2. CASE DeleteHook(t)
      BY <1>0, <2>1, <3>2 DEF DeleteHook
    <3> QED
      BY <1>6, <3>1, <3>2
  <2> QED
    BY <1>0, <1>1, <1>2, <1>3, <2>1, <2>3, <2>4 DEF HooksTypeOK, KeeperTyped,
       FirerTyped, DeliveriesTyped
<1>7. ASSUME NEW h \in HookIds, FindHook(t, h) PROVE HooksTypeOK'
  <2> DEFINE w == [op |-> "delete", hook |-> h, dict |-> Len(dicts)]
  <2>1. /\ w.op \in {"make", "add", "delete"} /\ w.hook \in HookIds
        /\ w.dict \in {0} \cup DOMAIN dicts
    OBVIOUS
  <2>2. /\ keeper' = [keeper EXCEPT ![t] = w] /\ dicts' = dicts
        /\ firer' = [f \in Firers |-> IF firer[f] = Rest THEN Rest
                                      ELSE [firer[f] EXCEPT !.owed = @ \ {h}]]
        /\ used' = used /\ registered' = registered \ {h} /\ raced' = raced
        /\ UNCHANGED deliveryVars
    BY <1>7 DEF FindHook, Keep
  <2> HIDE DEF w
  <2>3. ASSUME NEW f \in Firers PROVE FirerTyped(f)'
    <3>1. CASE firer[f] = Rest
      BY <2>2, <3>1 DEF FirerTyped, Rest
    <3>2. CASE firer[f] # Rest
      <4>1. DOMAIN firer[f] = {"op", "event", "dict", "size", "seen", "owed"}
        BY <3>2 DEF HookInv, FirerOK
      <4>2. /\ firer'[f].dict = firer[f].dict /\ firer'[f].event = firer[f].event
            /\ firer'[f].seen = firer[f].seen /\ firer'[f].owed = firer[f].owed \ {h}
        BY <2>2, <3>2, <4>1
      <4> QED
        BY <1>0, <1>3, <2>2, <3>2, <4>2 DEF FirerTyped
    <3> QED
      BY <3>1, <3>2
  <2> QED
    BY <1>0, <1>1, <1>3, <2>1, <2>2, <2>3 DEF HooksTypeOK, KeeperTyped,
       FirerTyped, DeliveriesTyped
<1> QED
  BY <1>4, <1>5, <1>6, <1>7

(* A thread that fires an event.                                           *)
LEMMA FirerStepTyped ==
    ASSUME HookInv, HooksTypeOK, NEW t \in Firers,
           Fire(t) \/ NextHook(t) \/ IterationRaises(t) \/ IterationEnds(t)
    PROVE  HooksTypeOK'
<1>0. /\ \A g \in DOMAIN dicts : dicts[g] \subseteq HookIds
      /\ \A u \in Keepers : KeeperTyped(u)
      /\ \A u \in Firers : FirerTyped(u)
      /\ events \in 0..MaxEvents /\ DeliveriesTyped
      /\ registered \subseteq used /\ used \subseteq HookIds
      /\ raced \in BOOLEAN
      /\ FirerTyped(t)
  BY HookTypeParts
<1> USE HookFacts
<1>1. UNCHANGED <<dicts, keeper, used, registered, raced>>
  BY DEF Fire, NextHook, IterationRaises, IterationEnds
<1>2. ASSUME FirerTyped(t)', \A u \in Firers \ {t} : firer'[u] = firer[u],
             events' \in 0..MaxEvents, events <= events', DeliveriesTyped'
      PROVE  HooksTypeOK'
  <2>1. \A u \in Firers \ {t} : FirerTyped(u)'
    BY <1>0, <1>1, <1>2 DEF FirerTyped, Rest
  <2> QED
    BY <1>0, <1>1, <1>2, <2>1 DEF HooksTypeOK, KeeperTyped, FirerTyped, DeliveriesTyped
<1>3. CASE Fire(t)
  <2>1. events < MaxEvents /\ events' = events + 1
    BY <1>3 DEF Fire
  <2>2. events' \in 0..MaxEvents /\ events <= events' /\ (1..events) \subseteq 1..events'
    BY <2>1
  <2>3. Pairs \subseteq Pairs'
    BY <2>2 DEF Pairs
  <2>4. registered \cap Interested \subseteq HookIds
    BY <1>0
  <2>5. CASE Registry = {}
    <3>1. /\ firer' = firer /\ deliveries' = deliveries /\ told' = told
          /\ dropped' = dropped
          /\ promised' = promised \cup ({events + 1} \X (registered \cap Interested))
      BY <1>3, <2>5 DEF Fire
    <3>2. {events + 1} \X (registered \cap Interested) \subseteq Pairs'
      BY <2>1, <2>4 DEF Pairs
    <3>3. DeliveriesTyped'
      BY <1>0, <2>2, <2>3, <3>1, <3>2 DEF DeliveriesTyped
    <3>4. FirerTyped(t)'
      BY <1>0, <1>1, <2>2, <3>1 DEF FirerTyped, Rest
    <3> QED
      BY <1>2, <2>2, <3>1, <3>3, <3>4
  <2>6. CASE Registry # {}
    <3>1. /\ firer' = [firer EXCEPT ![t] =
                [op |-> "iterate", event |-> events + 1, dict |-> Len(dicts),
                 size |-> Cardinality(Registry), seen |-> {},
                 owed |-> registered \cap Interested]]
          /\ deliveries' = deliveries /\ told' = told
          /\ dropped' = dropped /\ promised' = promised
      BY <1>3, <2>6 DEF Fire
    <3>2. Len(dicts) \in DOMAIN dicts
      BY <2>6 DEF Registry
    <3>3. DeliveriesTyped'
      BY <1>0, <2>2, <2>3, <3>1 DEF DeliveriesTyped
    <3>4. /\ firer'[t].event = events' /\ firer'[t].dict = Len(dicts)
          /\ firer'[t].seen = {} /\ firer'[t].owed = registered \cap Interested
      BY <2>1, <3>1
    <3>5. FirerTyped(t)'
      BY <1>1, <2>1, <2>4, <3>2, <3>4 DEF FirerTyped
    <3> QED
      BY <1>2, <2>2, <3>1, <3>3, <3>5
  <2> QED
    BY <2>5, <2>6
<1>4. CASE NextHook(t)
  <2>1. PICK h \in Unseen(t) : firer' = [firer EXCEPT ![t].seen = @ \cup {h}]
    BY <1>4 DEF NextHook
  <2>2. firer[t] # Rest /\ UNCHANGED deliveryVars
    BY <1>4 DEF NextHook
  <2>3. DOMAIN firer[t] = {"op", "event", "dict", "size", "seen", "owed"}
    BY <2>2 DEF HookInv, FirerOK
  <2>4. /\ firer'[t].dict = firer[t].dict /\ firer'[t].event = firer[t].event
        /\ firer'[t].seen = firer[t].seen \cup {h} /\ firer'[t].owed = firer[t].owed
    BY <2>1, <2>3
  <2>5. h \in HookIds
    BY <1>0, <2>1, <2>2 DEF Unseen, FirerTyped
  <2>6. DeliveriesTyped' /\ events' \in 0..MaxEvents /\ events' = events
    BY <1>0, <2>2 DEF deliveryVars, DeliveriesTyped, Pairs
  <2>7. FirerTyped(t)'
    BY <1>0, <1>1, <2>2, <2>4, <2>5, <2>6 DEF FirerTyped
  <2> QED
    BY <1>2, <2>1, <2>6, <2>7
<1>5. CASE IterationRaises(t)
  <2>1. firer' = [firer EXCEPT ![t] = Rest] /\ UNCHANGED deliveryVars
    BY <1>5 DEF IterationRaises
  <2>2. DeliveriesTyped' /\ events' \in 0..MaxEvents /\ events' = events
    BY <1>0, <2>1 DEF deliveryVars, DeliveriesTyped, Pairs
  <2>3. FirerTyped(t)'
    BY <2>1 DEF FirerTyped, Rest
  <2> QED
    BY <1>2, <2>1, <2>2, <2>3
<1>6. CASE IterationEnds(t)
  <2> DEFINE targets == firer[t].seen \cap Interested
             new == [event |-> firer[t].event, to |-> targets, failed |-> 0]
  <2>1. /\ firer' = [firer EXCEPT ![t] = Rest] /\ firer[t] # Rest
        /\ deliveries' = IF targets = {} THEN deliveries ELSE deliveries \cup {new}
        /\ promised' = promised \cup ({firer[t].event} \X firer[t].owed)
        /\ UNCHANGED <<events, told, dropped>>
    BY <1>6 DEF IterationEnds
  <2>2. /\ firer[t].event \in 1..events /\ firer[t].owed \subseteq HookIds
        /\ 0 \in 0..MaxAttempts - 1
    BY <1>0, <2>1 DEF FirerTyped
  <2>3. promised' \subseteq Pairs
    BY <1>0, <2>1, <2>2 DEF DeliveriesTyped, Pairs
  <2>4. targets # {} => /\ new.event \in 1..events
                        /\ new.to \subseteq Interested /\ new.to # {}
                        /\ new.failed \in 0..MaxAttempts - 1
    BY <2>2
  <2> HIDE DEF new, targets
  <2>5. DeliveriesTyped'
    BY <1>0, <2>1, <2>3, <2>4 DEF DeliveriesTyped, Pairs
  <2>6. FirerTyped(t)'
    BY <2>1 DEF FirerTyped, Rest
  <2> QED
    BY <1>0, <1>2, <2>1, <2>5, <2>6
<1> QED
  BY <1>3, <1>4, <1>5, <1>6

(* A delivery: one target told, or one more failure.                       *)
LEMMA DeliveryStepTyped ==
    ASSUME HookInv, HooksTypeOK, NEW d \in deliveries, Delivered(d) \/ Fails(d)
    PROVE  HooksTypeOK'
<1>0. /\ \A g \in DOMAIN dicts : dicts[g] \subseteq HookIds
      /\ \A u \in Keepers : KeeperTyped(u)
      /\ \A u \in Firers : FirerTyped(u)
      /\ events \in 0..MaxEvents /\ DeliveriesTyped
      /\ registered \subseteq used /\ used \subseteq HookIds
      /\ raced \in BOOLEAN
  BY HookTypeParts
<1>1. UNCHANGED <<dicts, keeper, firer, events, used, registered, raced, promised>>
  BY DEF Delivered, Fails, Replace
<1>2. /\ DOMAIN d = {"event", "to", "failed"}
      /\ d.event \in 1..events /\ d.to \subseteq Interested /\ d.to # {}
      /\ d.failed \in 0..MaxAttempts - 1
      /\ MaxAttempts \in Nat \ {0} /\ Interested \subseteq HookIds
  BY <1>0, WebhooksAssumption DEF DeliveriesTyped, HookInv, HookShapes
<1>3. Current(d) \in d.to
  BY <1>2 DEF Current
<1>4. <<d.event, Current(d)>> \in Pairs
  BY <1>2, <1>3 DEF Pairs
<1>5. ASSUME NEW n, n.event = d.event, n.to \subseteq d.to,
             n.failed \in 0..MaxAttempts - 1, Replace(d, n),
             told' \subseteq Pairs, dropped' \subseteq Pairs
      PROVE  HooksTypeOK'
  <2>1. deliveries' = (deliveries \ {d}) \cup {m \in {n} : m.to # {}}
    BY <1>5 DEF Replace
  <2>2. DeliveriesTyped'
    BY <1>0, <1>1, <1>2, <1>5, <2>1 DEF DeliveriesTyped, Pairs
  <2> QED
    BY <1>0, <1>1, <2>2 DEF HooksTypeOK, KeeperTyped, FirerTyped, DeliveriesTyped
<1>6. ASSUME NEW n, n = DoneWith(d, Current(d))
      PROVE  /\ n.event = d.event /\ n.to \subseteq d.to
             /\ n.failed \in 0..MaxAttempts - 1
  BY <1>2, <1>6 DEF DoneWith
<1>7. told \subseteq Pairs /\ dropped \subseteq Pairs
  BY <1>0 DEF DeliveriesTyped
<1>8. CASE Delivered(d)
  BY <1>4, <1>5, <1>6, <1>7, <1>8 DEF Delivered
<1>9. CASE Fails(d)
  <2>1. CASE d.failed + 1 < MaxAttempts
    <3>1. PICK n : n = [d EXCEPT !.failed = @ + 1]
      OBVIOUS
    <3>2. /\ n.event = d.event /\ n.to = d.to
          /\ n.failed \in 0..MaxAttempts - 1
      BY <1>2, <2>1, <3>1
    <3>3. Replace(d, n) /\ told' = told /\ dropped' = dropped
      BY <1>9, <2>1, <3>1 DEF Fails
    <3> QED
      BY <1>5, <1>7, <3>2, <3>3
  <2>2. CASE ~(d.failed + 1 < MaxAttempts)
    BY <1>4, <1>5, <1>6, <1>7, <1>9, <2>2 DEF Fails
  <2> QED
    BY <2>1, <2>2
<1> QED
  BY <1>8, <1>9

LEMMA HookTypeStep == HookInv /\ HooksTypeOK /\ [HooksNext]_hookVars => HooksTypeOK'
<1> SUFFICES ASSUME HookInv, HooksTypeOK, [HooksNext]_hookVars PROVE HooksTypeOK'
  OBVIOUS
<1>1. CASE HooksCrash
  <2>1. /\ dicts' = <<>> /\ deliveries' = {} /\ registered' = {} /\ raced' = FALSE
        /\ promised' = {} /\ UNCHANGED <<events, told, dropped, used>>
        /\ \A t \in Keepers : keeper'[t] = Rest
        /\ \A t \in Firers : firer'[t] = Rest
    BY <1>1 DEF HooksCrash
  <2>2. Pairs' = Pairs
    BY <2>1 DEF Pairs
  <2>3. /\ \A g \in DOMAIN dicts' : dicts'[g] \subseteq HookIds
        /\ \A t \in Keepers : KeeperTyped(t)'
        /\ \A t \in Firers : FirerTyped(t)'
    BY <2>1 DEF KeeperTyped, FirerTyped, Rest
  <2>4. DeliveriesTyped'
    BY <2>1, <2>2, HookTypeParts DEF DeliveriesTyped
  <2>5. HooksTypeOK' <=>
           /\ \A g \in DOMAIN dicts' : dicts'[g] \subseteq HookIds
           /\ \A t \in Keepers : KeeperTyped(t)'
           /\ \A t \in Firers : FirerTyped(t)'
           /\ events' \in 0..MaxEvents /\ DeliveriesTyped'
           /\ registered' \subseteq used' /\ used' \subseteq HookIds
           /\ raced' \in BOOLEAN
    BY DEF HooksTypeOK, KeeperTyped, FirerTyped, DeliveriesTyped
  <2> QED
    BY <2>1, <2>3, <2>4, <2>5, HookTypeParts
<1>2. CASE UNCHANGED hookVars
  BY <1>2 DEF hookVars, HooksTypeOK, Rest, Pairs
<1> QED
  BY <1>1, <1>2, KeeperStepTyped, FirerStepTyped, DeliveryStepTyped DEF HooksNext

LEMMA WebhooksTyped == HooksSpec => []HooksTypeOK
<1>1. HooksInit => HooksTypeOK
  <2>1. SUFFICES ASSUME HooksInit PROVE HooksTypeOK
    OBVIOUS
  <2>2. /\ \A t \in Keepers : KeeperTyped(t)
        /\ \A t \in Firers : FirerTyped(t)
        /\ \A g \in DOMAIN dicts : dicts[g] \subseteq HookIds
    BY <2>1 DEF HooksInit, KeeperTyped, FirerTyped
  <2>3. events \in 0..MaxEvents /\ DeliveriesTyped
    BY <2>1, WebhooksAssumption DEF HooksInit, DeliveriesTyped
  <2> QED
    BY <2>1, <2>2, <2>3, HookTypeParts DEF HooksInit
<1> QED
  BY <1>1, HookInvInit, HookStep, HookTypeStep, PTL DEF HooksSpec

-----------------------------------------------------------------------------
(* The evaluator: the rows of its trail are sealed proposals.              *)
LEMMA EvaluatorTyped == EvalSpec => []EvalTypeOK
<1> DEFINE Rows == [request : RequestIds, sealed : SealedProposals]
<1>1. EvalInit => Len(trail) <= MaxTrail
  BY EvaluatorAssumption DEF EvalInit
<1>2. TrailIsSealed /\ Len(trail) <= MaxTrail /\ [EvalNext]_evalVars
        => (Len(trail) <= MaxTrail)'
  <2>1. SUFFICES ASSUME TrailIsSealed, Len(trail) <= MaxTrail, [EvalNext]_evalVars
                 PROVE  Len(trail') <= MaxTrail
    OBVIOUS
  <2>2. trail \in Seq(Rows) /\ MaxTrail \in Nat
    BY <2>1, EvaluatorAssumption DEF TrailIsSealed
  <2>3. ASSUME NEW r \in RequestIds, NEW v \in Proposals, EvaluateAndKeep(r, v)
        PROVE  Len(trail') <= MaxTrail
    <3>1. \E e : trail' = Append(trail, e) /\ Len(trail) < MaxTrail
      BY <2>3 DEF EvaluateAndKeep
    <3> QED
      BY <2>2, <3>1
  <2>4. CASE \/ UNCHANGED evalVars
             \/ \E v \in Proposals : Invalid(v) \/ EvaluateOnly(v)
    BY <2>1, <2>4 DEF evalVars, Invalid, EvaluateOnly
  <2> QED
    BY <2>1, <2>3, <2>4 DEF EvalNext
<1>3. TrailIsSealed /\ Len(trail) <= MaxTrail => EvalTypeOK
  <2>1. SUFFICES ASSUME TrailIsSealed, Len(trail) <= MaxTrail PROVE EvalTypeOK
    OBVIOUS
  <2>2. ASSUME NEW n \in DOMAIN trail
        PROVE  trail[n].request \in RequestIds /\ trail[n].sealed.payload \in Proposal
    <3>1. trail \in Seq(Rows)
      BY <2>1 DEF TrailIsSealed
    <3>2. trail[n] \in Rows
      <4> HIDE DEF Rows
      <4> QED
        BY <3>1, <2>2
    <3>3. \A d \in SealedProposals : d.payload \in Proposal
      BY EvaluatorAssumption DEF SealedProposals, Sealed
    <3> QED
      BY <3>2, <3>3
  <2>3. envelope.status \in {"none", "ok", "error"}
    BY <2>1 DEF TrailIsSealed
  <2> QED
    BY <2>1, <2>2, <2>3 DEF EvalTypeOK
<1> QED
  BY <1>1, <1>2, <1>3, TrailInv, PTL DEF EvalSpec

-----------------------------------------------------------------------------
(* All of them.  The services share no variable: what a behaviour of all   *)
(* shows of one is a behaviour of that one.                                *)
LEMMA EachIsItself ==
    Spec => PubSpec /\ RateSpec /\ KeysSpec /\ SenseSpec /\ HooksSpec /\ EvalSpec
<1>1. Init => PubInit /\ RateInit /\ KeysInit /\ SenseInit /\ HooksInit /\ EvalInit
  BY DEF Init
<1>2. [Next]_Vars => /\ [PubNext]_pubVars /\ [RateNext]_rateVars
                     /\ [KeysNext]_keyVars /\ [SenseNext]_senseVars
                     /\ [HooksNext]_hookVars /\ [EvalNext]_evalVars
  BY DEF Next, Vars
<1> QED
  BY <1>1, <1>2, PTL DEF Spec, PubSpec, RateSpec, KeysSpec, SenseSpec, HooksSpec,
                         EvalSpec

(* Every variable of every service keeps its type.                         *)
THEOREM ServicesTypeCorrect == Spec => []TypeOK
<1>1. (/\ PubTypeOK /\ RateTypeOK /\ KeysTypeOK
       /\ SenseTypeOK /\ HooksTypeOK /\ EvalTypeOK) => TypeOK
  BY DEF TypeOK
<1> QED
  BY <1>1, EachIsItself, PublicationTyped, LimiterTypeCorrect, KeysTypeCorrect,
     SensingTyped, WebhooksTyped, EvaluatorTyped, PTL

(* What holds of each service on its own holds of it among the others.     *)
THEOREM ServicesKeepTheirPromises ==
    Spec => /\ [](/\ AcceptedIsRecorded /\ PolicyIsKept
                  /\ NameKeepsAKey /\ RevokedIsRefused
                  /\ SightingsKept /\ SubscribersAreTold
                  /\ AutomaticIsUnblocked)
            /\ OverLimitOnlyByQuery
<1>1. Spec => OverLimitOnlyByQuery
  BY EachIsItself, OnlyQueriesExceed
<1> QED
  BY <1>1, EachIsItself, AcceptedOnesAreRecorded, UpdatesAddUp, RotationsShutNobodyOut,
     DeactivatedKeysAreRefused, SightingsCorrelate, PromisesAreKept,
     EvaluatorNeverBypassesAHuman, PTL
=============================================================================
