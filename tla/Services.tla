------------------------------ MODULE Services ------------------------------
(***************************************************************************)
(* The small services in one specification.  They share no variable, so    *)
(* Init chooses the one that gets requests in a behaviour and the others   *)
(* stay as they started: the state spaces add up.                          *)
(***************************************************************************)
EXTENDS Publication, RateLimit, ApiKeys, Sensing, Webhooks, Evaluator

VARIABLE service

Vars == <<service, pubVars, rateVars, keyVars, senseVars, hookVars, evalVars>>

Init == /\ service \in {"publication", "rates", "keys", "sensing", "webhooks",
                        "evaluator"}
        /\ PubInit /\ RateInit /\ KeysInit /\ SenseInit /\ HooksInit /\ EvalInit
        /\ service # "publication" => shared
        /\ service # "keys" => secured

Next ==
    /\ UNCHANGED service
    /\ \/ /\ service = "publication" /\ PubNext
          /\ UNCHANGED <<rateVars, keyVars, senseVars, hookVars, evalVars>>
       \/ /\ service = "rates" /\ RateNext
          /\ UNCHANGED <<pubVars, keyVars, senseVars, hookVars, evalVars>>
       \/ /\ service = "keys" /\ KeysNext
          /\ UNCHANGED <<pubVars, rateVars, senseVars, hookVars, evalVars>>
       \/ /\ service = "sensing" /\ SenseNext
          /\ UNCHANGED <<pubVars, rateVars, keyVars, hookVars, evalVars>>
       \/ /\ service = "webhooks" /\ HooksNext
          /\ UNCHANGED <<pubVars, rateVars, keyVars, senseVars, evalVars>>
       \/ /\ service = "evaluator" /\ EvalNext
          /\ UNCHANGED <<pubVars, rateVars, keyVars, senseVars, hookVars>>

Spec == Init /\ [][Next]_Vars

(* Every service keeps its types: what the endpoints of publication,       *)
(* limits, keys, sensing, webhooks and evaluations put into their state.   *)
TypeOK == /\ PubTypeOK /\ RateTypeOK /\ KeysTypeOK
          /\ SenseTypeOK /\ HooksTypeOK /\ EvalTypeOK
=============================================================================
