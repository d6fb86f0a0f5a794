------------------------------- MODULE Sensing -------------------------------
(***************************************************************************)
(* Sensing (proactivity.py, submit_sensing in api.py): records of native   *)
(* signals are evaluated, fail-closed, and those of one signal correlated  *)
(* to one candidate in a registry in memory.                               *)
(*                                                                         *)
(* The endpoint runs on the server's threads; register reads the candidate *)
(* of the record's signal and writes it in two steps, without a lock.      *)
(***************************************************************************)
EXTENDS Naturals, FiniteSets

CONSTANTS Sensors,          \* threads that serve POST /v1/sensing
          Signals,          \* dedupe keys: tenant and native reference
          Records,          \* records that may be submitted
          NoCandidate

Paths == {"wie", "runtime", "cron"}

Kinds == {"opportunity", "attention_candidate", "commitment_candidate",
          "observation_update", "finding"}

(* What evaluate_sensing looks at beyond the shape of the fields.          *)
Record == [path : Paths, correlated : SUBSET Paths, kind : Kinds,
           executes : BOOLEAN, admits : BOOLEAN, admitted : BOOLEAN,
           future : BOOLEAN]

Candidate == [from : Records, paths : SUBSET Paths, kind : Kinds]

ASSUME SensingAssumption ==
    Records \subseteq Record /\ NoCandidate \notin Candidate /\ IsFiniteSet(Sensors)

VARIABLES registry,         \* SensingRegistry._by_key
          sensing,          \* the record of each thread, between read and write
          sighted,          \* history: the paths accepted records have named
          firsts,           \* history: how many were answered as the first
          mixed             \* history: registrations of the signal overlapped

senseVars == <<registry, sensing, sighted, firsts, mixed>>

NoRecord == [signal |-> "none"]

SenseTypeOK ==
    /\ registry \in [Signals -> Candidate \cup {NoCandidate}]
    /\ \A t \in Sensors : sensing[t] # NoRecord =>
          /\ sensing[t].signal \in Signals
          /\ sensing[t].record \in Records
          /\ sensing[t].existing \in Candidate \cup {NoCandidate}
    /\ sighted \in [Signals -> SUBSET Paths]
    /\ firsts \in [Signals -> 0..Cardinality(Sensors)]
    /\ mixed \subseteq Signals

SenseInit == /\ registry = [s \in Signals |-> NoCandidate]
             /\ sensing = [t \in Sensors |-> NoRecord]
             /\ sighted = [s \in Signals |-> {}]
             /\ firsts = [s \in Signals |-> 0]
             /\ mixed = {}

-----------------------------------------------------------------------------
(* evaluate_sensing, over records whose fields have the right shape        *)
Acceptable(r) ==
    /\ r.path \in r.correlated
    /\ ~r.future
    /\ ~r.executes
    /\ r.admits => r.admitted

(* What register puts in for a record when it has read this candidate.     *)
CorrelatedLast(existing, r) ==      \* mutant: the last sighting takes over
    [from |-> r, paths |-> r.correlated, kind |-> r.kind]

Correlated(existing, r) ==
    IF existing = NoCandidate
    THEN [from |-> r, paths |-> r.correlated, kind |-> r.kind]
    ELSE LET merged == existing.paths \cup r.correlated IN
         [existing EXCEPT !.paths = merged,
                          !.kind = IF Cardinality(merged) > 1
                                   THEN "attention_candidate" ELSE @]

(* A record that is not acceptable is answered so, and changes nothing.    *)
Submit(t, s, r) ==
    LET others == {u \in Sensors \ {t} : sensing[u].signal = s} IN
    /\ sensing[t] = NoRecord
    /\ Acceptable(r)
    /\ sensing' = [sensing EXCEPT ![t] = [signal |-> s, record |-> r,
                                          existing |-> registry[s]]]
    /\ mixed' = IF others = {} THEN mixed ELSE mixed \cup {s}
    /\ UNCHANGED <<registry, sighted, firsts>>

Register(t) ==
    LET mine == sensing[t] IN
    /\ mine # NoRecord
    /\ registry' = [registry EXCEPT ![mine.signal] =
                      Correlated(mine.existing, mine.record)]
    /\ sighted' = [sighted EXCEPT ![mine.signal] = @ \cup mine.record.correlated]
    /\ firsts' = [firsts EXCEPT ![mine.signal] =
                    IF mine.existing = NoCandidate THEN @ + 1 ELSE @]
    /\ sensing' = [sensing EXCEPT ![t] = NoRecord]
    /\ UNCHANGED mixed

SenseCrash == /\ registry' = [s \in Signals |-> NoCandidate]
              /\ sensing' = [t \in Sensors |-> NoRecord]
              /\ sighted' = [s \in Signals |-> {}]
              /\ firsts' = [s \in Signals |-> 0]
              /\ mixed' = {}

SenseNext ==
    \/ \E t \in Sensors : \/ \E s \in Signals, r \in Records : Submit(t, s, r)
                          \/ Register(t)
    \/ SenseCrash

SenseSpec == SenseInit /\ [][SenseNext]_senseVars

-----------------------------------------------------------------------------
(* The candidate of a signal names every path on which it was sighted, is  *)
(* an attention candidate once a second sighting has made them several,    *)
(* and only one sighting is answered as the first: unless two of its       *)
(* registrations overlapped.                                               *)
SightingsKept ==
    \A s \in Signals \ mixed :
        /\ firsts[s] <= 1
        /\ sighted[s] # {} =>
              /\ registry[s].paths = sighted[s]
              /\ \/ registry[s].paths = registry[s].from.correlated
                 \/ registry[s].kind = "attention_candidate"
=============================================================================
