--------------------------- MODULE EtaPrediction ---------------------------
(***************************************************************************)
(* delivery-service's ETA predictions: the prediction worker, and what the *)
(* completion of a delivery does to the predictions already stored.  The   *)
(* worker queries, calls the ETA service and saves without holding locks   *)
(* in between, while Delivery's handlers go on.  Each replica of the       *)
(* service runs one worker; a rolling update overlaps two.                 *)
(***************************************************************************)
EXTENDS Delivery

CONSTANTS Workers

ASSUME EtaAssumption == IsFiniteSet(Workers)

VARIABLES
    eta,       \* delivery.eta_predictions, per delivery and stage
    jobs,      \* per worker, its batch: <<order, stage>>
    saving     \* per worker, its open transaction

etaVars == <<eta, jobs, saving>>

Stages == {"confirmed", "assembling", "delivering"}

(* "open": actual_eta_seconds IS NULL. *)
PredictionState == {"none", "open", "evaluated"}

NotSaving == [order |-> NoDelivery, stage |-> "confirmed", actual |-> "none"]

EtaInit ==
    /\ Init
    /\ eta = [o \in Orders |-> [s \in Stages |-> "none"]]
    /\ jobs = [w \in Workers |-> {}]
    /\ saving = [w \in Workers |-> NotSaving]

(* Mutation: a completion evaluates only the prediction made on assignment. *)
EvaluateConfirmedOnly(o) ==
    [s \in Stages |-> IF eta[o][s] # "none" /\ s = "confirmed" THEN "evaluated" ELSE eta[o][s]]

(* A completing transaction gives every prediction it can see, that is      *)
(* every committed one, the time that was really left.                     *)
Evaluate(o) ==
    [s \in Stages |-> IF eta[o][s] # "none" THEN "evaluated" ELSE "none"]

CompletedBy(o) == deliveries[o].status # "completed" /\ deliveries'[o].status = "completed"

(* Any step of Delivery; the completing ones also update the predictions.   *)
DeliveryStep ==
    /\ Next
    /\ eta' = [o \in Orders |-> IF CompletedBy(o) THEN Evaluate(o) ELSE eta[o]]
    /\ UNCHANGED <<jobs, saving>>

StageOf(status) == IF status = "assigned" THEN "confirmed" ELSE status

(* The batch query: deliveries under way without a prediction for the stage *)
(* they are in.                                                             *)
Missing ==
    {<<o, StageOf(deliveries[o].status)>> :
        o \in {p \in Orders : /\ deliveries[p].status \in Underway
                              /\ eta[p][StageOf(deliveries[p].status)] = "none"}}

predictMissing(w) ==
    /\ jobs[w] = {}
    /\ saving[w] = NotSaving
    /\ Missing # {}
    /\ jobs' = [jobs EXCEPT ![w] = Missing]
    /\ UNCHANGED <<vars, eta, saving>>

(* The ETA service is down, slow or answers nonsense: the job is skipped    *)
(* and found again by a later query.                                        *)
PredictFails(w, job) ==
    /\ saving[w] = NotSaving
    /\ jobs' = [jobs EXCEPT ![w] = @ \ {job}]
    /\ UNCHANGED <<vars, eta, saving>>

(* Mutation: only a delivery already completed has a row to save, but the   *)
(* worker goes on without looking.                                         *)
BeginSaveOfCompleted(w, job) ==
    /\ saving[w] = NotSaving
    /\ jobs' = [jobs EXCEPT ![w] = @ \ {job}]
    /\ saving' = [saving EXCEPT ![w] =
          [order |-> job[1], stage |-> job[2],
           actual |-> IF deliveries[job[1]].status = "completed" THEN "evaluated" ELSE "none"]]
    /\ UNCHANGED <<vars, eta>>

(* save: INSERT ... SELECT reads whether the delivery is completed in the   *)
(* statement's snapshot.  Its row stays invisible until the commit, and the *)
(* foreign key check may make it wait for a completion in progress.         *)
BeginSave(w, job) ==
    /\ saving[w] = NotSaving
    /\ jobs' = [jobs EXCEPT ![w] = @ \ {job}]
    /\ saving' = [saving EXCEPT ![w] =
          [order |-> job[1], stage |-> job[2],
           actual |-> IF deliveries[job[1]].status = "completed" THEN "evaluated" ELSE "open"]]
    /\ UNCHANGED <<vars, eta>>

(* Mutation: ON CONFLICT DO UPDATE, the newest prediction replaces the old. *)
CommitSaveOverwrites(w) ==
    /\ saving[w] # NotSaving
    /\ eta' = [eta EXCEPT ![saving[w].order][saving[w].stage] = saving[w].actual]
    /\ saving' = [saving EXCEPT ![w] = NotSaving]
    /\ UNCHANGED <<vars, jobs>>

(* save commits; ON CONFLICT (delivery_id, stage) DO NOTHING. *)
CommitSave(w) ==
    /\ saving[w] # NotSaving
    /\ eta' = [eta EXCEPT ![saving[w].order][saving[w].stage] =
                  IF @ = "none" THEN saving[w].actual ELSE @]
    /\ saving' = [saving EXCEPT ![w] = NotSaving]
    /\ UNCHANGED <<vars, jobs>>

(* The worker stops: its batch and its transaction are gone. *)
WorkerRestart(w) ==
    /\ jobs' = [jobs EXCEPT ![w] = {}]
    /\ saving' = [saving EXCEPT ![w] = NotSaving]
    /\ <<jobs, saving>>' # <<jobs, saving>>
    /\ UNCHANGED <<vars, eta>>

EtaNext ==
    \/ DeliveryStep
    \/ \E w \in Workers :
          \/ predictMissing(w)
          \/ \E job \in jobs[w] : PredictFails(w, job) \/ BeginSave(w, job)
          \/ CommitSave(w)
          \/ WorkerRestart(w)

EtaSpec == EtaInit /\ [][EtaNext]_<<vars, etaVars>>

(***************************************************************************)
(* Properties                                                              *)
(***************************************************************************)

(* Types of the predictions and of the worker's local state; a save always  *)
(* has a row, open or evaluated, to commit.                                *)
EtaTypeOK ==
    /\ eta \in [Orders -> [Stages -> PredictionState]]
    /\ jobs \in [Workers -> SUBSET (Orders \X Stages)]
    /\ saving \in [Workers -> [order : Orders, stage : Stages, actual : {"open", "evaluated"}]
                                 \cup {NotSaving}]

(* applyPhase, complete and save: only a transaction that was open while    *)
(* the delivery completed can leave a prediction unevaluated.  So a worker  *)
(* leaves at most one open per completed delivery, and every prediction     *)
(* committed before the completion is evaluated by it.                      *)
OnePerWorkerLeftOpen ==
    \A o \in Orders : deliveries[o].status = "completed" =>
        Cardinality({s \in Stages : eta[o][s] = "open"})
            + Cardinality({w \in Workers : saving[w].order = o /\ saving[w].actual = "open"})
        <= Cardinality(Workers)

(* save and the completions: a prediction is written once; its actual time, *)
(* once known, is never lost, and it becomes known only for a completed     *)
(* delivery.                                                               *)
EvaluatedForGood ==
    [][\A o \in Orders, s \in Stages :
          /\ eta[o][s] # "none" => eta'[o][s] # "none"
          /\ eta[o][s] = "evaluated" => eta'[o][s] = "evaluated"
          /\ eta[o][s] # "evaluated" /\ eta'[o][s] = "evaluated" =>
                deliveries'[o].status = "completed"
      ]_<<vars, etaVars>>
=============================================================================
