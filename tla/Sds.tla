---------------------------------- MODULE Sds ----------------------------------
(***************************************************************************)
(* The stored summaries of one plan: the definitions are read from the     *)
(* plan, and once the data plane has started their panes are stored, read  *)
(* and evicted, by the precompute engine and the query engine, which run   *)
(* on one thread.                                                          *)
(***************************************************************************)
EXTENDS SummaryDefinitions, SummaryStore

CONSTANT
    StoringPlans    \* bound on the model: the plans whose store is used

\* The store has a place for every definition of these plans.
ASSUME StoringAssumption ==
    \A p \in StoringPlans : \A i \in 1..Len(p.outputs) : KeyOf(p.outputs[i]) \in DefinitionKeys

sdsVars == <<vars, storeVars>>

SdsInit == Init /\ StoreInit

ReadPlan == Next /\ UNCHANGED storeVars

UseStore ==
    /\ phase = "started" /\ plan \in StoringPlans
    /\ \E k \in DOMAIN definitions, e \in Ends : StoreStep(k, e)
    /\ UNCHANGED vars

SdsNext == ReadPlan \/ UseStore

\* from_plan runs to its end.
SdsSpec == SdsInit /\ [][SdsNext]_sdsVars /\ WF_sdsVars(ReadPlan)

=============================================================================
