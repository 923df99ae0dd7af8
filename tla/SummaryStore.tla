----------------------------- MODULE SummaryStore -----------------------------
(***************************************************************************)
(* The store of summary instances (sds.rs, SummaryStore): two nested maps, *)
(* from definition id to selection to instance.  Definitions that compute  *)
(* the same for other label constraints, or for panes of another width,    *)
(* share an id and so share an inner map; an eviction removes a range of   *)
(* it.  It implements StoredPanes, where they share nothing.               *)
(***************************************************************************)
EXTENDS Integers, FiniteSets

CONSTANTS
    Ids,            \* definition ids
    Labels,         \* label constraints; numbers, as strings are ordered
    PaneWidths,
    Ends,           \* the ends that panes are stored, read and evicted by
    MinEnd,         \* i64::MIN
    States,         \* summaries
    Nothing,
    MaxInstances    \* bound on the model: how many instances are stored

ASSUME StoreAssumption ==
    /\ Labels \subseteq Int
    /\ PaneWidths \subseteq Int
    /\ Ends \subseteq Int
    /\ MinEnd \in Int
    /\ \A e \in Ends : MinEnd <= e

DefinitionKeys == [id : Ids, labels : Labels, pane : PaneWidths]
Selections == [labels : Labels, pane : PaneWidths, end : Ends]

VARIABLES
    instances,      \* by definition id: instances by selection
    answer          \* what the last `get' returned

storeVars == <<instances, answer>>

----------------------------------------------------------------------------
\* (mutant) the end is compared before the pane width
SelectionBeforeByEnd(a, b) ==
    \/ a.labels < b.labels
    \/ a.labels = b.labels /\ a.end < b.end
    \/ a.labels = b.labels /\ a.end = b.end /\ a.pane < b.pane

\* The order of selections: by their fields, in the order of the struct.
SelectionBefore(a, b) ==
    \/ a.labels < b.labels
    \/ a.labels = b.labels /\ a.pane < b.pane
    \/ a.labels = b.labels /\ a.pane = b.pane /\ a.end < b.end

SelectionEndingAt(k, e) == [labels |-> k.labels, pane |-> k.pane, end |-> e]

\* The selections of definition k's id from its smallest pane to `oldest',
\* which is not among them.
Expired(k, oldest) ==
    {x \in DOMAIN instances[k.id] :
        /\ ~SelectionBefore(x, SelectionEndingAt(k, MinEnd))
        /\ SelectionBefore(x, oldest)}

Size(id) == Cardinality(DOMAIN instances[id])

StoreInit ==
    /\ instances = [id \in Ids |-> <<>>]
    /\ answer = Nothing

Insert(k, e, s) ==
    /\ instances' = [instances EXCEPT ![k.id] =
          [x \in DOMAIN @ \cup {SelectionEndingAt(k, e)} |->
              IF x = SelectionEndingAt(k, e) THEN s ELSE @[x]]]
    /\ UNCHANGED answer

GetPane(k, e) ==
    /\ answer' = IF SelectionEndingAt(k, e) \in DOMAIN instances[k.id]
                 THEN instances[k.id][SelectionEndingAt(k, e)] ELSE Nothing
    /\ UNCHANGED instances

EvictBefore(k, e) ==
    /\ instances' = [instances EXCEPT ![k.id] =
          [x \in DOMAIN @ \ Expired(k, SelectionEndingAt(k, e)) |-> @[x]]]
    /\ UNCHANGED answer

StoreStep(k, e) ==
    \/ \E s \in States : Size(k.id) < MaxInstances /\ Insert(k, e, s)
    \/ GetPane(k, e)
    \/ EvictBefore(k, e)

StoreNext == \E k \in DefinitionKeys, e \in Ends : StoreStep(k, e)

StoreSpec == StoreInit /\ [][StoreNext]_storeVars

----------------------------------------------------------------------------
(* Properties.                                                             *)

\* The type invariant.
StoreTypeOK ==
    /\ DOMAIN instances = Ids
    /\ \A id \in Ids : /\ DOMAIN instances[id] \subseteq Selections
                       /\ instances[id] \in [DOMAIN instances[id] -> States]
    /\ answer \in States \cup {Nothing}

\* The panes of one definition, as its readers see them.
PanesOf(k) ==
    [e \in {e \in Ends : SelectionEndingAt(k, e) \in DOMAIN instances[k.id]} |->
        instances[k.id][SelectionEndingAt(k, e)]]

Abstract == INSTANCE StoredPanes
    WITH Keys <- DefinitionKeys, panes <- [k \in DefinitionKeys |-> PanesOf(k)]

\* Definitions that share an id never touch each other's panes: an eviction
\* by one removes its own older panes, all of them and nothing else, though
\* it removes a range of a map that holds panes of every width and label
\* constraint (sds.rs, evict_before).
ImplementsStoredPanes == Abstract!Spec

=============================================================================
