------------------------------ MODULE MCService ------------------------------
(* The small components, one per behaviour: the rules on their inputs, the keys of the
   API, the vectors of a version, the retention and the rollout of releases. They share no state, so
   that one run checks them side by side. *)
EXTENDS Rules, Access, Embeddings, Maintenance, Rollout

VARIABLE about   \* the component this behaviour is about

\* Four images: a first one, its successor with a migration whose name sorts between
\* two that exist, a fork that changed an applied file, and one that is refused.
Images ==
  <<  <<<<"a", 1>>, <<"c", 1>>>>,
      <<<<"a", 1>>, <<"b", 1>>, <<"c", 1>>>>,
      <<<<"a", 1>>, <<"b", 2>>, <<"d", 1>>>>,
      <<<<"a", 1>>>>  >>

\* Two movements are as near to the query as each other, another one is nearer.
Near == [i \in Steps |-> i % 2]

serviceVars ==
  <<about, case, accessVars, embeddingVars, maintenanceVars, rolloutVars>>

Init ==
  /\ about \in {"rules", "keys", "vectors", "retention", "rollout"}
  /\ RulesInit /\ AccessInit /\ EmbeddingsInit /\ MaintenanceInit /\ RolloutInit

RulesStep ==
  /\ about = "rules" /\ RulesNext
  /\ UNCHANGED <<about, accessVars, embeddingVars, maintenanceVars, rolloutVars>>
KeysStep ==
  /\ about = "keys" /\ AccessNext
  /\ UNCHANGED <<about, case, embeddingVars, maintenanceVars, rolloutVars>>
VectorsStep ==
  /\ about = "vectors" /\ EmbeddingsNext
  /\ UNCHANGED <<about, case, accessVars, maintenanceVars, rolloutVars>>
RetentionStep ==
  /\ about = "retention" /\ MaintenanceNext
  /\ UNCHANGED <<about, case, accessVars, embeddingVars, rolloutVars>>
RolloutStep ==
  /\ about = "rollout" /\ RolloutNext
  /\ UNCHANGED <<about, case, accessVars, embeddingVars, maintenanceVars>>
Next == RulesStep \/ KeysStep \/ VectorsStep \/ RetentionStep \/ RolloutStep

Spec == Init /\ [][Next]_serviceVars
=============================================================================
