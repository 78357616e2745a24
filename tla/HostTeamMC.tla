------------------------------ MODULE HostTeamMC ------------------------------
(***************************************************************************)
(* Policies for HostTeamProps.                                             *)
(***************************************************************************)
EXTENDS HostTeamProps

Policy(length, chunk, dynamic, team) ==
  [length |-> length, chunk |-> chunk, dynamic |-> dynamic, team |-> team]

StaticFlat == Policy(9, 1, FALSE, 1)
DynamicFlat == Policy(3, 1, TRUE, 1)
StaticTeams == Policy(3, 1, FALSE, 3)
DynamicTeams == Policy(6, 2, TRUE, 2)

FewPrograms ==
  {<<DynamicFlat, StaticTeams>>, <<DynamicTeams, DynamicTeams>>,
   <<StaticTeams, StaticFlat>>}
=============================================================================
