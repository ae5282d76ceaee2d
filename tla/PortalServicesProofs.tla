-------------------------- MODULE PortalServicesProofs --------------------------
(***************************************************************************)
(* The components that share no state, all in one process: each keeps its  *)
(* types and its promises, however their steps interleave, for all values  *)
(* of all their constants.                                                 *)
(***************************************************************************)
EXTENDS PortalServices, ServicesProofs, BackupsProofs, CachedReadsProofs

\* Every component runs as if it were alone.
ComponentSpecs ==
    /\ AccountsSpec
    /\ ReleasesSpec
    /\ ArchiveSpec
    /\ ReadsSpec
    /\ StatisticsSpec
    /\ TimingsSpec
    /\ LoadsSpec
    /\ QuotaSpec
    /\ RoutingSpec
    /\ VaultSpec
    /\ PolicySpec
    /\ PauseSpec
    /\ WebsocketSpec

\* A step of the process is, for each component, a step of it or none.
LEMMA StepsOfComponents ==
    ASSUME NEW p \in Parts, StepOf(p)
    PROVE  /\ [AccountsNext]_accountVars /\ [ReleasesNext]_releaseVars /\ [ArchiveNext]_archiveVars
           /\ [ReadsNext]_readVars /\ [StatisticsNext]_statVars /\ [TimingsNext]_timingVars
           /\ [LoadsNext]_loadVars /\ [QuotaNext]_quotaVars /\ [RoutingNext]_routingVars
           /\ [VaultNext]_vaultVars /\ [PolicyNext]_policyVars /\ [PauseNext]_pauseVars
           /\ [WebsocketNext]_frameVars
<1>1. [AccountsNext]_accountVars BY DEF StepOf
<1>2. [ReleasesNext]_releaseVars BY DEF StepOf
<1>3. [ArchiveNext]_archiveVars BY DEF StepOf
<1>4. [ReadsNext]_readVars BY DEF StepOf
<1>5. [StatisticsNext]_statVars BY DEF StepOf
<1>6. [TimingsNext]_timingVars BY DEF StepOf
<1>7. [LoadsNext]_loadVars BY DEF StepOf
<1>8. [QuotaNext]_quotaVars BY DEF StepOf
<1>9. [RoutingNext]_routingVars BY DEF StepOf
<1>10. [VaultNext]_vaultVars BY DEF StepOf
<1>11. [PolicyNext]_policyVars BY DEF StepOf
<1>12. [PauseNext]_pauseVars BY DEF StepOf
<1>13. [WebsocketNext]_frameVars BY DEF StepOf
<1> QED BY <1>1, <1>2, <1>3, <1>4, <1>5, <1>6, <1>7, <1>8, <1>9, <1>10, <1>11, <1>12, <1>13

\* The process runs every component: what is proved of one of them alone holds of
\* it in the process, whatever the others do in between.
LEMMA PortalRunsComponents == PortalSpec => ComponentSpecs
<1>1. PortalInit => /\ AccountsInit /\ ReleasesInit /\ ArchiveInit /\ ReadsInit /\ StatisticsInit
                    /\ TimingsInit /\ LoadsInit /\ QuotaInit /\ RoutingInit /\ VaultInit
                    /\ PolicyInit /\ PauseInit /\ WebsocketInit
  BY DEF PortalInit
<1>2. [PortalNext]_portalVars =>
          /\ [AccountsNext]_accountVars /\ [ReleasesNext]_releaseVars /\ [ArchiveNext]_archiveVars
          /\ [ReadsNext]_readVars /\ [StatisticsNext]_statVars /\ [TimingsNext]_timingVars
          /\ [LoadsNext]_loadVars /\ [QuotaNext]_quotaVars /\ [RoutingNext]_routingVars
          /\ [VaultNext]_vaultVars /\ [PolicyNext]_policyVars /\ [PauseNext]_pauseVars
          /\ [WebsocketNext]_frameVars
  <2>1. CASE UNCHANGED portalVars BY <2>1 DEF portalVars
  <2>2. CASE PortalNext BY <2>2, StepsOfComponents DEF PortalNext
  <2> QED BY <2>1, <2>2
<1> QED
  BY <1>1, <1>2, PTL
  DEF PortalSpec, ComponentSpecs, AccountsSpec, ReleasesSpec, ArchiveSpec, ReadsSpec, StatisticsSpec, TimingsSpec, LoadsSpec, QuotaSpec, RoutingSpec, VaultSpec, PolicySpec, PauseSpec, WebsocketSpec

\* The component that moves is one of them.
OnePart == part \in Parts

\* The behaviours that move one component are behaviours of the process.
LEMMA OnePartMoves == ServicesSpec => PortalSpec /\ []OnePart
<1>1. ServicesInit => PortalInit /\ OnePart BY DEF ServicesInit, OnePart
<1>2. OnePart /\ [ServicesNext]_servicesVars => [PortalNext]_portalVars /\ OnePart'
  <2> SUFFICES ASSUME part \in Parts, [ServicesNext]_servicesVars
               PROVE  [PortalNext]_portalVars /\ part' \in Parts
    BY DEF OnePart
  <2>1. CASE UNCHANGED servicesVars
    <3>1. part' = part /\ portalVars' = portalVars BY <2>1 DEF servicesVars
    <3> QED BY <3>1
  <2>2. CASE ServicesNext
    <3>1. StepOf(part) /\ part' = part BY <2>2 DEF ServicesNext
    <3> QED BY <3>1, Zenon DEF PortalNext
  <2> QED BY <2>1, <2>2
<1> QED BY <1>1, <1>2, PTL DEF ServicesSpec, PortalSpec

\* Every variable of every component keeps its type.
AllTypes ==
    /\ AccountsTypeOK /\ ReleasesTypeOK /\ ArchiveTypeOK /\ ReadsTypeOK /\ StatisticsTypeOK
    /\ TimingsTypeOK /\ LoadsTypeOK /\ QuotaTypeOK /\ RoutingTypeOK /\ VaultTypeOK /\ PolicyTypeOK
    /\ PauseTypeOK /\ WebsocketTypeOK

\* In the process every component keeps its types, and no counter, cache, list or
\* number passes its bound.
THEOREM PortalTypes == PortalSpec => []AllTypes
<1> QED
  BY PortalRunsComponents, AccountsTypes, ReleasesTypes, ArchiveTypes, ReadsTypes, StatisticsTypes,
     LoadsTypes, QuotaTypesHold, RoutingTypes, VaultTypes, PolicyTypes, PauseTypes, WebsocketTypes, PTL
  DEF ComponentSpecs, AllTypes

\* The component that moves keeps its types.
THEOREM ServicesTypes == ServicesSpec => []ServicesTypeOK
<1>1. AllTypes /\ OnePart => ServicesTypeOK BY DEF AllTypes, OnePart, Parts, ServicesTypeOK
<1> QED BY <1>1, OnePartMoves, PortalTypes, PTL

\* What the components promise, all together.
AllPromises ==
    /\ AdminRemains /\ CredentialsEnd /\ BackupsKept /\ RestoredIsWhole /\ CachedReadsHold
    /\ StatisticsAreRight /\ QuotaHonest /\ RoutingSettled /\ CapturesKept /\ PolicyFollowsRow
    /\ MessagesWithinLimit

\* In the process every component keeps its promise, however their steps
\* interleave.
THEOREM PortalKeepsPromises == PortalSpec => []AllPromises /\ PauseIsEarned
<1> QED
  BY PortalRunsComponents, AnAdminRemains, CredentialsAreClosed, ReleasesKeepBackups, RestoresAreWhole,
     CachesHold, StatisticsHonest, QuotasAreHonest, RoutingSettles, VaultKeepsCaptures, PolicyFollows,
     LongMessagesStop, PausesAreEarned, PTL
  DEF ComponentSpecs, AllPromises
=============================================================================
