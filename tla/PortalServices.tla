---------------------------- MODULE PortalServices ----------------------------
(***************************************************************************)
(* The components of the portal that share no state with each other, in    *)
(* one process: a step is a step of one of them and leaves the rest alone. *)
(***************************************************************************)
EXTENDS Accounts, BackupReleases, BackupArchive, CachedReads, UsageStatistics,
        QuotaRefresh, OAuthRouting, CaptureVault, PolicyForms, ResourcePause,
        ResourceWebsocket

VARIABLE part   \* ServicesSpec: the component that moves in this behaviour

Parts == {"accounts", "releases", "archive", "reads", "statistics", "timings", "loads",
          "quota", "routing", "vault", "policy", "pause", "websocket"}

PortalInit ==
    /\ AccountsInit /\ ReleasesInit /\ ArchiveInit /\ ReadsInit /\ StatisticsInit /\ TimingsInit
    /\ LoadsInit /\ QuotaInit /\ RoutingInit /\ VaultInit /\ PolicyInit /\ PauseInit /\ WebsocketInit

\* A step of component p.
StepOf(p) ==
    /\ \/ p = "accounts" /\ AccountsNext
       \/ p = "releases" /\ ReleasesNext
       \/ p = "archive" /\ ArchiveNext
       \/ p = "reads" /\ ReadsNext
       \/ p = "statistics" /\ StatisticsNext
       \/ p = "timings" /\ TimingsNext
       \/ p = "loads" /\ LoadsNext
       \/ p = "quota" /\ QuotaNext
       \/ p = "routing" /\ RoutingNext
       \/ p = "vault" /\ VaultNext
       \/ p = "policy" /\ PolicyNext
       \/ p = "pause" /\ PauseNext
       \/ p = "websocket" /\ WebsocketNext
    /\ (p # "accounts" => UNCHANGED accountVars)
    /\ (p # "releases" => UNCHANGED releaseVars)
    /\ (p # "archive" => UNCHANGED archiveVars)
    /\ (p # "reads" => UNCHANGED readVars)
    /\ (p # "statistics" => UNCHANGED statVars)
    /\ (p # "timings" => UNCHANGED timingVars)
    /\ (p # "loads" => UNCHANGED loadVars)
    /\ (p # "quota" => UNCHANGED quotaVars)
    /\ (p # "routing" => UNCHANGED routingVars)
    /\ (p # "vault" => UNCHANGED vaultVars)
    /\ (p # "policy" => UNCHANGED policyVars)
    /\ (p # "pause" => UNCHANGED pauseVars)
    /\ (p # "websocket" => UNCHANGED frameVars)

portalVars == <<accountVars, releaseVars, archiveVars, readVars, statVars, timingVars, loadVars,
                quotaVars, routingVars, vaultVars, policyVars, pauseVars, frameVars>>

\* All components, their steps in any order.
PortalNext == \E p \in Parts : StepOf(p)
PortalSpec == PortalInit /\ [][PortalNext]_portalVars

-----------------------------------------------------------------------------
(* Since they share nothing, what one of them does can be explored without *)
(* the others: a behaviour picks a component, and only this one moves.     *)

\* Components that rest begin in one of their initial states.
ServicesInit ==
    /\ part \in Parts /\ PortalInit
    /\ part # "accounts" => focus = (CHOOSE kinds \in Focuses : TRUE)
    /\ part # "releases" => private
    /\ part # "quota" => disabled = Antigravity /\ \A a \in Codex : blocked[a] = 0

ServicesNext == StepOf(part) /\ UNCHANGED part

servicesVars == <<part, portalVars>>
ServicesSpec == ServicesInit /\ [][ServicesNext]_servicesVars

\* Every variable of the component that moves keeps its type, in particular no
\* counter passes the bound its code sets.
ServicesTypeOK ==
    CASE part = "accounts" -> AccountsTypeOK
      [] part = "releases" -> ReleasesTypeOK
      [] part = "archive" -> ArchiveTypeOK
      [] part = "reads" -> ReadsTypeOK
      [] part = "statistics" -> StatisticsTypeOK
      [] part = "timings" -> TimingsTypeOK
      [] part = "loads" -> LoadsTypeOK
      [] part = "quota" -> QuotaTypeOK
      [] part = "routing" -> RoutingTypeOK
      [] part = "vault" -> VaultTypeOK
      [] part = "policy" -> PolicyTypeOK
      [] part = "pause" -> PauseTypeOK
      [] part = "websocket" -> WebsocketTypeOK
=============================================================================
