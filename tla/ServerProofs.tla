----------------------------- MODULE ServerProofs -----------------------------
(***************************************************************************)
(* Theorems about the server: its components side by side are each a       *)
(* behaviour of its own module, so that what is proved of each holds of    *)
(* the whole.                                                              *)
(***************************************************************************)
EXTENDS Server, FileProofs, ProxyProofs, MemoryProofs, ProcessProofs, TLAPS

-----------------------------------------------------------------------------
(* A step of the server is, for each component, one of its steps or none.   *)

FileSteps    == [BlocklistNext]_listVars /\ [IncidentsNext]_incidentsVars /\ [RestoreNext]_restoreVars
ProxySteps   == [BalanceNext]_balanceVars /\ [CacheNext]_cacheVars
MemorySteps  == [RatesNext]_ratesVars /\ [HitsNext]_hitsVars /\ [HistoryNext]_historyVars
ProcessSteps ==
    /\ [BoostNext]_boostVars /\ [NativeNext]_nativeVars
    /\ [InspectionNext]_inspectionVars /\ [WatchNext]_watchVars

LEMMA EachComponentSteps ==
    ASSUME [ServerNext]_serverVars
    PROVE  FileSteps /\ ProxySteps /\ MemorySteps /\ ProcessSteps
<1> USE DEF FileSteps, ProxySteps, MemorySteps, ProcessSteps, proxyVars, sharedVars, superVars, recordVars, threadVars
<1>1. CASE UNCHANGED serverVars
    BY <1>1 DEF serverVars
<1>2. CASE Blocks
    BY <1>2 DEF Blocks
<1>3. CASE Balances
    BY <1>3 DEF Balances
<1>4. CASE Caches
    BY <1>4 DEF Caches
<1>5. CASE CountsRate
    BY <1>5 DEF CountsRate
<1>6. CASE CountsHits
    BY <1>6 DEF CountsHits
<1>7. CASE Supervises
    BY <1>7 DEF Supervises
<1>8. CASE Drives
    BY <1>8 DEF Drives
<1>9. CASE Files
    BY <1>9 DEF Files
<1>10. CASE Remembers
    BY <1>10 DEF Remembers
<1>11. CASE RestoresIt
    BY <1>11 DEF RestoresIt
<1>12. CASE Inspects
    BY <1>12 DEF Inspects
<1>13. CASE Watches
    BY <1>13 DEF Watches
<1> QED
    BY <1>1, <1>2, <1>3, <1>4, <1>5, <1>6, <1>7, <1>8, <1>9, <1>10, <1>11, <1>12, <1>13 DEF ServerNext

-----------------------------------------------------------------------------
(* The theorems.                                                            *)

\* The composition implements each of its components: a behaviour of the server is one of every module.
THEOREM ServerImplementsComponents ==
    ServerSpec =>
        /\ BlocklistSpec /\ IncidentsSpec /\ RestoreSpec /\ BalanceSpec /\ CacheSpec
        /\ RatesSpec /\ HitsSpec /\ HistorySpec
        /\ BoostSpec /\ NativeSpec /\ InspectionSpec /\ WatchSpec
<1>1. ServerInit =>
        /\ BlocklistInit /\ IncidentsInit /\ RestoreInit /\ BalanceInit /\ CacheInit
        /\ RatesInit /\ HitsInit /\ HistoryInit
        /\ BoostInit /\ NativeInit /\ InspectionInit /\ WatchInit
    BY DEF ServerInit
<1>2. [ServerNext]_serverVars =>
        /\ [BlocklistNext]_listVars /\ [IncidentsNext]_incidentsVars /\ [RestoreNext]_restoreVars
        /\ [BalanceNext]_balanceVars /\ [CacheNext]_cacheVars
        /\ [RatesNext]_ratesVars /\ [HitsNext]_hitsVars /\ [HistoryNext]_historyVars
        /\ [BoostNext]_boostVars /\ [NativeNext]_nativeVars
        /\ [InspectionNext]_inspectionVars /\ [WatchNext]_watchVars
    BY EachComponentSteps DEF FileSteps, ProxySteps, MemorySteps, ProcessSteps
<1> QED
    BY <1>1, <1>2, PTL DEF ServerSpec, BlocklistSpec, IncidentsSpec, RestoreSpec, BalanceSpec, CacheSpec,
        RatesSpec, HitsSpec, HistorySpec, BoostSpec, NativeSpec, InspectionSpec, WatchSpec

\* Whichever component moves, every component keeps the types of its variables.
THEOREM ServerTypeCorrect == ServerSpec => []ServerTypeOK
<1> DEFINE Types ==
            /\ BlocklistTypeOK /\ IncidentsTypeOK /\ RestoreTypeOK /\ BalanceTypeOK /\ CacheTypeOK
            /\ RatesTypeOK /\ HitsTypeOK /\ HistoryTypeOK
            /\ BoostTypeOK /\ NativeTypeOK /\ InspectionTypeOK /\ WatchTypeOK
<1>1. ServerInit => part \in Parts
    BY DEF ServerInit
<1>2. part \in Parts /\ [ServerNext]_serverVars => (part \in Parts)'
    BY DEF ServerNext, serverVars, Blocks, Balances, Caches, CountsRate, CountsHits, Supervises, Drives, Files,
        Remembers, RestoresIt, Inspects, Watches, Parts
<1>3. ServerSpec => []Types
    BY ServerImplementsComponents, BlocklistTypeCorrect, IncidentsTypeCorrect, RestoreTypeCorrect,
        BalanceTypeCorrect, CacheTypeCorrect, RatesTypeCorrect, HitsTypeCorrect, HistoryTypeCorrect,
        BoostTypeCorrect, NativeTypeCorrect, InspectionTypeCorrect, WatchTypeCorrect, PTL
<1>4. part \in Parts /\ Types => ServerTypeOK
    BY DEF ServerTypeOK
<1> QED
    BY <1>1, <1>2, <1>3, <1>4, PTL DEF ServerSpec

\* Every property of a component holds of the server: what the run of the server checks on a small instance.
THEOREM ServerKeepsItsWord ==
    ServerSpec =>
        /\ [](ListsAreCurrent /\ AutoBansBounded /\ NoForeignWal /\ OneIncidentAtATime)
        /\ ManualBanStands /\ ClosedWhenQuiet
        /\ [](ActiveIsInFlight /\ LimitHolds /\ EffectsOnce /\ FetchesAreNeeded /\ DirectoryIsSound)
        /\ [](SharedCountersAreExact /\ MemoryAnswersAsHistory)
        /\ [](StopReachesEveryWorker /\ MixedHasACause /\ VerdictsAreMatched /\ FollowedGoToPython)
<1>1. BlocklistSpec /\ IncidentsSpec /\ RestoreSpec =>
        /\ [](ListsAreCurrent /\ AutoBansBounded /\ NoForeignWal /\ OneIncidentAtATime)
        /\ ManualBanStands /\ ClosedWhenQuiet
    BY NoBanIsLost, AutoBansAreBounded, NoForeignWalIsLeft, OneIncident, ManualBansStand, ClosuresAreQuiet, PTL
<1>2. BalanceSpec /\ CacheSpec =>
        [](ActiveIsInFlight /\ LimitHolds /\ EffectsOnce /\ FetchesAreNeeded /\ DirectoryIsSound)
    BY CountIsExact, LimitIsKept, EffectsAreNotRepeated, FetchesAreForLosses, FilesAreCounted, PTL
<1>3. RatesSpec /\ HitsSpec /\ HistorySpec => [](SharedCountersAreExact /\ MemoryAnswersAsHistory)
    BY CountersAreExact, MemoryIsTheHistory, PTL
<1>4. BoostSpec /\ NativeSpec /\ InspectionSpec /\ WatchSpec =>
        [](StopReachesEveryWorker /\ MixedHasACause /\ VerdictsAreMatched /\ FollowedGoToPython)
    BY StopIsComplete, MixedNeedsACause, VerdictsFindTheirRequests, FollowedSourcesAreSent, PTL
<1> QED
    BY <1>1, <1>2, <1>3, <1>4, ServerImplementsComponents, PTL
===============================================================================
