-------------------------------- MODULE Server --------------------------------
(***************************************************************************)
(* The components of the server that share no state, side by side: a       *)
(* behaviour is one of one of them, the others stand still.                *)
(***************************************************************************)
EXTENDS Blocklist, ProxyBalance, ProxyCache, SharedCounters, BoostSupervisor, NativeSupervisor,
        Incidents, RiposteHistory, Restore, NativeInspection, NativeWatch

VARIABLE part

proxyVars  == <<balanceVars, cacheVars>>
sharedVars == <<ratesVars, hitsVars>>
superVars  == <<boostVars, nativeVars>>
recordVars == <<incidentsVars, historyVars, restoreVars>>
threadVars == <<inspectionVars, watchVars>>

Parts == {"blocklist", "balance", "cache", "rates", "hits", "boost", "native", "incidents",
          "history", "restore", "inspection", "watch"}

ServerInit ==
    /\ part \in Parts
    /\ BlocklistInit /\ BalanceInit /\ CacheInit /\ RatesInit /\ HitsInit /\ BoostInit /\ NativeInit
    /\ IncidentsInit /\ HistoryInit /\ RestoreInit /\ InspectionInit /\ WatchInit
    /\ part # "blocklist" => file = NoBans

Blocks     == part = "blocklist" /\ BlocklistNext
              /\ UNCHANGED <<part, proxyVars, sharedVars, superVars, recordVars, threadVars>>
Balances   == part = "balance" /\ BalanceNext
              /\ UNCHANGED <<part, listVars, cacheVars, sharedVars, superVars, recordVars, threadVars>>
Caches     == part = "cache" /\ CacheNext
              /\ UNCHANGED <<part, listVars, balanceVars, sharedVars, superVars, recordVars, threadVars>>
CountsRate == part = "rates" /\ RatesNext
              /\ UNCHANGED <<part, listVars, proxyVars, hitsVars, superVars, recordVars, threadVars>>
CountsHits == part = "hits" /\ HitsNext
              /\ UNCHANGED <<part, listVars, proxyVars, ratesVars, superVars, recordVars, threadVars>>
Supervises == part = "boost" /\ BoostNext
              /\ UNCHANGED <<part, listVars, proxyVars, sharedVars, nativeVars, recordVars, threadVars>>
Drives     == part = "native" /\ NativeNext
              /\ UNCHANGED <<part, listVars, proxyVars, sharedVars, boostVars, recordVars, threadVars>>
Files      == part = "incidents" /\ IncidentsNext
              /\ UNCHANGED <<part, listVars, proxyVars, sharedVars, superVars, historyVars, restoreVars, threadVars>>
Remembers  == part = "history" /\ HistoryNext
              /\ UNCHANGED <<part, listVars, proxyVars, sharedVars, superVars, incidentsVars, restoreVars, threadVars>>
RestoresIt == part = "restore" /\ RestoreNext
              /\ UNCHANGED <<part, listVars, proxyVars, sharedVars, superVars, incidentsVars, historyVars, threadVars>>
Inspects   == part = "inspection" /\ InspectionNext
              /\ UNCHANGED <<part, listVars, proxyVars, sharedVars, superVars, recordVars, watchVars>>
Watches    == part = "watch" /\ WatchNext
              /\ UNCHANGED <<part, listVars, proxyVars, sharedVars, superVars, recordVars, inspectionVars>>

ServerNext ==
    \/ Blocks \/ Balances \/ Caches \/ CountsRate \/ CountsHits \/ Supervises \/ Drives \/ Files
    \/ Remembers \/ RestoresIt \/ Inspects \/ Watches

serverVars == <<part, listVars, proxyVars, sharedVars, superVars, recordVars, threadVars>>

ServerSpec == ServerInit /\ [][ServerNext]_serverVars

-----------------------------------------------------------------------------
\* The variables of the components keep their types.
ServerTypeOK ==
    /\ part \in Parts
    /\ part = "blocklist" => BlocklistTypeOK
    /\ part = "balance" => BalanceTypeOK
    /\ part = "cache" => CacheTypeOK
    /\ part = "rates" => RatesTypeOK
    /\ part = "hits" => HitsTypeOK
    /\ part = "boost" => BoostTypeOK
    /\ part = "native" => NativeTypeOK
    /\ part = "incidents" => IncidentsTypeOK
    /\ part = "history" => HistoryTypeOK
    /\ part = "restore" => RestoreTypeOK
    /\ part = "inspection" => InspectionTypeOK
    /\ part = "watch" => WatchTypeOK
=============================================================================
