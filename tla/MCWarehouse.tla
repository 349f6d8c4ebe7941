---------------------------- MODULE MCWarehouse ----------------------------
(***************************************************************************)
(* Three components that share no table but the goods: write-offs and      *)
(* counts, the rounds of the vans, and purchases.  A behaviour plays one   *)
(* of them, its scene, and leaves the others as they start.                *)
(***************************************************************************)
EXTENDS MCStockDocs, MCRounds, MCTrade

VARIABLE scene

warehouseVars == <<scene, docVars, roundsVars, tradeVars>>

\* The first state of a component that is not played.
DocIdle   == DocInit /\ chore = CHOOSE t \in Tasks : TRUE
RoundIdle == RoundsInit /\ errand = CHOOSE e \in Errands : TRUE
TradeIdle == /\ TradeInit /\ trade = CHOOSE t \in Trades : TRUE
             /\ order.lines = CHOOSE l \in Ordered : TRUE

WarehouseInit ==
    \/ scene = "documents" /\ DocInit  /\ RoundIdle  /\ TradeIdle
    \/ scene = "rounds"    /\ DocIdle  /\ RoundsInit /\ TradeIdle
    \/ scene = "purchases" /\ DocIdle  /\ RoundIdle  /\ TradeInit

WarehouseNext ==
    \/ scene = "documents" /\ DocNext    /\ UNCHANGED <<scene, roundsVars, tradeVars>>
    \/ scene = "rounds"    /\ RoundsNext /\ UNCHANGED <<scene, docVars, tradeVars>>
    \/ scene = "purchases" /\ TradeNext  /\ UNCHANGED <<scene, docVars, roundsVars>>

WarehouseSpec == WarehouseInit /\ [][WarehouseNext]_warehouseVars
=============================================================================
