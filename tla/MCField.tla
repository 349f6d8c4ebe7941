------------------------------ MODULE MCField ------------------------------
EXTENDS FieldSync, TLC
CONSTANTS kiosk, sale, asked, none
MCBuyerOf == sale :> kiosk @@ asked :> none
=============================================================================
