------------------------------- MODULE MCMenu -------------------------------
EXTENDS Menu, TLC
CONSTANTS a, c, food, drink
MCCategoryOf == (a :> food @@ c :> drink)
MCDeals == {[kind |-> "amount_off", value |-> 3]}
=============================================================================
