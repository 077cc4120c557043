------------------------------- MODULE MCFood -------------------------------
(***************************************************************************)
(* Small instances of FoodDispatch for TLC: one order, in scopes that each *)
(* open up one part of the model.                                          *)
(***************************************************************************)
EXTENDS FoodDispatch

\* Two lines and a swap, changed twice; nobody is in reach.
KitchenScope ==
  [riders |-> {}, lines |-> {1, 2}, swaps |-> {3}, ceilings |-> {0},
   wallets |-> BOOLEAN, autos |-> BOOLEAN, leaves |-> TRUE,
   changes |-> 2, rounds |-> 0, crashes |-> 0]

\* One line; two rounds reach one rider, and one call is cut short.
SearchScope ==
  [riders |-> {CHOOSE r \in Riders : TRUE}, lines |-> {1}, swaps |-> {}, ceilings |-> {0},
   wallets |-> {FALSE}, autos |-> {FALSE}, leaves |-> TRUE,
   changes |-> 0, rounds |-> 2, crashes |-> 1]

\* One round reaches every rider, and one call is cut short; the customer waits.
RaceScope ==
  [riders |-> Riders, lines |-> {1}, swaps |-> {}, ceilings |-> {0},
   wallets |-> {FALSE}, autos |-> {FALSE}, leaves |-> FALSE,
   changes |-> 0, rounds |-> 1, crashes |-> 1]

\* One round, which may start while the food cooks, reaches one rider; the
\* customer waits.
EarlyScope ==
  [riders |-> {CHOOSE r \in Riders : TRUE}, lines |-> {1}, swaps |-> {}, ceilings |-> {0},
   wallets |-> {FALSE}, autos |-> {TRUE}, leaves |-> FALSE,
   changes |-> 0, rounds |-> 1, crashes |-> 0]

\* A fee that climbs and may be raised, with lines to take off meanwhile.
PriceScope ==
  [riders |-> {}, lines |-> {1, 2}, swaps |-> {}, ceilings |-> {1, 2},
   wallets |-> {FALSE}, autos |-> {FALSE}, leaves |-> TRUE,
   changes |-> 1, rounds |-> 0, crashes |-> 0]

\* The kitchen alone.
KitchenOnly == {KitchenScope}

AllScopes == {KitchenScope, SearchScope, RaceScope, EarlyScope, PriceScope}
=============================================================================
