------------------------------- MODULE MCFleet ------------------------------
(***************************************************************************)
(* Small instances of Fleet for TLC: one booking, in scopes that each open *)
(* up one part of the model.                                               *)
(***************************************************************************)
EXTENDS Fleet

\* A booking's two moments, and those of a row and of an answer of each biker;
\* one more is always to be had.
EnoughMoments == 1..(2 + 2 * Cardinality(Bikers) + 1)

One == {CHOOSE r \in Bikers : TRUE}

\* Two rounds ring one biker, and the business may retry.
SearchScope ==
  [bikers |-> One, moves |-> {}, rounds |-> 2, kicks |-> 1,
   business |-> {"retry"}, console |-> FALSE, faults |-> 0]

\* One round rings two bikers; the business may convert the booking, and one
\* call is lost.
RaceScope ==
  [bikers |-> Bikers, moves |-> {}, rounds |-> 1, kicks |-> 0,
   business |-> {"convert"}, console |-> FALSE, faults |-> 1]

\* One biker joins and leaves while a round rings, the business converts the
\* booking and the public board has it, and one call is lost.
LinkScope ==
  [bikers |-> One, moves |-> {"links"}, rounds |-> 1, kicks |-> 0,
   business |-> {"convert"}, console |-> FALSE, faults |-> 1]

\* Two rounds ring one biker, who goes offline and online, while the console
\* pauses and disables the fleet and cancels the booking.
ConsoleScope ==
  [bikers |-> One, moves |-> {"shifts"}, rounds |-> 2, kicks |-> 0,
   business |-> {"cancel"}, console |-> TRUE, faults |-> 0]

\* A kick is lost, or another call, while one round rings one biker.
KickScope ==
  [bikers |-> One, moves |-> {}, rounds |-> 1, kicks |-> 1,
   business |-> {}, console |-> FALSE, faults |-> 1]

\* The same under the console: the cancellation of a pause or a disabling is lost.
StopScope == [KickScope EXCEPT !.kicks = 0, !.console = TRUE]

AllScopes == {SearchScope, RaceScope, LinkScope, ConsoleScope, KickScope, StopScope}

SearchOnly == {SearchScope}
=============================================================================
