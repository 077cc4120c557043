---------------------------- MODULE LineageProofs ----------------------------
(***************************************************************************)
(* One live order per trip, for any number of orders and resends: however  *)
(* riders bail and the customer resends, a lineage never has two orders on *)
(* the board or on the road.                                               *)
(*                                                                         *)
(* The code walks rebroadcast_of_id up to LINEAGE_MAX_DEPTH times. The     *)
(* theorem is about the states in which that is enough to reach the root   *)
(* of every order (Reached); lineages only grow, so a state that is not    *)
(* such a state has none after it.                                         *)
(***************************************************************************)
EXTENDS TripProofs, SumFacts

-----------------------------------------------------------------------------
(***************************************************************************)
(* The walk up a lineage                                                   *)
(***************************************************************************)
Parents == [Orders -> Orders \cup {NoOrder}]

Up(pa, o) == IF pa[o] = NoOrder THEN o ELSE pa[o]

\* The orders a walk of n steps from o visits.
Walk(pa, o, n, w) ==
  /\ w \in [0..n -> Orders]
  /\ w[0] = o
  /\ \A i \in 1..n : w[i] = Up(pa, w[i - 1])

\* Root, of any parents.
RootIn(pa, o) ==
  LET up[n \in 0..LineageDepth] ==
        IF n = 0 THEN o
        ELSE IF pa[up[n - 1]] = NoOrder THEN up[n - 1] ELSE pa[up[n - 1]]
  IN  up[LineageDepth]

\* From every order there is a walk of any length.
LEMMA WalksExist ==
  ASSUME NEW pa \in Parents, NEW o \in Orders
  PROVE  \A n \in Nat : \E w : Walk(pa, o, n, w)
<1> DEFINE S == {n \in Nat : \E w : Walk(pa, o, n, w)}
<1>0. \A p \in Orders : Up(pa, p) \in Orders
  BY DEF Up, Parents
<1>1. 0 \in S
  <2>1. Walk(pa, o, 0, [i \in 0..0 |-> o])
    BY DEF Walk
  <2>2. QED
    BY <2>1
<1>2. ASSUME NEW n \in Nat, n \in S
      PROVE  n + 1 \in S
  <2>1. PICK w : Walk(pa, o, n, w)
    BY <1>2
  <2> DEFINE v == [i \in 0..(n + 1) |-> IF i = n + 1 THEN Up(pa, w[n]) ELSE w[i]]
  <2>2. /\ w \in [0..n -> Orders] /\ w[0] = o
        /\ \A i \in 1..n : w[i] = Up(pa, w[i - 1])
    BY <2>1 DEF Walk
  <2>3. v \in [0..(n + 1) -> Orders]
    BY <1>0, <2>2
  <2>4. v[0] = o
    BY <2>2
  <2>5. \A i \in 1..(n + 1) : v[i] = Up(pa, v[i - 1])
    BY <2>2
  <2>6. Walk(pa, o, n + 1, v)
    BY <2>3, <2>4, <2>5 DEF Walk
  <2>7. QED
    BY <2>6
<1>3. QED
  <2> HIDE DEF S
  <2>1. Nat \subseteq S
    BY <1>1, <1>2, SetInduction
  <2>2. QED
    BY <2>1 DEF S

\* Two walks from an order visit the same orders, as far as both go and the
\* parents of the orders they visit are the same.
LEMMA WalksAgree ==
  ASSUME NEW pa, NEW pb, NEW o, NEW m \in Nat, NEW n \in Nat, m <= n, NEW w, NEW v,
         Walk(pa, o, m, w), Walk(pb, o, n, v),
         \A i \in 0..m : pa[w[i]] = pb[w[i]]
  PROVE  \A i \in 0..m : w[i] = v[i]
<1> DEFINE S == {i \in Nat : i <= m => w[i] = v[i]}
<1>0. /\ w[0] = o /\ \A i \in 1..m : w[i] = Up(pa, w[i - 1])
      /\ v[0] = o /\ \A i \in 1..n : v[i] = Up(pb, v[i - 1])
  BY DEF Walk
<1>1. 0 \in S
  BY <1>0
<1>2. ASSUME NEW i \in Nat, i \in S
      PROVE  i + 1 \in S
  <2>1. SUFFICES ASSUME i + 1 <= m PROVE w[i + 1] = v[i + 1]
    OBVIOUS
  <2>2. i + 1 \in 1..m /\ i + 1 \in 1..n /\ (i + 1) - 1 = i /\ i \in 0..m
    BY <2>1
  <2>3. w[i] = v[i]
    BY <1>2, <2>1
  <2>4. w[i + 1] = Up(pa, w[i]) /\ v[i + 1] = Up(pb, v[i])
    BY <1>0, <2>2
  <2>5. QED
    BY <2>2, <2>3, <2>4 DEF Up
<1>3. Nat \subseteq S
  <2> HIDE DEF S
  <2>1. QED
    BY <1>1, <1>2, SetInduction
<1>4. QED
  BY <1>3

\* Root is where a walk of LINEAGE_MAX_DEPTH steps ends.
LEMMA RootIs ==
  ASSUME NEW pa \in Parents, NEW o \in Orders, NEW w, Walk(pa, o, LineageDepth, w)
  PROVE  RootIn(pa, o) = w[LineageDepth] /\ RootIn(pa, o) \in Orders
<1> DEFINE D == LineageDepth
           Ups(f) == f = [n \in 0..D |->
                       IF n = 0 THEN o
                       ELSE IF pa[f[n - 1]] = NoOrder THEN f[n - 1] ELSE pa[f[n - 1]]]
           up == CHOOSE f : Ups(f)
<1>0. D \in Nat
  BY TripAssumption
<1>1. \A f : Ups(f) <=> /\ f = [n \in 0..D |-> f[n]]
                        /\ f[0] = o /\ \A i \in 1..D : f[i] = Up(pa, f[i - 1])
  <2> TAKE f
  <2> DEFINE g(n) == IF n = 0 THEN o
                     ELSE IF pa[f[n - 1]] = NoOrder THEN f[n - 1] ELSE pa[f[n - 1]]
  <2>0. g(0) = o /\ \A n \in 1..D : g(n) = Up(pa, f[n - 1])
    BY <1>0 DEF Up
  <2>1. ASSUME f[0] = o, \A i \in 1..D : f[i] = Up(pa, f[i - 1]), f = [n \in 0..D |-> f[n]]
        PROVE  Ups(f)
    <3> HIDE DEF g
    <3>1. \A n \in 0..D : f[n] = g(n)
      <4>1. \A n \in 0..D : n = 0 \/ n \in 1..D
        BY <1>0
      <4>2. QED
        BY <2>0, <2>1, <4>1
    <3>2. f = [n \in 0..D |-> g(n)]
      BY <2>1, <3>1
    <3>3. QED
      BY <3>2 DEF g
  <2>2. ASSUME Ups(f)
        PROVE  f[0] = o /\ (\A i \in 1..D : f[i] = Up(pa, f[i - 1])) /\ f = [n \in 0..D |-> f[n]]
    <3>1. f = [n \in 0..D |-> g(n)]
      BY <2>2
    <3>2. \A n \in 0..D : f[n] = g(n)
      <4> HIDE DEF g
      <4>1. QED
        BY <3>1
    <3>3. f = [n \in 0..D |-> f[n]]
      <4> HIDE DEF g
      <4>1. QED
        BY <3>1
    <3> HIDE DEF g
    <3>4. 0 \in 0..D /\ \A n \in 1..D : n \in 0..D
      BY <1>0
    <3>5. QED
      BY <2>0, <3>2, <3>3, <3>4
  <2>3. QED
    BY <2>1, <2>2
<1>2. w \in [0..D -> Orders] /\ w[0] = o /\ \A i \in 1..D : w[i] = Up(pa, w[i - 1])
  BY DEF Walk
<1>3. Ups(w)
  <2>1. w = [n \in 0..D |-> w[n]]
    BY <1>2
  <2> HIDE DEF Ups
  <2>2. QED
    BY <1>1, <1>2, <2>1
<1>4. Ups(up)
  <2> HIDE DEF Ups
  <2>1. QED
    BY <1>3, Zenon
<1>5. RootIn(pa, o) = up[D]
  BY DEF RootIn
<1>6. up[0] = o /\ \A i \in 1..D : up[i] = Up(pa, up[i - 1])
  <2> HIDE DEF Ups, up
  <2>1. QED
    BY <1>1, <1>4
<1> HIDE DEF up, Ups
<1> DEFINE S == {i \in Nat : i <= D => up[i] = w[i]}
<1>7. 0 \in S
  BY <1>2, <1>6
<1>8. ASSUME NEW i \in Nat, i \in S
      PROVE  i + 1 \in S
  <2>1. SUFFICES ASSUME i + 1 <= D PROVE up[i + 1] = w[i + 1]
    OBVIOUS
  <2>2. i + 1 \in 1..D /\ (i + 1) - 1 = i /\ up[i] = w[i]
    BY <1>0, <1>8, <2>1
  <2>3. QED
    BY <1>2, <1>6, <2>2
<1>9. Nat \subseteq S
  <2> HIDE DEF S
  <2>1. QED
    BY <1>7, <1>8, SetInduction
<1>10. up[D] = w[D] /\ w[D] \in Orders
  BY <1>0, <1>2, <1>9
<1>11. QED
  BY <1>5, <1>10

-----------------------------------------------------------------------------
(***************************************************************************)
(* A re-broadcast adds an order below another                              *)
(***************************************************************************)
\* Nobody's parent, and without one.
Unlinked(pa, c) == pa[c] = NoOrder /\ \A p \in Orders : pa[p] # c

\* Every walk ends at a root.
Reaches(pa) == \A o \in Orders : pa[RootIn(pa, o)] = NoOrder

\* A walk from another order never meets one that is nobody's parent.
LEMMA WalkMisses ==
  ASSUME NEW pa \in Parents, NEW c \in Orders, \A p \in Orders : pa[p] # c,
         NEW o \in Orders, o # c, NEW n \in Nat, NEW w, Walk(pa, o, n, w)
  PROVE  \A i \in 0..n : w[i] \in Orders /\ w[i] # c
<1> DEFINE S == {i \in Nat : i <= n => w[i] # c}
<1>0. /\ w \in [0..n -> Orders] /\ w[0] = o
      /\ \A i \in 1..n : w[i] = Up(pa, w[i - 1])
  BY DEF Walk
<1>1. 0 \in S
  BY <1>0
<1>2. ASSUME NEW i \in Nat, i \in S
      PROVE  i + 1 \in S
  <2>1. SUFFICES ASSUME i + 1 <= n PROVE w[i + 1] # c
    OBVIOUS
  <2>2. i + 1 \in 1..n /\ (i + 1) - 1 = i /\ i \in 0..n
    BY <2>1
  <2>3. w[i] # c /\ w[i] \in Orders
    BY <1>0, <1>2, <2>1, <2>2
  <2>4. QED
    BY <1>0, <2>2, <2>3 DEF Up
<1>3. Nat \subseteq S
  <2> HIDE DEF S
  <2>1. QED
    BY <1>1, <1>2, SetInduction
<1>4. QED
  BY <1>0, <1>3

\* The root of an order, before it has a parent and before it is one.
LEMMA FreshRoots ==
  ASSUME NEW pa \in Parents, NEW c \in Orders, Unlinked(pa, c), NEW o \in Orders
  PROVE  /\ RootIn(pa, o) \in Orders
         /\ o # c => RootIn(pa, o) # c
         /\ o = c => RootIn(pa, o) = c
<1> DEFINE D == LineageDepth
<1>0. D \in Nat
  BY TripAssumption
<1>1. PICK w : Walk(pa, o, D, w)
  BY <1>0, WalksExist
<1>2. RootIn(pa, o) = w[D] /\ RootIn(pa, o) \in Orders
  BY <1>1, RootIs
<1>3. CASE o # c
  <2>1. w[D] # c
    BY <1>0, <1>1, <1>3, WalkMisses DEF Unlinked
  <2>2. QED
    BY <1>2, <1>3, <2>1
<1>4. CASE o = c
  <2> DEFINE v == [i \in 0..D |-> c]
  <2>1. Walk(pa, c, D, v)
    <3>1. v \in [0..D -> Orders] /\ v[0] = c
      BY <1>0
    <3>2. \A i \in 1..D : v[i] = Up(pa, v[i - 1])
      BY <1>0 DEF Up, Unlinked
    <3>3. QED
      BY <3>1, <3>2 DEF Walk
  <2>2. v[D] = c
    BY <1>0
  <2> HIDE DEF v
  <2>3. QED
    BY <1>4, <2>1, <2>2, RootIs
<1>5. QED
  BY <1>2, <1>3, <1>4

\* The roots after a clone c of s joined: the others keep theirs, and the clone
\* has that of s, or is too far down to reach it.
LEMMA RootsAfter ==
  ASSUME NEW pa \in Parents, NEW c \in Orders, Unlinked(pa, c), NEW s \in Orders, s # c
  PROVE  LET pb == [pa EXCEPT ![c] = s]
         IN  /\ pb \in Parents
             /\ \A o \in Orders \ {c} : RootIn(pb, o) = RootIn(pa, o)
             /\ Reaches(pb) => Reaches(pa) /\ RootIn(pb, c) = RootIn(pa, s)
<1> DEFINE pb == [pa EXCEPT ![c] = s]
           D == LineageDepth
<1>0. D \in Nat
  BY TripAssumption
<1>1. pb \in Parents /\ pb[c] = s /\ \A p \in Orders \ {c} : pb[p] = pa[p]
  BY DEF Parents
<1> HIDE DEF pb
<1>2. \A o \in Orders : o # c => RootIn(pa, o) \in Orders /\ RootIn(pa, o) # c
  BY FreshRoots
<1>3. ASSUME NEW o \in Orders \ {c}
      PROVE  RootIn(pb, o) = RootIn(pa, o)
  <2>1. PICK w : Walk(pa, o, D, w)
    BY <1>0, WalksExist
  <2>2. PICK v : Walk(pb, o, D, v)
    BY <1>0, <1>1, WalksExist
  <2>3. \A i \in 0..D : w[i] \in Orders /\ w[i] # c
    BY <1>0, <1>3, <2>1, WalkMisses DEF Unlinked
  <2>4. \A i \in 0..D : pa[w[i]] = pb[w[i]]
    BY <1>1, <2>3
  <2>5. w[D] = v[D]
    BY <1>0, <2>1, <2>2, <2>4, WalksAgree
  <2>6. RootIn(pa, o) = w[D]
    BY <1>3, <2>1, RootIs
  <2>7. RootIn(pb, o) = v[D]
    BY <1>1, <1>3, <2>2, RootIs
  <2>8. QED
    BY <2>5, <2>6, <2>7
<1>4. ASSUME Reaches(pb)
      PROVE  Reaches(pa)
  <2>1. ASSUME NEW o \in Orders
        PROVE  pa[RootIn(pa, o)] = NoOrder
    <3>1. CASE o = c
      BY <3>1, FreshRoots DEF Unlinked
    <3>2. CASE o # c
      BY <1>1, <1>2, <1>3, <1>4, <3>2 DEF Reaches
    <3>3. QED
      BY <3>1, <3>2
  <2>2. QED
    BY <2>1 DEF Reaches
<1>5. ASSUME Reaches(pb)
      PROVE  RootIn(pb, c) = RootIn(pa, s)
  <2>1. PICK v : Walk(pb, c, D, v)
    BY <1>0, <1>1, WalksExist
  <2>2. PICK w : Walk(pa, s, D, w)
    BY <1>0, WalksExist
  <2>3. RootIn(pb, c) = v[D] /\ RootIn(pa, s) = w[D]
    BY <1>1, <2>1, <2>2, RootIs
  <2>4. pb[v[D]] = NoOrder
    BY <1>5, <2>3 DEF Reaches
  <2>5. /\ v \in [0..D -> Orders] /\ v[0] = c
        /\ \A i \in 1..D : v[i] = Up(pb, v[i - 1])
    BY <2>1 DEF Walk
  <2>6. s # NoOrder
    BY RowAssumption
  <2>7. D # 0
    BY <1>1, <2>4, <2>5, <2>6
  <2> DEFINE E == D - 1
             x == [i \in 0..E |-> v[i + 1]]
  <2>8. E \in Nat /\ E + 1 = D /\ E <= D
    BY <1>0, <2>7
  <2>9. Walk(pb, s, E, x)
    <3>1. x \in [0..E -> Orders]
      BY <2>5, <2>8
    <3>2. x[0] = s
      BY <1>1, <2>5, <2>6, <2>8 DEF Up
    <3>3. \A i \in 1..E : x[i] = Up(pb, x[i - 1])
      <4> TAKE i \in 1..E
      <4>1. i \in 0..E /\ i - 1 \in 0..E /\ i + 1 \in 1..D /\ (i + 1) - 1 = (i - 1) + 1
        BY <2>8
      <4>2. v[i + 1] = Up(pb, v[(i + 1) - 1])
        BY <2>5, <4>1
      <4>3. QED
        BY <4>1, <4>2
    <3>4. QED
      BY <3>1, <3>2, <3>3 DEF Walk
  <2>10. x[E] = v[D]
    BY <2>8
  <2> HIDE DEF x, E
  <2>11. \A i \in 0..D : w[i] \in Orders /\ w[i] # c
    BY <1>0, <2>2, WalkMisses DEF Unlinked
  <2> DEFINE y == [i \in 0..E |-> w[i]]
  <2>12. Walk(pa, s, E, y)
    BY <2>2, <2>8 DEF Walk
  <2>13. \A i \in 0..E : y[i] = w[i] /\ pa[y[i]] = pb[y[i]]
    BY <1>1, <2>8, <2>11
  <2> HIDE DEF y
  <2>14. \A i \in 0..E : y[i] = x[i]
    BY <2>8, <2>9, <2>12, <2>13, WalksAgree
  <2>15. w[E] = v[D]
    BY <2>8, <2>10, <2>13, <2>14
  <2>16. pa[w[E]] = NoOrder
    BY <2>4, <2>8, <2>13, <2>14, <2>10
  <2>17. w[D] = Up(pa, w[E])
    BY <1>0, <2>2, <2>7, <2>8 DEF Walk, E
  <2>18. QED
    BY <2>3, <2>15, <2>16, <2>17 DEF Up
<1>6. QED
  BY <1>1, <1>3, <1>4, <1>5 DEF pb

-----------------------------------------------------------------------------
(***************************************************************************)
(* The invariant                                                           *)
(***************************************************************************)
LiveStatuses == Active \cup {"open_for_offers"}
RootOf(o) == RootIn(parent, o)

\* As long as LINEAGE_MAX_DEPTH steps reach the root of every order.
Reached == Reaches(parent)

\* An order that does not exist is not linked to any.
Unborn == \A o \in Orders : status[o] = "none" => Unlinked(parent, o)

\* A resend is of an order that exists.
Sent == \A q \in resends : status[q.order] # "none"

\* Two resends never hold one lineage at once.
Apart ==
  \A p, q \in resends : p.stage = "locked" /\ q.stage = "locked" /\ p # q =>
    RootOf(p.order) # RootOf(q.order)

\* A lineage in which a resend found nothing live stays that way while it holds
\* the lineage.
NoneLive ==
  \A q \in resends : q.stage = "locked" /\ q.found = NoOrder =>
    \A o \in Orders : Live(o) => RootOf(o) # RootOf(q.order)

OneLive == \A o, p \in Orders : Live(o) /\ Live(p) /\ o # p => RootOf(o) # RootOf(p)

LineageInv == Unborn /\ Sent /\ Apart /\ (Reached => NoneLive /\ OneLive)

\* Root is RootIn of the parents there are.
LEMMA RootIsRootOf == \A o \in Orders : Root(o) = RootOf(o)
BY DEF Root, Climb, RootOf, RootIn

(***************************************************************************)
(* What a step does to the lineages                                        *)
(***************************************************************************)
Still ==
  /\ parent' = parent /\ resends' \subseteq resends
  /\ \A o \in Orders : /\ Live(o)' => Live(o)
                       /\ status'[o] = "none" <=> status[o] = "none"

Born(o) ==
  /\ status[o] = "none"
  /\ status' = [status EXCEPT ![o] = "open_for_offers"]
  /\ UNCHANGED <<parent, resends>>

\* A clone of s, which was live until this step, or which a resend holds.
Cloned(s, c) ==
  /\ status[c] = "none" /\ status[s] # "none" /\ s # c
  /\ parent' = [parent EXCEPT ![c] = s]
  /\ \A o \in Orders \ {c} : /\ Live(o)' => Live(o)
                             /\ status'[o] = "none" <=> status[o] = "none"
  /\ status'[c] # "none"
  /\ \/ Live(s) /\ ~Live(s)' /\ resends' = resends
     \/ \E q \in resends : /\ q.stage = "locked" /\ q.found = NoOrder /\ q.order = s
                           /\ resends' = resends \ {q}

Filed(q) ==
  /\ status[q.order] # "none" /\ q.stage = "read"
  /\ resends' = resends \cup {q}
  /\ UNCHANGED <<status, parent>>

Locks(q, found) ==
  /\ LockedRows(q.order) \cap Locked = {} /\ ~InProgress(q.order)
  /\ found = NoOrder => OnBoard(q.order) = {}
  /\ resends' = (resends \ {q}) \cup {[order |-> q.order, stage |-> "locked", found |-> found]}
  /\ UNCHANGED <<status, parent>>

LineageStep ==
  \/ Still
  \/ \E o \in Orders : Born(o)
  \/ \E s, c \in Orders : Cloned(s, c)
  \/ \E o \in Orders, q \in Resends : q.order = o /\ Filed(q)
  \/ \E q \in resends, found \in Orders \cup {NoOrder} : Locks(q, found)

\* A step on other rows.
LEMMA OthersStill ==
  ASSUME UNCHANGED <<status, parent>>, resends' \subseteq resends
  PROVE  Still
BY DEF Still, Live

\* A status change of an order that exists, to one that is live only if the one
\* before was.
LEMMA StatusStill ==
  ASSUME RowsOK, NEW o \in Orders, NEW to \in Statuses, status' = [status EXCEPT ![o] = to],
         status[o] # "none", to # "none", to \in LiveStatuses => status[o] \in LiveStatuses,
         UNCHANGED <<parent, resends>>
  PROVE  Still
<1>1. status \in [Orders -> Statuses]
  BY DEF RowsOK
<1>2. status'[o] = to /\ \A p \in Orders \ {o} : status'[p] = status[p]
  BY <1>1
<1>3. \A p \in Orders : (Live(p) <=> status[p] \in LiveStatuses)
                     /\ (Live(p)' <=> status'[p] \in LiveStatuses)
  BY DEF Live, LiveStatuses
<1>4. QED
  BY <1>2, <1>3 DEF Still

\* Every step is one of those.
LEMMA LineageSteps == IInv /\ Sent /\ [Next]_vars => LineageStep
<1> SUFFICES ASSUME IInv, Sent, [Next]_vars PROVE LineageStep
  OBVIOUS
<1> USE DEF LineageStep
<1>0. RowsOK /\ ParentsOK /\ CallsOK /\ resends \subseteq Resends
  BY TypeParts DEF IInv, CallsOK
<1>1. CASE UNCHANGED vars
  BY <1>1, OthersStill DEF vars, orderRows, calls
<1>2. CASE \E o \in Orders : Create(o)
  BY <1>2 DEF Create, SetStatus, Born, calls
<1>3. ASSUME NEW o \in Orders,
             Expire(o) \/ (\E to \in Active : Advance(o, to)) \/ ConfirmDelivery(o)
               \/ CustomerCancel(o) \/ AdminCancel(o)
      PROVE  Still
  <2>1. ASSUME NEW to \in Statuses, SetStatus(o, to), status[o] # "none", to # "none",
               to \in LiveStatuses => status[o] \in LiveStatuses
        PROVE  Still
    BY <1>0, <2>1, StatusStill DEF SetStatus, calls
  <2>2. CASE Expire(o)
    BY <2>1, <2>2 DEF Expire, Statuses, LiveStatuses, Active
  <2>3. ASSUME NEW to \in Active, Advance(o, to)
        PROVE  Still
    BY <2>1, <2>3 DEF Advance, Forward, Statuses, LiveStatuses, Active
  <2>4. CASE ConfirmDelivery(o)
    BY <2>1, <2>4 DEF ConfirmDelivery, Statuses, LiveStatuses, Active
  <2>5. CASE CustomerCancel(o)
    BY <2>1, <2>5 DEF CustomerCancel, CustomerCancellable, Statuses, LiveStatuses, Active
  <2>6. CASE AdminCancel(o)
    BY <2>1, <2>6 DEF AdminCancel, Statuses, LiveStatuses, Active
  <2>7. QED
    BY <1>3, <2>2, <2>3, <2>4, <2>5, <2>6
<1>4. ASSUME NEW q \in picks, Assign(q)
      PROVE  Still
  <2>1. q.order \in Orders
    BY <1>0 DEF CallsOK, Picks
  <2>2. /\ status[q.order] = "open_for_offers"
        /\ status' = [status EXCEPT ![q.order] = "assigned"]
        /\ UNCHANGED <<parent, resends>>
    BY <1>4 DEF Assign, PickLands
  <2>3. QED
    BY <1>0, <2>1, <2>2, StatusStill DEF LiveStatuses, Statuses
<1>5. ASSUME NEW o \in Orders, NEW p \in UndeliveredPenalties, MarkUndelivered(o, p)
      PROVE  Still
  <2>1. /\ status[o] \in PostPickup /\ status' = [status EXCEPT ![o] = "undelivered"]
        /\ UNCHANGED <<parent, resends>>
    BY <1>5 DEF MarkUndelivered, calls
  <2>2. QED
    BY <1>0, <2>1, StatusStill DEF LiveStatuses, Active, Statuses, PostPickup
<1>6. ASSUME NEW o \in Orders, NEW charged, Complete(o, charged), resends' = resends,
             status[o] \in {"delivered", "undelivered"}
      PROVE  Still
  BY <1>0, <1>6, StatusStill DEF Complete, LiveStatuses, Active, Statuses
<1>7. ASSUME NEW q \in rates, NEW e \in RatingEffects, RateOnTime(q, e)
      PROVE  Still
  <2>1. q.order \in Orders
    BY <1>0 DEF CallsOK, Rates
  <2>2. QED
    BY <1>6, <1>7, <2>1 DEF RateOnTime
<1>8. ASSUME NEW o \in Orders, AutoClose(o)
      PROVE  Still
  BY <1>6, <1>8 DEF AutoClose, calls
<1>9. ASSUME NEW q \in verdicts, VerdictCommit(q)
      PROVE  Still
  <2>1. q.order \in Orders
    BY <1>0 DEF CallsOK, Verdicts
  <2>2. QED
    BY <1>6, <1>9, <2>1 DEF VerdictCommit
<1>10. CASE \/ \E o \in Orders, r \in Riders, f \in Fares : PickRead(o, r, f)
            \/ \E q \in picks : PickRefused(q)
            \/ \E o \in Orders : RateRead(o)
            \/ \E q \in rates, e \in RatingEffects : RateLate(q, e)
            \/ \E q \in rates : RateRefused(q)
            \/ \E o \in Orders : VerdictRead(o)
            \/ \E q \in verdicts : VerdictRefused(q)
            \/ \E o \in Orders, f \in Fares : AdjustRead(o, f)
            \/ \E q \in adjusts : AdjustCommit(q)
            \/ \E q \in adjusts : AdjustRefused(q)
  BY <1>10, OthersStill DEF PickRead, PickRefused, RateRead, RateLate, RateRefused, VerdictRead,
       VerdictRefused, AdjustRead, AdjustCommit, AdjustRefused, orderRows
<1>11. CASE \/ \E q \in resends : ResendEnds(q)
            \/ \E r \in Riders, to \in AccountStops : StopAccount(r, to)
            \/ \E r \in Riders : ClearRead(r)
            \/ \E q \in clears : ClearCommit(q)
            \/ \E q \in clears : ClearRefused(q)
            \/ \E r \in Riders : GoOnline(r)
            \/ \E r \in Riders : GoOffline(r)
            \/ \E r \in Riders : CooldownEnds(r)
            \/ \E susp \in Suspensions, pct \in RatePcts : Redeploy(susp, pct)
  BY <1>11, OthersStill DEF ResendEnds, StopAccount, ClearRead, ClearCommit, ClearRefused,
       GoOnline, GoOffline, CooldownEnds, Redeploy, orderRows, calls
<1>12. ASSUME NEW o \in Orders, NEW clone \in Orders, RiderCancel(o, clone)
       PROVE  Cloned(o, clone)
  <2>1. /\ status[o] \in RiderCancellable /\ status[clone] = "none"
        /\ status' = [status EXCEPT ![o] = "cancelled", ![clone] = "open_for_offers"]
        /\ parent' = [parent EXCEPT ![clone] = o]
        /\ resends' = resends
    BY <1>12 DEF RiderCancel, calls
  <2>2. o # clone /\ status[o] \in LiveStatuses /\ status[o] # "none"
    BY <2>1 DEF RiderCancellable, LiveStatuses, Active
  <2>3. /\ status'[clone] = "open_for_offers" /\ status'[o] = "cancelled"
        /\ \A p \in Orders \ {o, clone} : status'[p] = status[p]
    BY <1>0, <2>1, <2>2 DEF RowsOK
  <2>4. \A p \in Orders : (Live(p) <=> status[p] \in LiveStatuses)
                       /\ (Live(p)' <=> status'[p] \in LiveStatuses)
    BY DEF Live, LiveStatuses
  <2>5. "cancelled" \notin LiveStatuses
    BY DEF LiveStatuses, Active
  <2>6. QED
    BY <2>1, <2>2, <2>3, <2>4, <2>5 DEF Cloned
<1>13. ASSUME NEW q \in resends, NEW clone \in Orders, ResendClone(q, clone)
       PROVE  q.order \in Orders /\ Cloned(q.order, clone)
  <2>1. q.order \in Orders /\ status[q.order] # "none"
    BY <1>0, <1>13 DEF Resends, Sent
  <2>2. /\ q.stage = "locked" /\ q.found = NoOrder /\ status[clone] = "none"
        /\ status' = [status EXCEPT ![clone] = "open_for_offers"]
        /\ parent' = [parent EXCEPT ![clone] = q.order]
        /\ resends' = resends \ {q}
    BY <1>13 DEF ResendClone
  <2>3. /\ status'[clone] = "open_for_offers"
        /\ \A p \in Orders \ {clone} : status'[p] = status[p]
    BY <1>0, <2>2 DEF RowsOK
  <2>4. \A p \in Orders \ {clone} : Live(p)' <=> Live(p)
    BY <2>3 DEF Live
  <2>5. QED
    BY <2>1, <2>2, <2>3, <2>4 DEF Cloned
<1>14. ASSUME NEW o \in Orders, ResendRead(o)
       PROVE  \E q \in Resends : q.order = o /\ Filed(q)
  <2> DEFINE q == [order |-> o, stage |-> "read", found |-> NoOrder]
  <2>1. q \in Resends /\ q.order = o /\ q.stage = "read"
    BY DEF Resends
  <2>2. status[o] # "none" /\ resends' = resends \cup {q} /\ UNCHANGED <<status, parent>>
    BY <1>14 DEF ResendRead, Resendable, orderRows
  <2> HIDE DEF q
  <2>3. QED
    BY <2>1, <2>2 DEF Filed
<1>15. ASSUME NEW q \in resends, ResendLock(q)
       PROVE  \E found \in Orders \cup {NoOrder} : Locks(q, found)
  <2>1. PICK found \in IF OnBoard(q.order) = {} THEN {NoOrder} ELSE OnBoard(q.order) :
          resends' = (resends \ {q})
                       \cup {[order |-> q.order, stage |-> "locked", found |-> found]}
    BY <1>15 DEF ResendLock
  <2>2. OnBoard(q.order) \subseteq Orders
    BY DEF OnBoard, Lineage
  <2>3. found \in Orders \cup {NoOrder} /\ (found = NoOrder => OnBoard(q.order) = {})
    BY <2>2, RowAssumption
  <2>4. QED
    BY <1>15, <2>1, <2>3 DEF ResendLock, Locks, orderRows
<1>16. CASE \E q \in picks : Assign(q)
  BY <1>4, <1>16
<1>17. CASE \E o \in Orders, p \in UndeliveredPenalties : MarkUndelivered(o, p)
  BY <1>5, <1>17
<1>18. CASE \E q \in rates, e \in RatingEffects : RateOnTime(q, e)
  BY <1>7, <1>18
<1>19. CASE \E o \in Orders : AutoClose(o)
  BY <1>8, <1>19
<1>20. CASE \E q \in verdicts : VerdictCommit(q)
  BY <1>9, <1>20
<1>21. CASE \E o, clone \in Orders : RiderCancel(o, clone)
  BY <1>12, <1>21
<1>22. CASE \E q \in resends, clone \in Orders : ResendClone(q, clone)
  BY <1>13, <1>22
<1>23. CASE \E o \in Orders : ResendRead(o)
  BY <1>14, <1>23
<1>24. CASE \E q \in resends : ResendLock(q)
  BY <1>15, <1>24
<1>25. QED
  BY <1>1, <1>2, <1>3, <1>10, <1>11, <1>16, <1>17, <1>18, <1>19, <1>20, <1>21, <1>22, <1>23,
     <1>24 DEF Next

-----------------------------------------------------------------------------
(***************************************************************************)
(* The invariant is inductive: one lemma per kind of step                  *)
(***************************************************************************)
\* The roots there are, of all orders.
LEMMA RootFacts ==
  ASSUME IInv
  PROVE  /\ parent \in Parents /\ resends \subseteq Resends
         /\ \A q \in resends : q.order \in Orders
         /\ \A c \in Orders : Unlinked(parent, c) =>
              /\ RootOf(c) = c
              /\ \A o \in Orders \ {c} : RootOf(o) # c
<1>1. parent \in Parents /\ resends \subseteq Resends
  BY TypeParts DEF IInv, ParentsOK, CallsOK, Parents
<1>2. \A q \in resends : q.order \in Orders
  BY <1>1 DEF Resends
<1>3. \A c \in Orders : Unlinked(parent, c) =>
        RootOf(c) = c /\ \A o \in Orders \ {c} : RootOf(o) # c
  BY <1>1, FreshRoots DEF RootOf
<1>4. QED
  BY <1>1, <1>2, <1>3

\* As long as no order gets a parent, no root changes.
LEMMA SameRoots ==
  ASSUME parent' = parent
  PROVE  (\A o \in Orders : RootOf(o)' = RootOf(o)) /\ Reached' = Reached
BY DEF RootOf, Reached

\* A step that gives no order a life or a parent.
LEMMA StillKeeps ==
  ASSUME IInv, LineageInv, Still
  PROVE  LineageInv'
<1>1. \A o \in Orders : RootOf(o)' = RootOf(o)
  BY SameRoots DEF Still
<1>2. Reached' = Reached
  BY SameRoots DEF Still
<1>3. \A q \in resends' : q \in resends /\ q.order \in Orders
  BY RootFacts DEF Still
<1>4. \A o \in Orders : Live(o)' => Live(o)
  BY DEF Still
<1>5. Unborn'
  BY DEF LineageInv, Unborn, Still
<1>6. Sent'
  BY <1>3 DEF LineageInv, Sent, Still
<1>7. Apart'
  BY <1>1, <1>3 DEF LineageInv, Apart
<1>8. ASSUME Reached
      PROVE  NoneLive' /\ OneLive'
  BY <1>1, <1>3, <1>4, <1>8 DEF LineageInv, NoneLive, OneLive
<1>9. QED
  BY <1>2, <1>5, <1>6, <1>7, <1>8 DEF LineageInv

\* A new trip is a lineage of its own.
LEMMA BornKeeps ==
  ASSUME IInv, LineageInv, NEW c \in Orders, Born(c)
  PROVE  LineageInv'
<1>1. \A o \in Orders : RootOf(o)' = RootOf(o)
  BY SameRoots DEF Born
<1>2. Reached' = Reached
  BY SameRoots DEF Born
<1>3. resends' = resends /\ \A q \in resends : q.order \in Orders
  BY RootFacts DEF Born
<1>4. /\ status'[c] = "open_for_offers" /\ status[c] = "none"
      /\ \A o \in Orders \ {c} : status'[o] = status[o]
  BY TypeParts DEF IInv, RowsOK, Born
<1>5. \A o \in Orders \ {c} : Live(o)' <=> Live(o)
  BY <1>4 DEF Live
<1>6. RootOf(c) = c /\ \A o \in Orders \ {c} : RootOf(o) # c
  BY <1>4, RootFacts DEF LineageInv, Unborn
<1>7. \A q \in resends : q.order # c
  BY <1>4 DEF LineageInv, Sent
<1>8. Unborn'
  BY <1>4 DEF LineageInv, Unborn, Born
<1>9. Sent'
  BY <1>3, <1>4, <1>7 DEF LineageInv, Sent
<1>10. Apart'
  BY <1>1, <1>3 DEF LineageInv, Apart
<1>11. ASSUME Reached
       PROVE  NoneLive' /\ OneLive'
  <2>1. NoneLive /\ OneLive
    BY <1>11 DEF LineageInv
  <2>2. NoneLive'
    BY <1>1, <1>3, <1>5, <1>6, <1>7, <2>1 DEF NoneLive
  <2>3. OneLive'
    BY <1>1, <1>5, <1>6, <2>1 DEF OneLive
  <2>4. QED
    BY <2>2, <2>3
<1>12. QED
  BY <1>2, <1>8, <1>9, <1>10, <1>11 DEF LineageInv

\* A clone takes the place of the live order of its lineage, or is the only one
\* in a lineage that a resend found without.
LEMMA ClonedKeeps ==
  ASSUME IInv, LineageInv, NEW s \in Orders, NEW c \in Orders, Cloned(s, c)
  PROVE  LineageInv'
<1>1. /\ status[c] = "none" /\ status[s] # "none" /\ s # c
      /\ parent' = [parent EXCEPT ![c] = s] /\ status'[c] # "none"
      /\ \A o \in Orders \ {c} : /\ Live(o)' => Live(o)
                                 /\ status'[o] = "none" <=> status[o] = "none"
      /\ resends' \subseteq resends
  BY DEF Cloned
<1>2. parent \in Parents /\ \A q \in resends : q.order \in Orders
  BY RootFacts
<1>3. Unlinked(parent, c)
  BY <1>1 DEF LineageInv, Unborn
<1> DEFINE pb == [parent EXCEPT ![c] = s]
<1>4. /\ \A o \in Orders \ {c} : RootIn(pb, o) = RootIn(parent, o)
      /\ Reaches(pb) => Reaches(parent) /\ RootIn(pb, c) = RootIn(parent, s)
  BY <1>1, <1>2, <1>3, RootsAfter
<1>5. parent' = pb
  BY <1>1
<1> HIDE DEF pb
<1>6. \A o \in Orders \ {c} : RootOf(o)' = RootOf(o)
  BY <1>4, <1>5 DEF RootOf
<1>7. Reached' => Reached /\ RootOf(c)' = RootOf(s)
  BY <1>4, <1>5 DEF RootOf, Reached
<1>8. \A q \in resends : q.order \in Orders \ {c}
  BY <1>1, <1>2 DEF LineageInv, Sent
<1>9. Unborn'
  <2>1. parent'[c] = s /\ \A p \in Orders \ {c} : parent'[p] = parent[p]
    BY <1>1, <1>2 DEF Parents
  <2>2. ASSUME NEW o \in Orders, status'[o] = "none"
        PROVE  Unlinked(parent', o)
    <3>1. o # c /\ o # s /\ Unlinked(parent, o)
      BY <1>1, <2>2 DEF LineageInv, Unborn
    <3>2. QED
      BY <2>1, <3>1 DEF Unlinked
  <2>3. QED
    BY <2>2 DEF Unborn
<1>10. Sent'
  BY <1>1, <1>8 DEF LineageInv, Sent
<1>11. Apart'
  BY <1>1, <1>6, <1>8 DEF LineageInv, Apart
<1>12. ASSUME Reached'
      PROVE  NoneLive' /\ OneLive'
  <2>1. NoneLive /\ OneLive /\ RootOf(c)' = RootOf(s)
    BY <1>7, <1>12 DEF LineageInv
  <2>2. \A o \in Orders \ {c} : Live(o)' => RootOf(o) # RootOf(s)
    <3>1. CASE Live(s) /\ ~Live(s)'
      BY <1>1, <2>1, <3>1 DEF OneLive
    <3>2. CASE \E q \in resends : q.stage = "locked" /\ q.found = NoOrder /\ q.order = s
      BY <1>1, <2>1, <3>2 DEF NoneLive
    <3>3. QED
      BY <3>1, <3>2 DEF Cloned
  <2>3. \A q \in resends' : q.stage = "locked" /\ q.found = NoOrder => RootOf(q.order) # RootOf(s)
    <3>1. CASE Live(s) /\ ~Live(s)'
      BY <1>1, <2>1, <3>1 DEF NoneLive
    <3>2. CASE \E q \in resends : /\ q.stage = "locked" /\ q.found = NoOrder /\ q.order = s
                                  /\ resends' = resends \ {q}
      BY <3>2 DEF LineageInv, Apart
    <3>3. QED
      BY <3>1, <3>2 DEF Cloned
  <2>4. OneLive'
    <3> SUFFICES ASSUME NEW o \in Orders, NEW p \in Orders, Live(o)', Live(p)', o # p
                 PROVE  RootOf(o)' # RootOf(p)'
      BY DEF OneLive
    <3>1. CASE o # c /\ p # c
      BY <1>1, <1>6, <2>1, <3>1 DEF OneLive
    <3>2. CASE o = c /\ p # c
      BY <1>6, <2>1, <2>2, <3>2
    <3>3. CASE o # c /\ p = c
      BY <1>6, <2>1, <2>2, <3>3
    <3>4. QED
      BY <3>1, <3>2, <3>3
  <2>5. NoneLive'
    <3> SUFFICES ASSUME NEW q \in resends', q.stage = "locked", q.found = NoOrder,
                        NEW o \in Orders, Live(o)'
                 PROVE  RootOf(o)' # RootOf(q.order)'
      BY DEF NoneLive
    <3>1. q \in resends /\ q.order \in Orders \ {c} /\ RootOf(q.order)' = RootOf(q.order)
      BY <1>1, <1>6, <1>8
    <3>2. CASE o # c
      BY <1>1, <1>6, <2>1, <3>1, <3>2 DEF NoneLive
    <3>3. CASE o = c
      BY <2>1, <2>3, <3>1, <3>3
    <3>4. QED
      BY <3>2, <3>3
  <2>6. QED
    BY <2>4, <2>5
<1>13. QED
  BY <1>9, <1>10, <1>11, <1>12 DEF LineageInv

\* A resend that has read its source holds nothing yet.
LEMMA FiledKeeps ==
  ASSUME IInv, LineageInv, NEW q \in Resends, Filed(q)
  PROVE  LineageInv'
<1>1. /\ status[q.order] # "none" /\ q.stage = "read" /\ q.stage # "locked"
      /\ resends' = resends \cup {q}
      /\ status' = status /\ parent' = parent
  BY DEF Filed
<1>2. \A o \in Orders : RootOf(o)' = RootOf(o) /\ (Live(o)' <=> Live(o))
  BY <1>1, SameRoots DEF Live
<1>3. Reached' = Reached
  BY <1>1, SameRoots
<1>4. \A p \in resends' : p \in resends \/ p = q
  BY <1>1
<1>5. \A p \in resends : p.order \in Orders
  BY RootFacts
<1>6. Unborn'
  BY <1>1 DEF LineageInv, Unborn
<1>7. Sent'
  BY <1>1, <1>4 DEF LineageInv, Sent
<1>8. Apart'
  BY <1>1, <1>2, <1>4, <1>5 DEF LineageInv, Apart
<1>9. ASSUME Reached
      PROVE  NoneLive' /\ OneLive'
  BY <1>1, <1>2, <1>4, <1>5, <1>9 DEF LineageInv, NoneLive, OneLive
<1>10. QED
  BY <1>3, <1>6, <1>7, <1>8, <1>9 DEF LineageInv

\* A resend takes the lock of a lineage that no other holds, and finds nothing
\* live only where nothing is.
LEMMA LocksKeeps ==
  ASSUME IInv, LineageInv, NEW q \in resends, NEW found \in Orders \cup {NoOrder},
         Locks(q, found)
  PROVE  LineageInv'
<1> DEFINE n == [order |-> q.order, stage |-> "locked", found |-> found]
<1>1. /\ LockedRows(q.order) \cap Locked = {} /\ ~InProgress(q.order)
      /\ found = NoOrder => OnBoard(q.order) = {}
      /\ resends' = (resends \ {q}) \cup {n}
      /\ status' = status /\ parent' = parent
  BY DEF Locks
<1>2. n.order = q.order /\ n.stage = "locked" /\ n.found = found
  OBVIOUS
<1> HIDE DEF n
<1>3. \A o \in Orders : RootOf(o)' = RootOf(o) /\ (Live(o)' <=> Live(o))
  BY <1>1, SameRoots DEF Live
<1>4. Reached' = Reached
  BY <1>1, SameRoots
<1>5. q.order \in Orders /\ \A p \in resends : p.order \in Orders
  BY RootFacts
<1>6. \A p \in resends' : p \in resends \/ p = n
  BY <1>1
<1>7. \A p \in resends : p.stage = "locked" => RootOf(p.order) # RootOf(q.order)
  <2> SUFFICES ASSUME NEW p \in resends, p.stage = "locked"
               PROVE  RootOf(p.order) # RootOf(q.order)
    OBVIOUS
  <2>1. Root(p.order) \in Locked
    BY DEF Locked, LockedRows
  <2>2. Root(q.order) \notin Locked
    BY <1>1 DEF LockedRows
  <2>3. QED
    BY <1>5, <2>1, <2>2, RootIsRootOf
<1>8. ASSUME found = NoOrder, NEW o \in Orders, Live(o)
      PROVE  RootOf(o) # RootOf(q.order)
  <2>1. o \notin Lineage(q.order)
    BY <1>1, <1>8 DEF InProgress, OnBoard, Live
  <2>2. Climb(o)[LineageDepth] # Root(q.order)
    BY <2>1, TripAssumption DEF Lineage
  <2>3. QED
    BY <1>5, <2>2, RootIsRootOf DEF Root
<1>9. Unborn'
  BY <1>1 DEF LineageInv, Unborn
<1>10. Sent'
  BY <1>1, <1>2, <1>6 DEF LineageInv, Sent
<1>11. Apart'
  <2> SUFFICES ASSUME NEW p \in resends', NEW r \in resends', p.stage = "locked",
                      r.stage = "locked", p # r
               PROVE  RootOf(p.order)' # RootOf(r.order)'
    BY DEF Apart
  <2>1. /\ p.order \in Orders /\ r.order \in Orders
        /\ RootOf(p.order)' = RootOf(p.order) /\ RootOf(r.order)' = RootOf(r.order)
    BY <1>2, <1>3, <1>5, <1>6
  <2>2. CASE p \in resends /\ r \in resends
    BY <2>1, <2>2 DEF LineageInv, Apart
  <2>3. CASE p = n /\ r \in resends
    BY <1>2, <1>7, <2>1, <2>3
  <2>4. CASE r = n /\ p \in resends
    BY <1>2, <1>7, <2>1, <2>4
  <2>5. QED
    BY <1>6, <2>2, <2>3, <2>4
<1>12. ASSUME Reached
       PROVE  NoneLive' /\ OneLive'
  <2>1. NoneLive /\ OneLive
    BY <1>12 DEF LineageInv
  <2>2. NoneLive'
    BY <1>2, <1>3, <1>5, <1>6, <1>8, <2>1 DEF NoneLive
  <2>3. OneLive'
    BY <1>3, <2>1 DEF OneLive
  <2>4. QED
    BY <2>2, <2>3
<1>13. QED
  BY <1>4, <1>9, <1>10, <1>11, <1>12 DEF LineageInv

\* LineageInv is inductive.
LEMMA NextLineageInv == IInv /\ LineageInv /\ [Next]_vars => LineageInv'
<1> SUFFICES ASSUME IInv, LineageInv, [Next]_vars PROVE LineageInv'
  OBVIOUS
<1>1. LineageStep
  BY LineageSteps DEF LineageInv
<1>2. CASE Still
  BY <1>2, StillKeeps
<1>3. CASE \E o \in Orders : Born(o)
  BY <1>3, BornKeeps
<1>4. CASE \E s, c \in Orders : Cloned(s, c)
  BY <1>4, ClonedKeeps
<1>5. CASE \E o \in Orders, q \in Resends : q.order = o /\ Filed(q)
  BY <1>5, FiledKeeps
<1>6. CASE \E q \in resends, found \in Orders \cup {NoOrder} : Locks(q, found)
  BY <1>6, LocksKeeps
<1>7. QED
  BY <1>1, <1>2, <1>3, <1>4, <1>5, <1>6 DEF LineageStep

\* The lineages, in every instance.
LEMMA LineageInvariance == Spec => []LineageInv
<1>1. Init => LineageInv
  <2> SUFFICES ASSUME Init PROVE LineageInv
    OBVIOUS
  <2>1. resends = {} /\ \A o \in Orders : parent[o] = NoOrder /\ status[o] = "none"
    BY DEF Init
  <2>2. Unborn
    BY <2>1, RowAssumption DEF Unborn, Unlinked
  <2>3. \A o \in Orders : ~Live(o)
    BY <2>1 DEF Live, Active
  <2>4. QED
    BY <2>1, <2>2, <2>3 DEF LineageInv, Sent, Apart, NoneLive, OneLive
<1>2. QED
  BY <1>1, NextLineageInv, Invariance, PTL DEF Spec

\* OneLivePerTrip for any number of orders, bails and resends, as long as
\* LINEAGE_MAX_DEPTH steps reach the root of every order.
THEOREM OneLiveWhileReached == Spec => [](Reached => OneLivePerTrip)
<1>1. LineageInv => (Reached => OneLivePerTrip)
  BY RootIsRootOf DEF LineageInv, OneLive, OneLivePerTrip
<1>2. QED
  BY <1>1, LineageInvariance, PTL

-----------------------------------------------------------------------------
(***************************************************************************)
(* Lineages are trees                                                      *)
(***************************************************************************)
\* No re-broadcasts run in a circle: in every group of orders there is one
\* whose parent is outside it.
AcyclicIn(pa) == \A S \in SUBSET Orders : S # {} => \E o \in S : pa[o] \notin S
Acyclic == AcyclicIn(parent)

\* A re-broadcast closes no circle: the clone is nobody's parent.
LEMMA CloneCloses ==
  ASSUME NEW pa \in Parents, NEW c \in Orders, Unlinked(pa, c), NEW s \in Orders, s # c,
         AcyclicIn(pa)
  PROVE  AcyclicIn([pa EXCEPT ![c] = s])
<1> DEFINE pb == [pa EXCEPT ![c] = s]
<1>1. pb[c] = s /\ \A p \in Orders \ {c} : pb[p] = pa[p]
  BY DEF Parents
<1> HIDE DEF pb
<1>2. ASSUME NEW S \in SUBSET Orders, S # {}
      PROVE  \E o \in S : pb[o] \notin S
  <2>1. CASE S = {c}
    BY <1>1, <2>1
  <2>2. CASE S # {c}
    <3>1. S \ {c} \in SUBSET Orders /\ S \ {c} # {}
      BY <1>2, <2>2
    <3>2. PICK o \in S \ {c} : pa[o] \notin S \ {c}
      BY <3>1 DEF AcyclicIn
    <3>3. pa[o] # c /\ pb[o] = pa[o]
      BY <1>1 DEF Unlinked
    <3>4. QED
      BY <3>2, <3>3
  <2>3. QED
    BY <2>1, <2>2
<1>3. QED
  BY <1>2 DEF AcyclicIn, pb

\* A walk that has not come to a root goes from parent to parent, and never
\* comes back to an order it has left.
LEMMA WalkClimbs ==
  ASSUME NEW pa \in Parents, AcyclicIn(pa), NEW o \in Orders, NEW n \in Nat, NEW w,
         Walk(pa, o, n, w), \A i \in 0..(n - 1) : pa[w[i]] # NoOrder
  PROVE  /\ \A i \in 1..n : w[i] = pa[w[i - 1]]
         /\ \A i, j \in 0..n : i < j => w[i] # w[j]
<1>1. w \in [0..n -> Orders] /\ \A i \in 1..n : w[i] = Up(pa, w[i - 1])
  BY DEF Walk
<1>2. ASSUME NEW i \in 1..n
      PROVE  w[i] = pa[w[i - 1]]
  <2>1. i - 1 \in 0..(n - 1)
    OBVIOUS
  <2>2. QED
    BY <1>1, <2>1 DEF Up
<1>3. ASSUME NEW i \in 0..n, NEW j \in 0..n, i < j, w[i] = w[j]
      PROVE  FALSE
  <2> DEFINE S == {w[k] : k \in i..(j - 1)}
  <2>1. S \in SUBSET Orders
    BY <1>1
  <2>2. w[i] \in S
    BY <1>3
  <2>3. ASSUME NEW k \in i..(j - 1)
        PROVE  pa[w[k]] \in S
    <3>1. k + 1 \in 1..n /\ (k + 1) - 1 = k
      OBVIOUS
    <3>2. w[k + 1] = pa[w[k]]
      BY <1>2, <3>1
    <3>3. CASE k + 1 = j
      BY <1>3, <2>2, <3>2, <3>3
    <3>4. CASE k + 1 # j
      <4>1. k + 1 \in i..(j - 1)
        BY <3>4
      <4>2. QED
        BY <3>2, <4>1
    <3>5. QED
      BY <3>3, <3>4
  <2>4. PICK p \in S : pa[p] \notin S
    <3> HIDE DEF S
    <3>1. QED
      BY <2>1, <2>2 DEF AcyclicIn
  <2>5. QED
    BY <2>3, <2>4
<1>4. QED
  BY <1>2, <1>3

\* Some order has more than LINEAGE_MAX_DEPTH ancestors, all different.
LongIn(pa) ==
  \E w \in [0..(LineageDepth + 1) -> Orders] :
    /\ \A i \in 1..(LineageDepth + 1) : w[i] = pa[w[i - 1]]
    /\ \A i, j \in 0..(LineageDepth + 1) : i < j => w[i] # w[j]
LongChain == LongIn(parent)

\* If the root of some order is out of reach, it has that many.
LEMMA LongOrReached ==
  ASSUME NEW pa \in Parents, AcyclicIn(pa)
  PROVE  LongIn(pa) \/ Reaches(pa)
<1> DEFINE D == LineageDepth
<1>0. D \in Nat /\ D + 1 \in Nat
  BY TripAssumption
<1> SUFFICES ASSUME NEW o \in Orders, pa[RootIn(pa, o)] # NoOrder PROVE LongIn(pa)
  BY DEF Reaches
<1>1. PICK w : Walk(pa, o, D + 1, w)
  BY <1>0, WalksExist
<1>2. /\ w \in [0..(D + 1) -> Orders] /\ w[0] = o
      /\ \A i \in 1..(D + 1) : w[i] = Up(pa, w[i - 1])
  BY <1>1 DEF Walk
<1>3. pa[w[D]] # NoOrder
  <2> DEFINE v == [i \in 0..D |-> w[i]]
  <2>1. v \in [0..D -> Orders] /\ v[0] = o /\ \A i \in 1..D : v[i] = Up(pa, v[i - 1])
    BY <1>0, <1>2
  <2>2. v[D] = w[D]
    BY <1>0
  <2> HIDE DEF v
  <2>3. RootIn(pa, o) = v[D]
    BY <2>1, RootIs DEF Walk
  <2>4. QED
    BY <2>2, <2>3
<1>4. \A i \in 0..D : pa[w[i]] # NoOrder
  <2> DEFINE S == {m \in Nat : m <= D => pa[w[D - m]] # NoOrder}
  <2>1. 0 \in S
    BY <1>0, <1>3
  <2>2. ASSUME NEW m \in Nat, m \in S
        PROVE  m + 1 \in S
    <3>1. SUFFICES ASSUME m + 1 <= D PROVE pa[w[D - (m + 1)]] # NoOrder
      OBVIOUS
    <3>2. /\ D - m \in 1..(D + 1) /\ (D - m) - 1 = D - (m + 1)
          /\ pa[w[D - m]] # NoOrder
      BY <1>0, <2>2, <3>1
    <3>3. w[D - m] = Up(pa, w[D - (m + 1)])
      BY <1>2, <3>2
    <3>4. QED
      BY <3>2, <3>3 DEF Up
  <2>3. Nat \subseteq S
    <3> HIDE DEF S
    <3>1. QED
      BY <2>1, <2>2, SetInduction
  <2>4. TAKE i \in 0..D
  <2>5. D - i \in Nat /\ D - i <= D /\ D - (D - i) = i
    BY <1>0
  <2>6. QED
    BY <2>3, <2>5
<1>5. \A i \in 0..((D + 1) - 1) : pa[w[i]] # NoOrder
  BY <1>0, <1>4
<1>6. /\ \A i \in 1..(D + 1) : w[i] = pa[w[i - 1]]
      /\ \A i, j \in 0..(D + 1) : i < j => w[i] # w[j]
  BY <1>0, <1>1, <1>5, WalkClimbs
<1>7. QED
  BY <1>2, <1>6 DEF LongIn

\* A chain of re-broadcasts is never cyclic, which is what LINEAGE_MAX_DEPTH
\* guards the walk against: only a row that no handler writes could make it so.
THEOREM ChainsNeverCyclic == Spec => []Acyclic
<1>1. Init => Acyclic
  BY RowAssumption DEF Init, Acyclic, AcyclicIn
<1>2. IInv /\ LineageInv /\ Acyclic /\ [Next]_vars => Acyclic'
  <2> SUFFICES ASSUME IInv, LineageInv, Acyclic, LineageStep PROVE Acyclic'
    BY LineageSteps DEF LineageInv
  <2>1. CASE parent' = parent
    BY <2>1 DEF Acyclic
  <2>2. ASSUME NEW s \in Orders, NEW c \in Orders, Cloned(s, c)
        PROVE  Acyclic'
    <3>1. s # c /\ status[c] = "none" /\ parent' = [parent EXCEPT ![c] = s]
      BY <2>2 DEF Cloned
    <3>2. Unlinked(parent, c) /\ parent \in Parents
      BY <3>1, RootFacts DEF LineageInv, Unborn
    <3>3. AcyclicIn([parent EXCEPT ![c] = s])
      BY <3>1, <3>2, CloneCloses DEF Acyclic
    <3>4. QED
      BY <3>1, <3>3 DEF Acyclic
  <2>3. QED
    BY <2>1, <2>2 DEF LineageStep, Still, Born, Filed, Locks
<1>3. QED
  BY <1>1, <1>2, Invariance, LineageInvariance, PTL DEF Spec

\* OneLivePerTrip for any number of orders, bails and resends: two live orders
\* of one trip take a chain of more than LINEAGE_MAX_DEPTH re-broadcasts.
THEOREM OneLiveUnlessLong == Spec => [](OneLivePerTrip \/ LongChain)
<1>1. IInv /\ Acyclic => LongChain \/ Reached
  BY LongOrReached, RootFacts DEF Acyclic, LongChain, Reached
<1>2. QED
  BY <1>1, Invariance, ChainsNeverCyclic, OneLiveWhileReached, PTL
=============================================================================
