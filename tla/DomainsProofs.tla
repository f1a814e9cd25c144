---------------------------- MODULE DomainsProofs ----------------------------
(***************************************************************************)
(* Theorems about Domains, for any number of syncs, zones and changes and  *)
(* any page size.                                                          *)
(***************************************************************************)
EXTENDS Domains, FiniteSetTheorems, TLAPS

(* No zone was pushed onto a later page and the account's syncs ran one at *)
(* a time; and none was pulled back onto a page that had been read.        *)
Apart == moved \cap {"overlap", "grew"} = {}
Steady == "shrank" \notin moved

(* The pages a sync has read so far.                                       *)
Read(s) == (sync[s].page - 1) * PageSize

(* A zone was listed at most once, and not when it is still to come.       *)
ListedOnce(s) ==
  /\ Ask(s, "page") => sync[s].page \in Nat \ {0}
  /\ Apart => \A z \in Zones :
       /\ sync[s].got[z] <= 1
       /\ Ask(s, "page") /\ Listed(s, z) /\ z \in atCf => Rank(z) <= Read(s)

(* A zone that was there all the time has been listed when its page has    *)
(* been read.                                                              *)
ListedAll(s) ==
  /\ ~Ask(s, "idle") => \A z \in Zones : z \in atCf \/ z \in sync[s].absent
  /\ Steady => \A z \in Zones \ sync[s].absent :
       /\ Ask(s, "page") /\ Rank(z) <= Read(s) => Listed(s, z)
       /\ Ask(s, "load") \/ Ask(s, "commit") => Listed(s, z)

(* When nothing has moved, what the sync knows is what is there.           *)
ListedTrue(s) ==
  moved = {} /\ ~Ask(s, "idle") => \A z \in Zones :
    /\ Listed(s, z) => z \in atCf
    /\ z \in sync[s].absent => z \notin atCf

(* A sync that is alone writes over the rows it has loaded.                *)
Alone ==
  Apart => /\ \A s, t \in Running : s = t
           /\ \A s \in Syncers : Ask(s, "commit") => sync[s].seen = dom

IInv ==
  /\ TypeOK
  /\ \A s \in Syncers : ListedOnce(s) /\ ListedAll(s) /\ ListedTrue(s)
  /\ Alone
  /\ OneRowPerZone
  /\ UnavailableWasMissing

-----------------------------------------------------------------------------
(* The order of the zones.                                                 *)

RankIn(S, z) == Cardinality({y \in S : y <= z})

LEMMA ZonesAreFinite ==
  ASSUME NEW S \in SUBSET Zones
  PROVE  IsFiniteSet(S) /\ Cardinality(S) \in Nat
<1>1. IsFiniteSet(Zones)
  BY FS_Interval, BoundsAreNat DEF Zones
<1> QED
  BY <1>1, FS_Subset, FS_CardinalityType

LEMMA RankMonotone ==
  ASSUME NEW S \in SUBSET Zones, NEW T \in SUBSET S, NEW z
  PROVE  RankIn(T, z) <= RankIn(S, z) /\ RankIn(T, z) \in Nat /\ RankIn(S, z) \in Nat
<1>1. {y \in S : y <= z} \in SUBSET Zones /\ {y \in T : y <= z} \in SUBSET Zones
  OBVIOUS
<1>2. {y \in T : y <= z} \in SUBSET {y \in S : y <= z}
  OBVIOUS
<1> QED
  BY <1>1, <1>2, ZonesAreFinite, FS_Subset DEF RankIn

(* Two zones of one rank would precede each other.                         *)
LEMMA RankApart ==
  ASSUME NEW S \in SUBSET Zones, NEW x \in S, NEW y \in S, RankIn(S, x) = RankIn(S, y)
  PROVE  x = y
<1> DEFINE Upto(z) == {u \in S : u <= z}
<1>0. x \in Nat /\ y \in Nat /\ S \subseteq Nat
  BY BoundsAreNat DEF Zones
<1>1. Upto(x) \in SUBSET Zones /\ Upto(y) \in SUBSET Zones
  OBVIOUS
<1>2. IsFiniteSet(Upto(x)) /\ IsFiniteSet(Upto(y)) /\ Cardinality(Upto(x)) = Cardinality(Upto(y))
  BY <1>1, ZonesAreFinite DEF RankIn
<1>3. Upto(x) \in SUBSET Upto(y) \/ Upto(y) \in SUBSET Upto(x)
  <2>1. CASE x <= y
    <3>1. \A u \in S : u <= x => u <= y
      BY <1>0, <2>1
    <3> QED
      BY <3>1
  <2>2. CASE y <= x
    <3>1. \A u \in S : u <= y => u <= x
      BY <1>0, <2>2
    <3> QED
      BY <3>1
  <2> QED
    BY <1>0, <2>1, <2>2
<1>4. Upto(x) = Upto(y)
  <2> HIDE DEF Upto
  <2> QED
    BY <1>2, <1>3, FS_Subset
<1>5. x \in Upto(x) /\ y \in Upto(y)
  BY <1>0
<1> QED
  BY <1>0, <1>4, <1>5

(* Each place on the list is taken.                                        *)
LEMMA RankOnto ==
  ASSUME NEW S \in SUBSET Zones, NEW k \in 1 .. Cardinality(S)
  PROVE  \E z \in S : RankIn(S, z) = k
<1> DEFINE n == Cardinality(S)
           f == [z \in S |-> RankIn(S, z)]
<1>0. IsFiniteSet(S) /\ n \in Nat
  BY ZonesAreFinite
<1>1. ASSUME NEW z \in S PROVE RankIn(S, z) \in 1 .. n
  <2> DEFINE U == {y \in S : y <= z}
  <2>1. U \in SUBSET S /\ U \in SUBSET Zones /\ z \in U
    <3>1. z \in Zones
      OBVIOUS
    <3>2. z <= z
      BY <3>1, BoundsAreNat DEF Zones
    <3> QED
      BY <3>2
  <2>2. Cardinality(U) <= n /\ Cardinality(U) \in Nat /\ IsFiniteSet(U)
    <3> HIDE DEF U
    <3> QED
      BY <1>0, <2>1, FS_Subset, ZonesAreFinite
  <2>3. Cardinality(U) # 0
    <3> HIDE DEF U
    <3> QED
      BY <2>1, <2>2, FS_EmptySet
  <2> QED
    BY <2>2, <2>3, <1>0 DEF RankIn
<1>2. f \in Injection(S, 1 .. n)
  <2>1. f \in [S -> 1 .. n]
    BY <1>1
  <2>2. \A x, y \in S : f[x] = f[y] => x = y
    BY RankApart
  <2> HIDE DEF f
  <2> QED
    BY <2>1, <2>2 DEF Injection, IsInjective
<1>3. IsFiniteSet(1 .. n) /\ Cardinality(1 .. n) = n
  BY <1>0, FS_Interval
<1>4. f \in Surjection(S, 1 .. n)
  <2> HIDE DEF f
  <2> QED
    BY <1>2, <1>3, FS_Injection
<1>5. \E z \in S : f[z] = k
  <2> HIDE DEF f
  <2> QED
    BY <1>4 DEF Surjection
<1> QED
  BY <1>5

LEMMA RankType == TypeOK => \A z : Rank(z) \in Nat /\ Rank(z) = RankIn(atCf, z)
  BY RankMonotone DEF TypeOK, Rank, RankIn

(* A page before a zone's is full.                                         *)
LEMMA FullPage ==
  ASSUME TypeOK, NEW n \in Nat \ {0}, NEW z \in atCf, Rank(z) > n * PageSize
  PROVE  Cardinality(OnPage(n)) >= PageSize
<1> DEFINE a == (n - 1) * PageSize
           b == n * PageSize
           T == a + 1 .. b
           f == [y \in OnPage(n) |-> Rank(y)]
<1>0. PageSize \in Nat \ {0} /\ a \in Nat /\ b \in Nat /\ b = a + PageSize
  BY BoundsAreNat
<1>1. OnPage(n) \in SUBSET Zones
  BY DEF OnPage, TypeOK
<1>2. IsFiniteSet(OnPage(n)) /\ Cardinality(OnPage(n)) \in Nat
  BY <1>1, ZonesAreFinite
<1>3. Rank(z) <= Cardinality(atCf) /\ Cardinality(atCf) \in Nat
  <2>1. {y \in atCf : y <= z} \in SUBSET atCf /\ atCf \in SUBSET Zones
    BY DEF TypeOK
  <2> QED
    BY <2>1, ZonesAreFinite, FS_Subset DEF Rank
<1>4. f \in Surjection(OnPage(n), T)
  <2>1. \A y \in OnPage(n) : Rank(y) \in T
    BY <1>0, RankType DEF OnPage
  <2>2. ASSUME NEW k \in T PROVE \E y \in OnPage(n) : Rank(y) = k
    <3>1. k \in 1 .. Cardinality(atCf)
      BY <1>0, <1>3, RankType
    <3>2. PICK y \in atCf : RankIn(atCf, y) = k
      BY <3>1, RankOnto DEF TypeOK
    <3>3. Rank(y) = k
      BY <3>2, RankType
    <3> QED
      BY <1>0, <3>3 DEF OnPage
  <2>3. f \in [OnPage(n) -> T]
    BY <2>1
  <2>4. \A k \in T : \E y \in OnPage(n) : f[y] = k
    BY <2>2
  <2> HIDE DEF f, T
  <2> QED
    BY <2>3, <2>4 DEF Surjection
<1>5. Cardinality(T) = PageSize
  BY <1>0, FS_Interval
<1> HIDE DEF f, T
<1>6. Cardinality(T) <= Cardinality(OnPage(n))
  BY <1>2, <1>4, FS_Surjection
<1> QED
  BY <1>2, <1>5, <1>6, <1>0

-----------------------------------------------------------------------------
(* The invariant.                                                          *)

LEMMA IdleIsASync == Idle \in Sync
  BY DEF Idle, Sync, NoRows, NoRow, Row

LEMMA Starts == Init => IInv
<1> SUFFICES ASSUME Init PROVE IInv
  OBVIOUS
<1>1. TypeOK
  BY IdleIsASync, BoundsAreNat DEF Init, TypeOK, NoRows, NoRow, Row
<1>2. \A s \in Syncers : ListedOnce(s) /\ ListedAll(s) /\ ListedTrue(s)
  BY DEF Init, Idle, ListedOnce, ListedAll, ListedTrue, Ask, Listed
<1>3. Alone
  BY DEF Init, Idle, Alone, Ask, Running
<1>4. OneRowPerZone /\ UnavailableWasMissing
  BY DEF Init, OneRowPerZone, UnavailableWasMissing, Exists, NoRows, NoRow
<1> QED
  BY <1>1, <1>2, <1>3, <1>4 DEF IInv

(* A sync that takes no step keeps its part while nothing moves.           *)
LEMMA OthersKeep ==
  ASSUME IInv, NEW t \in Syncers, sync'[t] = sync[t], atCf' = atCf, moved \subseteq moved'
  PROVE  ListedOnce(t)' /\ ListedAll(t)' /\ ListedTrue(t)'
<1>1. (Apart' => Apart) /\ (Steady' => Steady) /\ (moved' = {} => moved = {})
  BY DEF Apart, Steady
<1>2. ListedOnce(t) /\ ListedAll(t) /\ ListedTrue(t)
  BY DEF IInv
<1>3. \A z \in Zones : Rank(z)' = Rank(z) /\ Listed(t, z)' = Listed(t, z)
  BY DEF Rank, Listed
<1>4. Read(t)' = Read(t) /\ \A pc : Ask(t, pc)' = Ask(t, pc)
  BY DEF Read, Ask
<1>5. ListedOnce(t)'
  BY <1>1, <1>2, <1>3, <1>4 DEF ListedOnce
<1>6. ListedAll(t)'
  BY <1>1, <1>2, <1>3, <1>4 DEF ListedAll
<1>7. ListedTrue(t)'
  BY <1>1, <1>2, <1>3, <1>4 DEF ListedTrue
<1> QED
  BY <1>5, <1>6, <1>7

(* A step of a sync that leaves the rows alone.                            *)
LEMMA SyncKeeps ==
  ASSUME IInv, NEW s \in Syncers, NEW q \in Sync, sync' = [sync EXCEPT ![s] = q],
         UNCHANGED <<account, atCf, dom, changes>>,
         moved \subseteq moved', moved' \subseteq {"grew", "shrank", "overlap"},
         Apart' => ~Ask(s, "idle") \/ Running = {} \/ q.pc = "idle",
         q.pc = "commit" => q.seen = dom,
         ListedOnce(s)', ListedAll(s)', ListedTrue(s)'
  PROVE  IInv'
<1>1. \A t \in Syncers : sync'[t] = IF t = s THEN q ELSE sync[t]
  BY DEF IInv, TypeOK
<1>2. TypeOK'
  BY DEF IInv, TypeOK
<1>3. \A t \in Syncers : ListedOnce(t)' /\ ListedAll(t)' /\ ListedTrue(t)'
  BY <1>1, OthersKeep
<1>4. Apart' => Apart
  BY DEF Apart
<1>5. ASSUME Apart' PROVE \A t, u \in Running' : t = u
  <2>1. \A t, u \in Running : t = u
    BY <1>4, <1>5 DEF IInv, Alone
  <2>2. Running' \subseteq Running \cup {s} /\ (q.pc = "idle" => Running' \subseteq Running)
    BY <1>1 DEF Running, Ask
  <2>3. ~Ask(s, "idle") => s \in Running
    BY DEF Running
  <2> QED
    BY <1>5, <2>1, <2>2, <2>3
<1>6. ASSUME Apart' PROVE \A t \in Syncers : Ask(t, "commit")' => sync'[t].seen = dom'
  BY <1>1, <1>4, <1>6 DEF IInv, Alone, Ask
<1>7. Alone'
  BY <1>5, <1>6 DEF Alone
<1>8. OneRowPerZone' /\ UnavailableWasMissing'
  BY DEF IInv, OneRowPerZone, UnavailableWasMissing, Exists
<1> QED
  BY <1>2, <1>3, <1>7, <1>8 DEF IInv

(* A sync ends and writes nothing.                                         *)
LEMMA EndKeeps ==
  ASSUME IInv, NEW s \in Syncers, End(s), UNCHANGED <<account, atCf, dom, changes, moved>>
  PROVE  IInv'
<1>1. sync'[s] = Idle
  BY DEF IInv, TypeOK, End
<1>2. ListedOnce(s)' /\ ListedAll(s)' /\ ListedTrue(s)'
  BY <1>1 DEF ListedOnce, ListedAll, ListedTrue, Ask, Idle, Listed
<1>3. Idle.pc = "idle"
  BY DEF Idle
<1>4. moved \subseteq {"grew", "shrank", "overlap"}
  BY DEF IInv, TypeOK
<1> QED
  BY <1>2, <1>3, <1>4, IdleIsASync, SyncKeeps DEF End

(* The zones a sync meets when it starts are all still to come.            *)
LEMMA StartStep ==
  ASSUME IInv, NEW s \in Syncers, Start(s)
  PROVE  IInv'
<1> DEFINE q == [Idle EXCEPT !.pc = "page", !.page = 1, !.absent = Zones \ atCf]
<1>1. /\ q \in Sync /\ q.pc = "page" /\ q.page = 1 /\ q.absent = Zones \ atCf
      /\ \A z \in Zones : q.got[z] = 0
  BY DEF Idle, Sync, NoRows, NoRow, Row
<1>2. sync' = [sync EXCEPT ![s] = q]
  BY DEF Start
<1> HIDE DEF q
<1>3. sync'[s] = q /\ atCf' = atCf
  BY <1>2 DEF IInv, TypeOK, Start
<1>4. ListedOnce(s)'
  BY <1>1, <1>3 DEF ListedOnce, Ask, Listed
<1>5. ASSUME NEW z \in atCf PROVE Rank(z) >= 1
  <2> DEFINE U == {y \in atCf : y <= z}
  <2>1. z \in Zones /\ atCf \in SUBSET Zones
    BY DEF IInv, TypeOK
  <2>2. z <= z
    BY <2>1, BoundsAreNat DEF Zones
  <2>3. z \in U /\ U \in SUBSET Zones
    BY <2>1, <2>2
  <2> HIDE DEF U
  <2>4. Cardinality(U) \in Nat /\ Cardinality(U) # 0
    BY <2>3, ZonesAreFinite, FS_EmptySet
  <2> QED
    BY <2>4 DEF Rank, U
<1>6. ListedAll(s)'
  <2>1. \A z \in atCf : Rank(z)' = Rank(z)
    BY <1>3 DEF Rank
  <2>2. Read(s)' = 0
    BY <1>1, <1>3, BoundsAreNat DEF Read
  <2>3. \A z \in atCf : ~(Rank(z)' <= Read(s)')
    BY <1>5, <2>1, <2>2, RankType DEF IInv
  <2> QED
    BY <1>1, <1>3, <2>3 DEF ListedAll, Ask
<1>7. ListedTrue(s)'
  BY <1>1, <1>3 DEF ListedTrue, Ask, Listed
<1>8. /\ moved \subseteq moved' /\ moved' \subseteq {"grew", "shrank", "overlap"}
      /\ Apart' => Running = {}
  BY DEF Start, IInv, TypeOK, Apart
<1> QED
  BY <1>1, <1>2, <1>4, <1>6, <1>7, <1>8, SyncKeeps DEF Start

(* A page lists zones for the first time, and all of its zones; a page     *)
(* that is not full was the last.                                          *)
LEMMA ListPageStep ==
  ASSUME IInv, NEW s \in Syncers, ListPage(s)
  PROVE  IInv'
<1> DEFINE n == sync[s].page
           zs == OnPage(n)
           q == [sync[s] EXCEPT !.got = Count(@, zs), !.page = @ + 1,
                                !.pc = IF Cardinality(zs) < PageSize THEN "load" ELSE "page"]
<1>1. /\ TypeOK /\ sync[s] \in Sync /\ n \in Nat \ {0} /\ Ask(s, "page")
      /\ ListedOnce(s) /\ ListedAll(s) /\ ListedTrue(s)
  BY DEF IInv, TypeOK, ListedOnce, ListPage
<1>2. sync' = [sync EXCEPT ![s] = q]
  BY DEF ListPage
<1>3. /\ \A z \in Zones : q.got[z] = IF z \in zs THEN sync[s].got[z] + 1 ELSE sync[s].got[z]
      /\ q.page = n + 1 /\ q.absent = sync[s].absent
      /\ q.pc = IF Cardinality(zs) < PageSize THEN "load" ELSE "page"
      /\ q.got \in [Zones -> Nat]
  BY <1>1 DEF Sync, Count
<1>4. q \in Sync
  <2>1. ASSUME NEW g \in [Zones -> Nat], NEW p \in Nat, NEW c \in {"page", "load"}
        PROVE  [sync[s] EXCEPT !.got = g, !.page = p, !.pc = c] \in Sync
    BY <1>1 DEF Sync
  <2>2. Count(sync[s].got, zs) \in [Zones -> Nat]
    BY <1>1 DEF Sync, Count
  <2>3. sync[s].page + 1 \in Nat
    BY <1>1
  <2>4. (IF Cardinality(zs) < PageSize THEN "load" ELSE "page") \in {"page", "load"}
    OBVIOUS
  <2> HIDE DEF zs
  <2> QED
    BY ONLY <2>1, <2>2, <2>3, <2>4
<1>5. zs \subseteq atCf /\ atCf \subseteq Zones
  BY <1>1 DEF OnPage, TypeOK
<1>6. \A z \in atCf : z \in zs <=> (n - 1) * PageSize < Rank(z) /\ Rank(z) <= n * PageSize
  BY DEF OnPage
<1>7. \A z \in Zones : sync[s].got[z] \in Nat /\ Rank(z) \in Nat
  BY <1>1, RankType DEF Sync
<1>8. ASSUME NEW z \in atCf, Rank(z) > n * PageSize PROVE q.pc = "page"
  <2>1. Cardinality(zs) >= PageSize /\ Cardinality(zs) \in Nat /\ PageSize \in Nat
    BY <1>1, <1>5, <1>8, FullPage, ZonesAreFinite, BoundsAreNat DEF OnPage
  <2> QED
    BY <1>3, <2>1
<1> HIDE DEF q, zs
<1>9. /\ sync'[s] = q /\ atCf' = atCf /\ moved' = moved /\ q.pc \in {"page", "load"}
      /\ \A z \in Zones : Rank(z)' = Rank(z)
  BY <1>1, <1>2, <1>3 DEF TypeOK, ListPage, Rank
<1>10. (q.page - 1) * PageSize = n * PageSize /\ (n - 1) * PageSize \in Nat
       /\ n * PageSize = (n - 1) * PageSize + PageSize /\ PageSize \in Nat
  <2>1. q.page - 1 = n
    BY <1>1, <1>3
  <2>2. (n - 1) * PageSize \in Nat /\ n * PageSize = (n - 1) * PageSize + PageSize
    BY <1>1, BoundsAreNat
  <2> QED
    BY <2>1, <2>2, BoundsAreNat
<1>11. \A z \in Zones : Listed(s, z)' <=> (z \in zs \/ Listed(s, z))
  BY <1>3, <1>7, <1>9 DEF Listed
<1>12. Read(s) = (n - 1) * PageSize /\ Read(s)' = n * PageSize
  BY <1>9, <1>10 DEF Read
<1>13. ListedOnce(s)'
  <2>1. sync[s]'.page \in Nat \ {0}
    BY <1>1, <1>3, <1>9
  <2>2. ASSUME Apart', NEW z \in Zones
        PROVE  /\ q.got[z] <= 1
               /\ Listed(s, z)' /\ z \in atCf => Rank(z) <= n * PageSize
    <3>1. Apart
      BY <1>9, <2>2 DEF Apart
    <3>2. sync[s].got[z] <= 1 /\ (Listed(s, z) /\ z \in atCf => Rank(z) <= (n - 1) * PageSize)
      BY <1>1, <1>12, <3>1 DEF ListedOnce
    <3>3. CASE z \in zs
      <4>1. sync[s].got[z] = 0
        BY <1>5, <1>6, <1>7, <1>10, <3>2, <3>3 DEF Listed
      <4> QED
        BY <1>3, <1>5, <1>6, <3>3, <4>1
    <3>4. CASE z \notin zs
      BY <1>3, <1>7, <1>10, <1>11, <3>2, <3>4
    <3> QED
      BY <3>3, <3>4
  <2> QED
    BY <1>9, <1>12, <2>1, <2>2 DEF ListedOnce
<1>14. ListedAll(s)'
  <2>1. \A z \in Zones : z \in atCf \/ z \in q.absent
    BY <1>1, <1>3 DEF ListedAll, Ask
  <2>2. ASSUME Steady', NEW z \in Zones \ q.absent
        PROVE  Rank(z) <= n * PageSize => Listed(s, z)'
    <3>1. Steady /\ z \in atCf
      BY <1>9, <2>1, <2>2 DEF Steady
    <3>2. Rank(z) <= (n - 1) * PageSize => Listed(s, z)
      BY <1>1, <1>3, <1>12, <2>2, <3>1 DEF ListedAll
    <3> QED
      BY <1>6, <1>7, <1>10, <1>11, <3>1, <3>2
  <2>3. ASSUME NEW z \in Zones \ q.absent, q.pc # "page" PROVE Rank(z) <= n * PageSize
    <3>1. z \in atCf
      BY <2>1, <2>3
    <3> QED
      BY <1>7, <1>8, <1>10, <2>3, <3>1
  <2> QED
    BY <1>9, <1>12, <2>1, <2>2, <2>3 DEF ListedAll, Ask
<1>15. ListedTrue(s)'
  BY <1>1, <1>3, <1>5, <1>9, <1>11 DEF ListedTrue, Ask
<1>16. moved \subseteq {"grew", "shrank", "overlap"} /\ ~Ask(s, "idle")
  BY <1>1 DEF TypeOK, Ask
<1> QED
  BY <1>2, <1>4, <1>9, <1>13, <1>14, <1>15, <1>16, SyncKeeps DEF ListPage

LEMMA LoadStep ==
  ASSUME IInv, NEW s \in Syncers, Load(s)
  PROVE  IInv'
<1>1. CASE End(s)
  BY <1>1, EndKeeps DEF Load
<1>2. CASE sync' = [sync EXCEPT ![s].pc = "commit", ![s].seen = dom]
  <2> DEFINE q == [sync[s] EXCEPT !.pc = "commit", !.seen = dom]
  <2>1. /\ TypeOK /\ sync[s] \in Sync /\ Ask(s, "load")
        /\ ListedOnce(s) /\ ListedAll(s) /\ ListedTrue(s)
    BY DEF IInv, TypeOK, Load
  <2>2. q \in Sync /\ q.pc = "commit" /\ q.seen = dom /\ q.got = sync[s].got
        /\ q.absent = sync[s].absent /\ sync' = [sync EXCEPT ![s] = q]
    BY <1>2, <2>1 DEF Sync, TypeOK
  <2> HIDE DEF q
  <2>3. /\ sync'[s] = q /\ atCf' = atCf /\ moved' = moved /\ ~Ask(s, "idle")
        /\ \A z \in Zones : Listed(s, z)' = Listed(s, z)
    BY <2>1, <2>2 DEF TypeOK, Load, Listed, Ask
  <2>4. ListedOnce(s)'
    BY <2>1, <2>2, <2>3 DEF ListedOnce, Ask, Apart
  <2>5. ListedAll(s)' /\ ListedTrue(s)'
    BY <2>1, <2>2, <2>3 DEF ListedAll, ListedTrue, Ask, Steady
  <2>6. moved \subseteq {"grew", "shrank", "overlap"}
    BY <2>1 DEF TypeOK
  <2> QED
    BY <2>2, <2>3, <2>4, <2>5, <2>6, SyncKeeps DEF Load
<1> QED
  BY <1>1, <1>2 DEF Load

-----------------------------------------------------------------------------
(* What a sync writes.                                                     *)

LEMMA IdShape ==
  ASSUME NEW d \in DomainIds
  PROVE  d[1] \in Zones /\ d[2] \in 1 .. Copies /\ d = <<d[1], d[2]>>
  BY DEF DomainIds

(* A sync that is alone gives every row the status of its zone, and a      *)
(* listed zone without a row its first one.                                *)
LEMMA CommitRows ==
  ASSUME IInv, NEW s \in Syncers, Commit(s), Apart
  PROVE  /\ \A d \in DomainIds : dom[d].st # "none" => dom'[d].st = Status(s, d[1])
         /\ \A d \in DomainIds : dom[d].st = "none" /\ dom'[d].st # "none" =>
              /\ dom'[d].st = "active" /\ d[2] = 1
              /\ Listed(s, d[1]) /\ RowsOf(dom, d[1]) = {}
         /\ \A z \in Zones : Listed(s, z) /\ RowsOf(dom, z) = {} =>
              <<z, 1>> \in DomainIds /\ dom'[<<z, 1>>].st = "active"
<1> DEFINE seen == sync[s].seen
           used(z) == Cardinality(RowsOf(dom, z))
           new == {d \in DomainIds : /\ Unknown(s, d[1])
                                     /\ used(d[1]) < d[2]
                                     /\ d[2] <= used(d[1]) + sync[s].got[d[1]]}
           turned == {d \in DomainIds : /\ seen[d].st # "none"
                                        /\ seen[d].st # Status(s, d[1])}
<1>1. seen = dom /\ sync[s] \in Sync /\ ListedOnce(s) /\ TypeOK
  BY DEF IInv, TypeOK, Alone, Commit
<1>2. dom' = [d \in DomainIds |->
           IF d \in new THEN [st |-> "active", missed |-> FALSE]
           ELSE IF d \in turned
             THEN [st |-> Status(s, d[1]), missed |-> d[1] \in sync[s].absent]
           ELSE dom[d]]
  BY DEF Commit
<1>3. \A z \in Zones : Unknown(s, z) => used(z) + sync[s].got[z] <= Copies
  BY DEF Commit
<1>4. \A z \in Zones : Unknown(s, z) <=> Listed(s, z) /\ RowsOf(dom, z) = {}
  BY <1>1 DEF Unknown
<1>5. \A z \in Zones : sync[s].got[z] \in Nat /\ sync[s].got[z] <= 1
  BY <1>1 DEF Sync, ListedOnce
<1>6. \A z \in Zones : Unknown(s, z) => used(z) = 0 /\ sync[s].got[z] = 1
  BY <1>4, <1>5, FS_EmptySet DEF Listed
<1>7. \A z : Status(s, z) \in {"active", "unavailable"}
  BY DEF Status
<1>8. ASSUME NEW d \in DomainIds, dom[d].st # "none" PROVE dom'[d].st = Status(s, d[1])
  <2>1. d \in RowsOf(dom, d[1])
    BY <1>8 DEF RowsOf
  <2>2. d \notin new
    BY <1>4, <2>1, IdShape
  <2>3. d \in turned \/ dom[d].st = Status(s, d[1])
    BY <1>1, <1>8
  <2> HIDE DEF new, turned
  <2> QED
    BY <1>2, <2>2, <2>3
<1>9. ASSUME NEW d \in DomainIds, dom[d].st = "none", dom'[d].st # "none"
      PROVE  /\ dom'[d].st = "active" /\ d[2] = 1
             /\ Listed(s, d[1]) /\ RowsOf(dom, d[1]) = {}
  <2>1. d \notin turned
    BY <1>1, <1>9
  <2>2. d \in new
    <3> HIDE DEF new, turned
    <3> QED
      BY <1>2, <1>9, <2>1
  <2>3. dom'[d].st = "active"
    <3> HIDE DEF new, turned
    <3> QED
      BY <1>2, <2>2
  <2>4. Unknown(s, d[1]) /\ used(d[1]) < d[2] /\ d[2] <= used(d[1]) + sync[s].got[d[1]]
    BY <2>2
  <2>5. d[2] = 1
    <3> HIDE DEF used
    <3> QED
      BY <1>6, <2>4, IdShape
  <2> QED
    BY <1>4, <2>3, <2>4, <2>5, IdShape
<1>10. ASSUME NEW z \in Zones, Listed(s, z), RowsOf(dom, z) = {}
       PROVE  <<z, 1>> \in DomainIds /\ dom'[<<z, 1>>].st = "active"
  <2>1. Unknown(s, z) /\ used(z) = 0 /\ sync[s].got[z] = 1
    BY <1>4, <1>6, <1>10
  <2>2. Copies \in Nat /\ 1 <= Copies
    <3> HIDE DEF used
    <3> QED
      BY <1>3, <2>1, BoundsAreNat
  <2>3. <<z, 1>> \in DomainIds
    BY <2>2 DEF DomainIds
  <2>4. <<z, 1>>[1] = z /\ <<z, 1>>[2] = 1
    OBVIOUS
  <2>5. <<z, 1>> \in new
    <3>1. used(z) < 1 /\ 1 <= used(z) + sync[s].got[z]
      <4> HIDE DEF used
      <4> QED
        BY <2>1
    <3> QED
      BY <2>1, <2>3, <2>4, <3>1
  <2> HIDE DEF new, turned
  <2> QED
    BY <1>2, <2>3, <2>5
<1> QED
  BY <1>8, <1>9, <1>10

LEMMA CommitStep ==
  ASSUME IInv, NEW s \in Syncers, Commit(s)
  PROVE  IInv'
<1>1. TypeOK /\ \A t \in Syncers : sync'[t] = IF t = s THEN Idle ELSE sync[t]
  BY DEF IInv, TypeOK, Commit, End
<1>2. atCf' = atCf /\ moved' = moved
  BY DEF Commit
<1>3. TypeOK'
  <2>1. dom' \in [DomainIds -> Row]
    BY <1>1 DEF Commit, TypeOK, Row, Status
  <2>2. sync' \in [Syncers -> Sync]
    BY <1>1, IdleIsASync DEF Commit, End, TypeOK
  <2>3. UNCHANGED <<account, atCf, changes, moved>>
    BY DEF Commit
  <2> QED
    BY <1>1, <2>1, <2>2, <2>3 DEF TypeOK
<1>4. ASSUME NEW t \in Syncers PROVE ListedOnce(t)' /\ ListedAll(t)' /\ ListedTrue(t)'
  <2>1. CASE t = s
    BY <1>1, <2>1 DEF ListedOnce, ListedAll, ListedTrue, Ask, Idle, Listed
  <2>2. CASE t # s
    BY <1>1, <1>2, <2>2, OthersKeep
  <2> QED
    BY <2>1, <2>2
<1>5. Alone'
  <2> SUFFICES ASSUME Apart PROVE Running' = {}
    BY <1>2 DEF Alone, Apart, Running, Ask
  <2>1. Running = {s}
    BY DEF IInv, Alone, Running, Commit, Ask
  <2> QED
    BY <1>1, <2>1 DEF Running, Ask, Idle
<1>6. OneRowPerZone'
  <2> SUFFICES ASSUME NEW d \in DomainIds, NEW e \in DomainIds, Exists(d)', Exists(e)',
                      d[1] = e[1], Apart
               PROVE  d = e
    BY <1>2 DEF OneRowPerZone, Apart
  <2>1. CASE Exists(d) /\ Exists(e)
    BY <2>1 DEF IInv, OneRowPerZone, Apart
  <2>2. CASE ~Exists(d) /\ ~Exists(e)
    BY <2>2, CommitRows, IdShape DEF Exists
  <2>3. CASE Exists(d) /\ ~Exists(e)
    <3>1. RowsOf(dom, e[1]) = {}
      BY <2>3, CommitRows DEF Exists
    <3> QED
      BY <2>3, <3>1 DEF Exists, RowsOf
  <2>4. CASE ~Exists(d) /\ Exists(e)
    <3>1. RowsOf(dom, d[1]) = {}
      BY <2>4, CommitRows DEF Exists
    <3> QED
      BY <2>4, <3>1 DEF Exists, RowsOf
  <2> QED
    BY <2>1, <2>2, <2>3, <2>4
<1>7. UnavailableWasMissing'
  <2> SUFFICES ASSUME NEW d \in DomainIds, dom'[d].st = "unavailable", Steady
               PROVE  dom'[d].missed
    BY <1>2 DEF UnavailableWasMissing, Steady
  <2>1. CASE dom'[d] = dom[d]
    BY <2>1 DEF IInv, UnavailableWasMissing, Steady
  <2>2. CASE dom'[d] # dom[d]
    <3>1. dom'[d] = [st |-> Status(s, d[1]), missed |-> d[1] \in sync[s].absent]
      BY <2>2 DEF Commit
    <3>2. ~Listed(s, d[1])
      BY <3>1 DEF Status
    <3>3. d[1] \in sync[s].absent
      BY <3>2, IdShape DEF IInv, ListedAll, Commit
    <3>4. dom'[d].missed = (d[1] \in sync[s].absent)
      BY <3>1
    <3> QED
      BY <3>3, <3>4
  <2> QED
    BY <2>1, <2>2
<1> QED
  BY <1>3, <1>4, <1>5, <1>6, <1>7 DEF IInv

-----------------------------------------------------------------------------
(* What happens around a sync.                                             *)

LEMMA AccountStep ==
  ASSUME IInv, NEW state \in {"active", "inactive", "deleted"}, SetAccount(state)
  PROVE  IInv'
<1>1. \A t \in Syncers : ListedOnce(t)' /\ ListedAll(t)' /\ ListedTrue(t)'
  BY OthersKeep DEF SetAccount
<1>2. TypeOK'
  BY DEF IInv, TypeOK, SetAccount
<1>3. Alone' /\ OneRowPerZone' /\ UnavailableWasMissing'
  BY DEF IInv, SetAccount, Alone, Apart, Running, Ask, OneRowPerZone, Exists,
     UnavailableWasMissing
<1> QED
  BY <1>1, <1>2, <1>3 DEF IInv

LEMMA CrashStep ==
  ASSUME IInv, Crash
  PROVE  IInv'
<1>1. \A t \in Syncers : sync'[t] = Idle
  BY DEF Crash
<1>2. TypeOK'
  BY IdleIsASync DEF IInv, TypeOK, Crash
<1>3. \A t \in Syncers : ListedOnce(t)' /\ ListedAll(t)' /\ ListedTrue(t)'
  BY <1>1 DEF ListedOnce, ListedAll, ListedTrue, Ask, Idle, Listed
<1>4. Alone'
  BY <1>1 DEF Alone, Running, Ask, Idle
<1>5. OneRowPerZone' /\ UnavailableWasMissing'
  BY DEF IInv, Crash, OneRowPerZone, Exists, UnavailableWasMissing
<1> QED
  BY <1>2, <1>3, <1>4, <1>5 DEF IInv

(* A zone that goes pulls the later ones forward, one that comes pushes    *)
(* them back: each spoils one half of what a running sync counts on.       *)
LEMMA ChangeStep ==
  ASSUME IInv, NEW z \in Zones, Change(z)
  PROVE  IInv'
<1>0. TypeOK
  BY DEF IInv
<1>1. /\ atCf' = IF z \in atCf THEN atCf \ {z} ELSE atCf \cup {z}
      /\ atCf \in SUBSET Zones /\ atCf' \in SUBSET Zones
  BY <1>0 DEF Change, TypeOK
<1>2. \A t \in Syncers :
        /\ t \notin Running => sync'[t] = sync[t]
        /\ t \in Running =>
             sync'[t] = [sync[t] EXCEPT !.absent = @ \cup (Zones \ atCf')]
  BY DEF Change
<1>3. \A t \in Syncers : sync[t] \in Sync
  BY <1>0 DEF TypeOK
<1>4. \A t \in Syncers :
        /\ sync'[t].pc = sync[t].pc /\ sync'[t].page = sync[t].page
        /\ sync'[t].got = sync[t].got /\ sync'[t].seen = sync[t].seen
  BY <1>2, <1>3 DEF Sync
<1>5. \A t \in Running : sync'[t].absent = sync[t].absent \cup (Zones \ atCf')
  BY <1>2, <1>3 DEF Sync, Running
<1>6. /\ Running' = Running
      /\ \A t \in Syncers : /\ \A pc : Ask(t, pc)' = Ask(t, pc)
                            /\ \A y \in Zones : Listed(t, y)' = Listed(t, y)
                            /\ Read(t)' = Read(t)
  BY <1>4 DEF Running, Ask, Listed, Read
<1>7. moved' = moved \cup (IF Running = {} THEN {}
                           ELSE IF z \in atCf THEN {"shrank"} ELSE {"grew"})
  BY DEF Change
<1>8. /\ Apart' => Apart /\ (Running = {} \/ z \in atCf)
      /\ Steady' => Steady /\ (Running = {} \/ z \notin atCf)
      /\ moved' = {} => Running = {}
  BY <1>7 DEF Apart, Steady
<1>9. \A y : Rank(y) = RankIn(atCf, y) /\ Rank(y)' = RankIn(atCf', y)
  BY DEF Rank, RankIn
<1>10. TypeOK'
  <2>1. ASSUME NEW t \in Syncers PROVE sync'[t] \in Sync
    <3>1. CASE t \in Running
      <4> DEFINE a == sync[t].absent \cup (Zones \ atCf')
      <4>1. sync'[t] = [sync[t] EXCEPT !.absent = a]
        BY <1>2, <3>1
      <4>2. sync[t].absent \in SUBSET Zones
        BY <1>3 DEF Sync
      <4>3. a \in SUBSET Zones
        BY <4>2
      <4> HIDE DEF a
      <4> QED
        BY <1>3, <4>1, <4>3 DEF Sync
    <3>2. CASE t \notin Running
      BY <1>2, <1>3, <3>2
    <3> QED
      BY <3>1, <3>2
  <2>2. sync' \in [Syncers -> Sync]
    <3>1. sync' = [t \in Syncers |-> sync'[t]]
      BY DEF Change
    <3> QED
      BY <2>1, <3>1
  <2>3. changes' \in 0 .. ChangeBound
    BY <1>0, BoundsAreNat DEF TypeOK, Change
  <2>4. moved' \subseteq {"grew", "shrank", "overlap"}
    BY <1>0, <1>7 DEF TypeOK
  <2>5. UNCHANGED <<account, dom>>
    BY DEF Change
  <2> QED
    BY <1>0, <1>1, <2>2, <2>3, <2>4, <2>5 DEF TypeOK
<1>11. ASSUME NEW t \in Syncers PROVE ListedOnce(t)'
  <2>1. ListedOnce(t)
    BY DEF IInv
  <2>2. Ask(t, "page")' => sync'[t].page \in Nat \ {0}
    BY <1>4, <1>6, <2>1 DEF ListedOnce
  <2>3. ASSUME Apart', NEW y \in Zones PROVE sync'[t].got[y] <= 1
    BY <1>4, <1>8, <2>1, <2>3 DEF ListedOnce
  <2>4. ASSUME Apart', NEW y \in Zones, Ask(t, "page")', Listed(t, y)', y \in atCf'
        PROVE  Rank(y)' <= Read(t)'
    <3>1. Ask(t, "page") /\ Listed(t, y) /\ t \in Running
      BY <1>6, <2>4 DEF Running, Ask
    <3>2. z \in atCf /\ atCf' \in SUBSET atCf
      BY <1>1, <1>8, <2>4, <3>1
    <3>3. Rank(y) <= Read(t)
      BY <1>8, <2>1, <2>4, <3>1, <3>2 DEF ListedOnce
    <3>4. Rank(y)' <= Rank(y) /\ Rank(y)' \in Nat /\ Rank(y) \in Nat
      BY <1>1, <1>9, <3>2, RankMonotone
    <3>5. Read(t) \in Nat
      <4>1. sync[t].page - 1 \in Nat /\ PageSize \in Nat
        BY <2>1, <3>1, BoundsAreNat DEF ListedOnce
      <4> QED
        BY <4>1 DEF Read
    <3> QED
      BY <1>6, <3>3, <3>4, <3>5
  <2> QED
    BY <2>2, <2>3, <2>4 DEF ListedOnce
<1>12. ASSUME NEW t \in Syncers PROVE ListedAll(t)'
  <2>1. ListedAll(t)
    BY DEF IInv
  <2>2. CASE t \notin Running
    BY <1>6, <2>2 DEF ListedAll, Running, Ask
  <2>3. CASE t \in Running
    <3>1. \A y \in Zones : y \in atCf' \/ y \in sync'[t].absent
      BY <1>5, <2>3
    <3>2. ASSUME Steady', NEW y \in Zones, y \notin sync'[t].absent
          PROVE  /\ Steady /\ y \in atCf /\ y \notin sync[t].absent
                 /\ z \notin atCf /\ atCf \in SUBSET atCf'
      <4>1. Steady /\ z \notin atCf /\ y \notin sync[t].absent
        BY <1>5, <1>8, <2>3, <3>2
      <4>2. y \in atCf
        BY <2>1, <2>3, <4>1 DEF ListedAll, Running
      <4> QED
        BY <1>1, <4>1, <4>2
    <3>3. ASSUME Steady', NEW y \in Zones, y \notin sync'[t].absent,
                 Ask(t, "page")', Rank(y)' <= Read(t)'
          PROVE  Listed(t, y)'
      <4>1. Rank(y) <= Rank(y)' /\ Rank(y)' \in Nat /\ Rank(y) \in Nat
        BY <1>1, <1>9, <3>2, <3>3, RankMonotone
      <4>2. Read(t) \in Nat
        <5>1. sync[t].page - 1 \in Nat /\ PageSize \in Nat
          BY <1>6, <3>3, BoundsAreNat DEF IInv, ListedOnce
        <5> QED
          BY <5>1 DEF Read
      <4>3. Rank(y) <= Read(t)
        BY <1>6, <3>3, <4>1, <4>2
      <4> QED
        BY <1>6, <2>1, <3>2, <3>3, <4>3 DEF ListedAll
    <3>4. ASSUME Steady', NEW y \in Zones, y \notin sync'[t].absent,
                 Ask(t, "load")' \/ Ask(t, "commit")'
          PROVE  Listed(t, y)'
      BY <1>6, <2>1, <3>2, <3>4 DEF ListedAll
    <3> QED
      BY <3>1, <3>3, <3>4 DEF ListedAll
  <2> QED
    BY <2>2, <2>3
<1>13. ASSUME NEW t \in Syncers PROVE ListedTrue(t)'
  BY <1>6, <1>8 DEF ListedTrue, Running
<1>14. Alone'
  <2>1. dom' = dom
    BY DEF Change
  <2> QED
    BY <1>4, <1>6, <1>8, <2>1 DEF IInv, Alone
<1>15. OneRowPerZone' /\ UnavailableWasMissing'
  <2>1. dom' = dom /\ moved \subseteq moved'
    BY <1>7 DEF Change
  <2> QED
    BY <2>1 DEF IInv, OneRowPerZone, UnavailableWasMissing, Exists
<1> QED
  BY <1>10, <1>11, <1>12, <1>13, <1>14, <1>15 DEF IInv

-----------------------------------------------------------------------------
(* The theorems.                                                           *)

LEMMA StepKeeps == IInv /\ [Next]_vars => IInv'
<1> SUFFICES ASSUME IInv, [Next]_vars PROVE IInv'
  OBVIOUS
<1>1. ASSUME NEW s \in Syncers, Start(s) PROVE IInv'
  BY <1>1, StartStep
<1>2. ASSUME NEW s \in Syncers, ListPage(s) PROVE IInv'
  BY <1>2, ListPageStep
<1>3. ASSUME NEW s \in Syncers, Refused(s) PROVE IInv'
  BY <1>3, EndKeeps DEF Refused
<1>4. ASSUME NEW s \in Syncers, Load(s) PROVE IInv'
  BY <1>4, LoadStep
<1>5. ASSUME NEW s \in Syncers, Commit(s) PROVE IInv'
  BY <1>5, CommitStep
<1>6. ASSUME NEW state \in {"active", "inactive", "deleted"}, SetAccount(state) PROVE IInv'
  BY <1>6, AccountStep
<1>7. ASSUME NEW z \in Zones, Change(z) PROVE IInv'
  BY <1>7, ChangeStep
<1>8. CASE Crash
  BY <1>8, CrashStep
<1>9. CASE UNCHANGED vars
  <2>1. \A t \in Syncers : ListedOnce(t)' /\ ListedAll(t)' /\ ListedTrue(t)'
    BY <1>9, OthersKeep DEF vars
  <2>2. TypeOK'
    BY <1>9 DEF vars, IInv, TypeOK
  <2>3. Alone' /\ OneRowPerZone' /\ UnavailableWasMissing'
    BY <1>9 DEF vars, IInv, Alone, Apart, Running, Ask, OneRowPerZone, Exists,
       UnavailableWasMissing
  <2> QED
    BY <2>1, <2>2, <2>3 DEF IInv
<1> QED
  BY <1>1, <1>2, <1>3, <1>4, <1>5, <1>6, <1>7, <1>8, <1>9 DEF Next, Step

(* A sync nothing disturbed writes the zones Cloudflare has.               *)
LEMMA WritesTrue ==
  ASSUME IInv, NEW s \in Syncers, Commit(s), moved = {}, NEW z \in Zones
  PROVE  z \in atCf <=> \E d \in RowsOf(dom', z) : dom'[d].st = "active"
<1>0. Apart /\ Steady /\ Ask(s, "commit") /\ ~Ask(s, "idle")
  BY DEF Apart, Steady, Commit, Ask
<1>1. ListedAll(s) /\ ListedTrue(s)
  BY DEF IInv
<1>2. Listed(s, z) <=> z \in atCf
  BY <1>0, <1>1 DEF ListedAll, ListedTrue
<1>3. ASSUME z \in atCf PROVE \E d \in RowsOf(dom', z) : dom'[d].st = "active"
  <2>1. CASE RowsOf(dom, z) = {}
    <3>1. <<z, 1>> \in DomainIds /\ dom'[<<z, 1>>].st = "active"
      BY <1>0, <1>2, <1>3, <2>1, CommitRows
    <3> QED
      BY <3>1 DEF RowsOf
  <2>2. CASE RowsOf(dom, z) # {}
    <3>1. PICK d \in RowsOf(dom, z) : TRUE
      BY <2>2
    <3>2. d \in DomainIds /\ d[1] = z /\ dom[d].st # "none"
      BY <3>1 DEF RowsOf
    <3>3. dom'[d].st = "active"
      BY <1>0, <1>2, <1>3, <3>2, CommitRows DEF Status
    <3> QED
      BY <3>2, <3>3 DEF RowsOf
  <2> QED
    BY <2>1, <2>2
<1>4. ASSUME NEW d \in RowsOf(dom', z), dom'[d].st = "active" PROVE z \in atCf
  <2>1. d \in DomainIds /\ d[1] = z /\ dom'[d].st # "none"
    BY DEF RowsOf
  <2>2. CASE dom[d].st = "none"
    BY <1>0, <1>2, <2>1, <2>2, CommitRows
  <2>3. CASE dom[d].st # "none"
    BY <1>0, <1>2, <1>4, <2>1, <2>3, CommitRows DEF Status
  <2> QED
    BY <2>2, <2>3
<1> QED
  BY <1>3, <1>4

LEMMA OnlyCommitWrites ==
  ASSUME [Next]_vars, dom' # dom
  PROVE  (\E s \in Syncers : Commit(s)) /\ UNCHANGED <<atCf, moved>>
<1>1. \E s \in Syncers : Commit(s)
  BY DEF Next, Step, vars, Start, ListPage, Refused, Load, SetAccount, Change, Crash
<1> QED
  BY <1>1 DEF Commit

THEOREM Invariance == Spec => []IInv
  BY Starts, StepKeeps, PTL DEF Spec

(* The variables keep their types.                                         *)
THEOREM TypeCorrect == Spec => []TypeOK
  BY Invariance, PTL DEF IInv

(* Syncs that do not overlap, of an account that gains no zone meanwhile,  *)
(* leave each zone one row (sync_domains).                                 *)
THEOREM ZonesHaveOneRow == Spec => []OneRowPerZone
  BY Invariance, PTL DEF IInv

(* A domain is marked unavailable only when Cloudflare had been without    *)
(* its zone (sync_domains), whatever the page size.                        *)
THEOREM UnavailableIsMissing == Spec => []UnavailableWasMissing
  BY Invariance, PTL DEF IInv

(* What an undisturbed sync writes is what the account has (sync_domains). *)
THEOREM SyncsAreTrue == Spec => WritesWhatIsThere
<1>1. IInv /\ [Next]_vars =>
        [dom' # dom /\ moved = {} =>
           \A z \in Zones : z \in atCf <=>
              \E d \in RowsOf(dom', z) : dom'[d].st = "active"]_vars
  BY WritesTrue, OnlyCommitWrites
<1> QED
  BY <1>1, Invariance, PTL DEF Spec, WritesWhatIsThere
=============================================================================
