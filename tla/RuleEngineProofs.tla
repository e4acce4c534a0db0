---------------------------- MODULE RuleEngineProofs ----------------------------
(***************************************************************************)
(* The rules, their store and the engine, for every directory, every set of*)
(* rules and every number of threads that reload.                          *)
(*                                                                         *)
(* Three facts carry the rest.  A finite set of rules whose identifiers are*)
(* unique has one sorted list, so that the engine has something to run     *)
(* (SortedList).  A reload reads the files in their order and is left with *)
(* rules of different files, each still in its file unless the file changed*)
(* meanwhile (LoadInv).  And the rule that matched is the first of those   *)
(* examined that is enabled and whose conditions hold (RunInv).            *)
(***************************************************************************)
EXTENDS RuleEngine, FiniteSetTheorems, FunctionTheorems, TLAPS

(* R orders S, and list is S in that order. *)
Orders(R, S) ==
  /\ \A x \in S : <<x, x>> \notin R
  /\ \A x, y, z \in S : <<x, y>> \in R /\ <<y, z>> \in R => <<x, z>> \in R
  /\ \A x, y \in S : x # y => <<x, y>> \in R \/ <<y, x>> \in R

Lists(list, R, S) ==
  /\ list \in [1 .. Cardinality(S) -> S]
  /\ \A i, j \in 1 .. Cardinality(S) : i < j => <<list[i], list[j]>> \in R
  /\ \A x \in S : \E i \in 1 .. Cardinality(S) : list[i] = x

(* A finite set can be listed in a strict total order: the number of elements*)
(* before an element is its place.                                           *)
LEMMA Listing ==
  ASSUME NEW S, IsFiniteSet(S), NEW R, Orders(R, S)
  PROVE  \E list : Lists(list, R, S)
<1> DEFINE n == Cardinality(S)
           below(x) == {y \in S : <<y, x>> \in R}
           place == [x \in S |-> Cardinality(below(x)) + 1]
<1>1. n \in Nat
  BY FS_CardinalityType
<1>2. ASSUME NEW x \in S
      PROVE  IsFiniteSet(below(x)) /\ Cardinality(below(x)) \in Nat
  <2>1. below(x) \in SUBSET S
    OBVIOUS
  <2> HIDE DEF below
  <2>2. QED
    BY <2>1, FS_Subset, FS_CardinalityType
<1>3. ASSUME NEW x \in S PROVE place[x] \in 1 .. n
  <2>1. below(x) \in SUBSET (S \ {x})
    BY DEF Orders
  <2>2. IsFiniteSet(S \ {x}) /\ Cardinality(S \ {x}) = n - 1
    BY FS_RemoveElement
  <2> HIDE DEF below, n
  <2>3. Cardinality(below(x)) <= n - 1
    <3>1. Cardinality(below(x)) <= Cardinality(S \ {x})
      BY <2>1, <2>2, FS_Subset
    <3>2. QED
      BY <2>2, <3>1
  <2>4. QED
    BY <1>1, <1>2, <2>3
<1>4. ASSUME NEW x \in S, NEW y \in S, <<x, y>> \in R PROVE place[x] < place[y]
  <2>1. below(x) \cup {x} \in SUBSET below(y)
    BY <1>4 DEF Orders
  <2>2. x \notin below(x)
    BY DEF Orders
  <2> HIDE DEF below
  <2>3. /\ IsFiniteSet(below(x) \cup {x})
        /\ Cardinality(below(x) \cup {x}) = Cardinality(below(x)) + 1
    BY <1>2, <2>2, FS_AddElement
  <2>4. Cardinality(below(x)) + 1 <= Cardinality(below(y))
    BY <1>2, <2>1, <2>3, FS_Subset
  <2>5. QED
    BY <1>2, <2>4
<1>5. \A x \in S : place[x] \in Nat
  BY <1>2
<1>6. place \in Injection(S, 1 .. n)
  <2>1. place \in [S -> 1 .. n]
    BY <1>3
  <2>2. ASSUME NEW x \in S, NEW y \in S, place[x] = place[y] PROVE x = y
    <3> HIDE DEF place
    <3>1. ~(place[x] < place[y]) /\ ~(place[y] < place[x])
      BY <1>5, <2>2
    <3>2. QED
      BY <1>4, <3>1 DEF Orders
  <2> HIDE DEF place, n
  <2>3. QED
    BY <2>1, <2>2 DEF Injection, IsInjective
<1>7. \A i \in 1 .. n : \E x \in S : place[x] = i
  <2>1. IsFiniteSet(1 .. n) /\ Cardinality(1 .. n) = n
    BY <1>1, FS_Interval
  <2> HIDE DEF place
  <2>2. place \in Surjection(S, 1 .. n)
    BY <1>6, <2>1, FS_Injection
  <2>3. QED
    BY <2>2 DEF Surjection
<1> HIDE DEF place, n
<1> DEFINE list == [i \in 1 .. n |-> CHOOSE x \in S : place[x] = i]
<1>8. \A i \in 1 .. n : list[i] \in S /\ place[list[i]] = i
  BY <1>7
<1>9. ASSUME NEW i \in 1 .. n, NEW j \in 1 .. n, i < j PROVE <<list[i], list[j]>> \in R
  <2> HIDE DEF list
  <2>1. list[i] # list[j]
    BY <1>8, <1>9
  <2>2. ~(place[list[j]] < place[list[i]])
    BY <1>8, <1>9
  <2>3. QED
    BY <1>4, <1>8, <2>1, <2>2 DEF Orders
<1>10. ASSUME NEW x \in S PROVE \E i \in 1 .. n : list[i] = x
  <2>1. place[x] \in 1 .. n
    BY <1>3
  <2>2. list[place[x]] = x
    <3> HIDE DEF list
    <3>1. list[place[x]] \in S /\ place[list[place[x]]] = place[x]
      BY <1>8, <2>1
    <3>2. QED
      BY <1>6, <3>1 DEF Injection, IsInjective
  <2>3. QED
    BY <2>1, <2>2
<1>11. list \in [1 .. n -> S]
  BY <1>8
<1> HIDE DEF list
<1>12. QED
  BY <1>9, <1>10, <1>11 DEF n, Lists

LEMMA BeforeOrders ==
  /\ \A r \in Rules : ~Before(r, r)
  /\ \A r, s, t \in Rules : Before(r, s) /\ Before(s, t) => Before(r, t)
  /\ \A r, s \in Rules : r.id # s.id => Before(r, s) \/ Before(s, r)
  BY RulesAssumption DEF RulesAssumption, Before

UniqueIds(set) == \A r, s \in set : r.id = s.id => r = s

(* The engine's order of the rules: it exists, and leaves no rule out. *)
LEMMA SortedList ==
  ASSUME NEW set \in SUBSET Rules, IsFiniteSet(set), UniqueIds(set)
  PROVE  /\ Sorted(set) \in [1 .. Cardinality(set) -> set]
         /\ \A i, j \in DOMAIN Sorted(set) : i < j => Before(Sorted(set)[i], Sorted(set)[j])
         /\ Cardinality(set) \in Nat
<1> DEFINE R == {p \in set \X set : Before(p[1], p[2])}
<1>1. \A x, y \in set : <<x, y>> \in R <=> Before(x, y)
  OBVIOUS
<1>2. \A x, y \in set : x # y => Before(x, y) \/ Before(y, x)
  BY BeforeOrders DEF UniqueIds
<1>3. \A x, y, z \in set : Before(x, y) /\ Before(y, z) => Before(x, z)
  BY BeforeOrders
<1>4. \A x \in set : ~Before(x, x)
  BY BeforeOrders
<1> HIDE DEF R
<1>5. Orders(R, set)
  BY <1>1, <1>2, <1>3, <1>4 DEF Orders
<1>6. \E list \in [1 .. Cardinality(set) -> set] :
        \A i, j \in DOMAIN list : i < j => Before(list[i], list[j])
  <2>1. PICK list : Lists(list, R, set)
    BY <1>5, Listing
  <2>2. QED
    BY <1>1, <2>1 DEF Lists
<1>7. Cardinality(set) \in Nat
  BY FS_CardinalityType
<1>8. QED
  BY <1>6, <1>7 DEF Sorted

(* A reload that has files to read has a first one. *)
LEMMA FirstIsIn ==
  ASSUME NEW P \in SUBSET Files, P # {}
  PROVE  First(P) \in P
<1> DEFINE R == {p \in P \X P : p[1] < p[2]}
<1>1. IsFiniteSet(P) /\ P \subseteq Nat
  BY RulesAssumption, FS_Subset DEF RulesAssumption
<1>2. \A x, y \in P : <<x, y>> \in R <=> x < y
  OBVIOUS
<1> HIDE DEF R
<1>3. PICK list : Lists(list, R, P)
  <2>1. Orders(R, P)
    BY <1>1, <1>2 DEF Orders
  <2>2. QED
    BY <1>1, <2>1, Listing
<1>4. Cardinality(P) \in Nat /\ Cardinality(P) # 0
  BY <1>1, FS_CardinalityType, FS_EmptySet
<1>5. 1 \in 1 .. Cardinality(P) /\ list[1] \in P
  BY <1>3, <1>4 DEF Lists
<1>6. \A x \in P : list[1] <= x
  <2> SUFFICES ASSUME NEW x \in P PROVE list[1] <= x
    OBVIOUS
  <2>1. PICK i \in 1 .. Cardinality(P) : list[i] = x
    BY <1>3 DEF Lists
  <2>2. CASE i = 1
    BY <1>1, <1>5, <2>1, <2>2
  <2>3. CASE i # 1
    <3>1. <<list[1], x>> \in R
      BY <1>3, <1>4, <1>5, <2>1, <2>3 DEF Lists
    <3>2. list[1] < x
      BY <1>2, <1>5, <3>1
    <3>3. list[1] \in Nat /\ x \in Nat
      BY <1>1, <1>5
    <3>4. QED
      BY <3>2, <3>3
  <2>4. QED
    BY <2>2, <2>3
<1>7. QED
  BY <1>5, <1>6 DEF First

(* A rule that raises does not match. *)
LEMMA MetOrFails == \A r \in Rules : \A e : Met(r, e) => ~Fails(r, e)
  BY RulesAssumption DEF RulesAssumption, Met, Fails, HoldsUpTo

-----------------------------------------------------------------------------
(* Reloads. *)

(* A set that a reload read from the directory d, but for the files unread   *)
(* and whatever happened to the files changed: rules of different files, and *)
(* every file that can be read has its rule in the set.                      *)
Drawn(set, unread, changed, d) ==
  /\ UniqueIds(set)
  /\ \E origin \in [set -> Files \ (Drafts \cup unread)] :
       /\ \A r, s \in set : origin[r] = origin[s] => r = s
       /\ \A r \in set : origin[r] \in changed \/ d[origin[r]] = r
  /\ \A f \in Files \ (Drafts \cup unread \cup changed) : d[f] \in set \cup {Absent}

LEMMA DrawnFinite ==
  ASSUME NEW set, NEW unread, NEW changed, NEW d, Drawn(set, unread, changed, d)
  PROVE  IsFiniteSet(set)
<1>1. PICK origin \in [set -> Files \ (Drafts \cup unread)] :
        \A r, s \in set : origin[r] = origin[s] => r = s
  BY DEF Drawn
<1>2. origin \in Injection(set, Files)
  BY <1>1 DEF Injection, IsInjective
<1>3. QED
  BY <1>2, RulesAssumption, FS_Injection DEF RulesAssumption

LEMMA DrawnAtFirst ==
  ASSUME NEW d, NEW unread, \A f \in Files \ (Drafts \cup unread) : d[f] = Absent
  PROVE  Drawn({}, unread, {}, d)
<1>1. [r \in {} |-> r] \in [{} -> Files \ (Drafts \cup unread)]
  OBVIOUS
<1>2. QED
  BY <1>1 DEF Drawn, UniqueIds

(* The directory changes, and somebody keeps account of it. *)
LEMMA DrawnBefore ==
  ASSUME NEW set, NEW unread, NEW changed, NEW d, Drawn(set, unread, changed, d),
         NEW since, changed \subseteq since,
         NEW e, \A f \in Files \ since : e[f] = d[f]
  PROVE  Drawn(set, unread, since, e)
<1>1. PICK origin \in [set -> Files \ (Drafts \cup unread)] :
        /\ \A r, s \in set : origin[r] = origin[s] => r = s
        /\ \A r \in set : origin[r] \in changed \/ d[origin[r]] = r
  BY DEF Drawn
<1>2. \A r \in set : origin[r] \in since \/ e[origin[r]] = r
  BY <1>1
<1>3. QED
  BY <1>1, <1>2 DEF Drawn

LEMMA DrawnOneMore ==
  ASSUME NEW set, NEW unread, NEW changed, NEW d, Drawn(set, unread, changed, d),
         NEW f \in Files \ Drafts, f \in unread, \A r \in set : r.id # d[f].id
  PROVE  Drawn(set \cup {d[f]}, unread \ {f}, changed, d)
<1>1. PICK origin \in [set -> Files \ (Drafts \cup unread)] :
        /\ \A r, s \in set : origin[r] = origin[s] => r = s
        /\ \A r \in set : origin[r] \in changed \/ d[origin[r]] = r
  BY DEF Drawn
<1> DEFINE more == [r \in set \cup {d[f]} |-> IF r \in set THEN origin[r] ELSE f]
<1>2. d[f] \notin set
  OBVIOUS
<1>3. more \in [set \cup {d[f]} -> Files \ (Drafts \cup (unread \ {f}))]
  BY <1>1
<1>4. \A r \in set : more[r] = origin[r] /\ origin[r] # f
  BY <1>1
<1>5. more[d[f]] = f
  BY <1>2
<1> HIDE DEF more
<1>6. \A r, s \in set \cup {d[f]} : more[r] = more[s] => r = s
  BY <1>1, <1>4, <1>5
<1>7. \A r \in set \cup {d[f]} : more[r] \in changed \/ d[more[r]] = r
  BY <1>1, <1>4, <1>5
<1>8. UniqueIds(set \cup {d[f]})
  BY DEF Drawn, UniqueIds
<1>9. \A g \in Files \ (Drafts \cup (unread \ {f}) \cup changed) :
        d[g] \in (set \cup {d[f]}) \cup {Absent}
  BY DEF Drawn
<1>10. QED
  BY <1>3, <1>6, <1>7, <1>8, <1>9 DEF Drawn

(* What the loaders and the store have. *)
LoadInv ==
  /\ \A l \in Loaders :
       /\ ~loading[l] => paths[l] = {} /\ loaded[l] = {} /\ touched[l] = {}
       /\ paths[l] \subseteq Files \ Drafts
       /\ loading[l] => Drawn(loaded[l], paths[l], touched[l], disk)
  /\ Drawn(store, {}, stale, disk)

LoadType ==
  /\ disk \in [Files -> Contents]
  /\ edits \in Nat
  /\ store \subseteq Rules
  /\ loading \in [Loaders -> BOOLEAN]
  /\ paths \in [Loaders -> SUBSET Files]
  /\ loaded \in [Loaders -> SUBSET Rules]
  /\ touched \in [Loaders -> SUBSET Files]
  /\ stale \subseteq Files

LEMMA LoadTypeInit == Init => LoadType
  BY DEF Init, LoadType

LEMMA LoadTypeStep == LoadType /\ [Next]_vars => LoadType'
<1> SUFFICES ASSUME LoadType, [Next]_vars PROVE LoadType'
  OBVIOUS
<1> USE DEF LoadType, directory, loader, history, engine
<1>1. CASE UNCHANGED vars
  BY <1>1 DEF vars
<1>2. ASSUME NEW f \in Files, NEW content \in Contents, Edit(f, content) PROVE LoadType'
  BY <1>2 DEF Edit, Touch
<1>3. ASSUME NEW f \in Files, NEW g \in Files, Rename(f, g) PROVE LoadType'
  BY <1>3 DEF Rename, Touch, Contents
<1>4. ASSUME NEW l \in Loaders, Reload(l) PROVE LoadType'
  BY <1>4 DEF Reload
<1>5. ASSUME NEW l \in Loaders, Read(l) PROVE LoadType'
  BY <1>5 DEF Read
<1>6. ASSUME NEW l \in Loaders, ReadFails(l) PROVE LoadType'
  BY <1>6 DEF ReadFails, End
<1>7. ASSUME NEW l \in Loaders, Swap(l) PROVE LoadType'
  BY <1>7 DEF Swap, End
<1>8. CASE (\E e \in Events : Evaluate(e)) \/ Examine \/ Return
  BY <1>8 DEF Evaluate, Examine, Return
<1>9. QED
  BY <1>1, <1>2, <1>3, <1>4, <1>5, <1>6, <1>7, <1>8 DEF Next

(* The directory changes under those who read it. *)
LEMMA TouchStep ==
  ASSUME LoadType, LoadInv, NEW files \in SUBSET Files, Touch(files),
         \A f \in Files \ files : disk'[f] = disk[f]
  PROVE  LoadInv'
<1>1. /\ touched' = [l \in Loaders |-> IF loading[l] THEN touched[l] \cup files ELSE {}]
      /\ stale' = stale \cup files
      /\ UNCHANGED <<store, loading, paths, loaded>>
  BY DEF Touch, loader
<1>2. Drawn(store, {}, stale', disk')
  BY <1>1, DrawnBefore DEF LoadInv
<1>3. ASSUME NEW l \in Loaders, loading[l]
      PROVE  Drawn(loaded[l], paths[l], touched'[l], disk')
  <2>1. touched'[l] = touched[l] \cup files
    BY <1>1, <1>3
  <2>2. Drawn(loaded[l], paths[l], touched[l], disk)
    BY <1>3 DEF LoadInv
  <2>3. touched[l] \subseteq touched'[l] /\ \A f \in Files \ touched'[l] : disk'[f] = disk[f]
    BY <2>1
  <2>4. QED
    BY <2>2, <2>3, DrawnBefore
<1>4. \A l \in Loaders : ~loading[l] => touched'[l] = {}
  BY <1>1
<1>5. QED
  BY <1>1, <1>2, <1>3, <1>4 DEF LoadInv

(* A loader moves, and nothing else does. *)
LEMMA LoaderMoves ==
  ASSUME LoadType, LoadInv, NEW l \in Loaders, UNCHANGED disk,
         \A k \in Loaders \ {l} : /\ loading'[k] = loading[k] /\ paths'[k] = paths[k]
                                  /\ loaded'[k] = loaded[k] /\ touched'[k] = touched[k],
         ~loading'[l] => paths'[l] = {} /\ loaded'[l] = {} /\ touched'[l] = {},
         paths'[l] \subseteq Files \ Drafts,
         loading'[l] => Drawn(loaded'[l], paths'[l], touched'[l], disk),
         Drawn(store', {}, stale', disk)
  PROVE  LoadInv'
  BY DEF LoadInv

LEMMA LoadInvInit == Init => LoadInv
<1> SUFFICES ASSUME Init PROVE LoadInv
  OBVIOUS
<1>1. store = {} /\ stale = Files
  BY DEF Init
<1>2. Drawn({}, {}, Files, disk)
  <2>1. [r \in {} |-> r] \in [{} -> Files \ (Drafts \cup {})]
    OBVIOUS
  <2>2. QED
    BY <2>1 DEF Drawn, UniqueIds
<1>3. QED
  BY <1>1, <1>2 DEF Init, LoadInv

LEMMA LoadInvStep == LoadType /\ LoadInv /\ [Next]_vars => LoadInv'
<1> SUFFICES ASSUME LoadType, LoadInv, [Next]_vars PROVE LoadInv'
  OBVIOUS
<1> USE DEF directory, loader, history
<1>1. CASE UNCHANGED <<directory, store, loader, history>>
  BY <1>1 DEF LoadInv
<1>2. ASSUME NEW f \in Files, NEW content \in Contents, Edit(f, content) PROVE LoadInv'
  BY <1>2, TouchStep DEF Edit, LoadType
<1>3. ASSUME NEW f \in Files, NEW g \in Files, Rename(f, g) PROVE LoadInv'
  <2>1. \A h \in Files \ {f, g} : disk'[h] = disk[h]
    BY <1>3 DEF Rename, LoadType
  <2>2. QED
    BY <1>3, <2>1, TouchStep DEF Rename
<1>4. ASSUME NEW l \in Loaders, Reload(l) PROVE LoadInv'
  <2> DEFINE unread == {f \in Files \ Drafts : disk[f] # Absent}
  <2>1. /\ ~loading[l] /\ loading' = [loading EXCEPT ![l] = TRUE]
        /\ paths' = [paths EXCEPT ![l] = unread]
        /\ UNCHANGED <<disk, store, loaded, touched, stale>>
    BY <1>4 DEF Reload
  <2>2. loaded[l] = {} /\ touched[l] = {}
    BY <2>1 DEF LoadInv
  <2>3. Drawn({}, unread, {}, disk)
    BY DrawnAtFirst
  <2>4. unread \subseteq Files \ Drafts
    OBVIOUS
  <2> HIDE DEF unread
  <2>5. QED
    BY <2>1, <2>2, <2>3, <2>4, LoaderMoves DEF LoadType, LoadInv
<1>5. ASSUME NEW l \in Loaders, Read(l) PROVE LoadInv'
  <2> DEFINE f == First(paths[l])
  <2>1. /\ loading[l] /\ paths[l] # {} /\ disk[f] \in Rules /\ ~Duplicate(l, disk[f])
        /\ paths' = [paths EXCEPT ![l] = @ \ {f}]
        /\ loaded' = [loaded EXCEPT ![l] = @ \cup {disk[f]}]
        /\ UNCHANGED <<disk, store, loading, touched, stale>>
    BY <1>5 DEF Read
  <2>2. f \in paths[l] /\ f \in Files \ Drafts
    BY <2>1, FirstIsIn DEF LoadType, LoadInv
  <2> HIDE DEF f
  <2>3. \A r \in loaded[l] : r.id # disk[f].id
    BY <2>1 DEF Duplicate
  <2>4. Drawn(loaded[l], paths[l], touched[l], disk)
    BY <2>1 DEF LoadInv
  <2>5. Drawn(loaded[l] \cup {disk[f]}, paths[l] \ {f}, touched[l], disk)
    BY <2>2, <2>3, <2>4, DrawnOneMore
  <2>6. paths'[l] = paths[l] \ {f} /\ loaded'[l] = loaded[l] \cup {disk[f]}
    BY <2>1 DEF LoadType
  <2>7. QED
    BY <2>1, <2>5, <2>6, LoaderMoves DEF LoadType, LoadInv
<1>6. ASSUME NEW l \in Loaders, ReadFails(l) PROVE LoadInv'
  BY <1>6, LoaderMoves DEF ReadFails, End, LoadType, LoadInv
<1>7. ASSUME NEW l \in Loaders, Swap(l) PROVE LoadInv'
  <2>1. Drawn(loaded[l], {}, touched[l], disk)
    BY <1>7 DEF Swap, LoadInv
  <2>2. QED
    BY <1>7, <2>1, LoaderMoves DEF Swap, End, LoadType, LoadInv
<1>8. CASE (\E e \in Events : Evaluate(e)) \/ Examine \/ Return
  BY <1>1, <1>8 DEF Evaluate, Examine, Return
<1>9. CASE UNCHANGED vars
  BY <1>1, <1>9 DEF vars
<1>10. QED
  BY <1>2, <1>3, <1>4, <1>5, <1>6, <1>7, <1>8, <1>9 DEF Next

LEMMA LoadInvariant == Spec => [](LoadType /\ LoadInv)
  BY LoadTypeInit, LoadTypeStep, LoadInvInit, LoadInvStep, PTL DEF Spec

(* store.py, reload: the files that did not change since the reload began    *)
(* that filled the store have their rules in it, and beside them there is    *)
(* one at most for each file that did change, whatever other reloads do.     *)
THEOREM KeepsStanding == Spec => []StandingRulesKept
<1>1. LoadType /\ LoadInv => StandingRulesKept
  <2> SUFFICES ASSUME LoadType, LoadInv PROVE StandingRulesKept
    OBVIOUS
  <2> DEFINE standing == {disk[f] : f \in Files \ (Drafts \cup stale)} \ {Absent}
  <2>1. standing \subseteq store
    BY DEF LoadInv, Drawn
  <2>2. PICK origin \in [store -> Files \ (Drafts \cup {})] :
          /\ \A r, s \in store : origin[r] = origin[s] => r = s
          /\ \A r \in store : origin[r] \in stale \/ disk[origin[r]] = r
    BY DEF LoadInv, Drawn
  <2>3. \A r \in store \ standing : origin[r] \in stale
    BY <2>2, RulesAssumption DEF RulesAssumption, LoadType
  <2> DEFINE from == [r \in store \ standing |-> origin[r]]
  <2> HIDE DEF standing
  <2>4. from \in Injection(store \ standing, stale)
    BY <2>2, <2>3 DEF Injection, IsInjective
  <2>5. IsFiniteSet(stale)
    BY RulesAssumption, FS_Subset DEF RulesAssumption, LoadType
  <2> HIDE DEF from
  <2>6. Cardinality(store \ standing) <= Cardinality(stale)
    BY <2>4, <2>5, FS_Injection
  <2>7. QED
    BY <2>1, <2>6 DEF StandingRulesKept, standing
<1>2. QED
  BY <1>1, LoadInvariant, PTL

-----------------------------------------------------------------------------
(* The engine. *)
Wins(r) == r.enabled /\ Met(r, event)

Outcomes == {"matched", "skipped", "failed"}

RunType ==
  /\ running \in BOOLEAN
  /\ rules \in Seq(Rules)
  /\ event \in Events
  /\ records \in Seq([id : Nat, outcome : Outcomes])
  /\ matched \in Rules \cup {NoRule}

(* The rules are in order, and so no rule is there twice. *)
InOrder == \A i, j \in DOMAIN rules : i < j => Before(rules[i], rules[j])

Recorded(i) ==
  /\ records[i].id = rules[i].id
  /\ records[i].outcome = "matched" <=> rules[i] = matched
  /\ records[i].outcome = "failed" <=> rules[i].enabled /\ Fails(rules[i], event)

(* The rule that matched is the first, of those examined, that wins. *)
RunInv ==
  /\ UniqueIds(Snapshot)
  /\ InOrder
  /\ Len(records) <= Len(rules)
  /\ ~running => Len(records) = Len(rules)
  /\ \A i \in 1 .. Len(records) : Recorded(i)
  /\ matched = NoRule => \A i \in 1 .. Len(records) : ~Wins(rules[i])
  /\ matched # NoRule =>
       \E m \in 1 .. Len(records) :
         matched = rules[m] /\ Wins(matched) /\ \A i \in 1 .. m - 1 : ~Wins(rules[i])

LEMMA RunInit == Init => RunType /\ RunInv
<1> SUFFICES ASSUME Init PROVE RunType /\ RunInv
  OBVIOUS
<1>1. /\ running = FALSE /\ rules = <<>> /\ event \in Events /\ records = <<>>
      /\ matched = NoRule
  BY DEF Init
<1>2. rules \in Seq(Rules) /\ records \in Seq([id : Nat, outcome : Outcomes])
  BY <1>1
<1>3. DOMAIN rules = {} /\ Len(records) = 0 /\ Len(rules) = 0
  BY <1>1
<1>4. RunType
  BY <1>1, <1>2 DEF RunType
<1>5. UniqueIds(Snapshot) /\ InOrder
  BY <1>3 DEF Snapshot, UniqueIds, InOrder
<1>6. QED
  BY <1>1, <1>3, <1>4, <1>5 DEF RunInv

LEMMA NoRuleIsNone == \A r \in Rules : r # NoRule
  BY RulesAssumption DEF RulesAssumption, NoRule

LEMMA NothingRuns ==
  ASSUME RunType, RunInv, UNCHANGED engine
  PROVE  RunType' /\ RunInv'
  BY DEF engine, RunType, RunInv, Snapshot, InOrder, Recorded, Wins

(* The copy of the store that the engine takes is a sorted list. *)
LEMMA EvaluateStep ==
  ASSUME LoadType, LoadInv, NEW e \in Events, Evaluate(e)
  PROVE  RunType' /\ RunInv'
<1>1. /\ running' = TRUE /\ rules' = Sorted(store) /\ event' = e /\ records' = <<>>
      /\ matched' = NoRule
  BY DEF Evaluate
<1>2. store \in SUBSET Rules /\ IsFiniteSet(store) /\ UniqueIds(store)
  <2>1. Drawn(store, {}, stale, disk)
    BY DEF LoadInv
  <2>2. IsFiniteSet(store)
    BY <2>1, DrawnFinite
  <2>3. QED
    BY <2>1, <2>2 DEF LoadType, Drawn
<1>3. /\ rules' \in [1 .. Cardinality(store) -> store]
      /\ \A i, j \in DOMAIN rules' : i < j => Before(rules'[i], rules'[j])
      /\ Cardinality(store) \in Nat
  BY <1>1, <1>2, SortedList
<1>4. rules' \in Seq(Rules) /\ Len(rules') \in Nat
  <2>1. rules' \in [1 .. Cardinality(store) -> Rules]
    BY <1>2, <1>3
  <2>2. rules' \in Seq(Rules)
    BY <1>3, <2>1
  <2>3. QED
    BY <2>2
<1>5. UniqueIds(Snapshot)'
  BY <1>2, <1>3 DEF UniqueIds, Snapshot
<1>6. records' \in Seq([id : Nat, outcome : Outcomes]) /\ Len(records') = 0
  BY <1>1
<1>7. QED
  BY <1>1, <1>3, <1>4, <1>5, <1>6 DEF RunType, RunInv, InOrder

LEMMA ExamineStep ==
  ASSUME RunType, RunInv, Examine
  PROVE  RunType' /\ RunInv'
<1>1. /\ running /\ Len(records) < Len(rules) /\ UNCHANGED <<running, rules, event>>
  BY DEF Examine
<1>2. Len(records) \in Nat /\ Len(rules) \in Nat /\ DOMAIN rules = 1 .. Len(rules)
  BY DEF RunType
<1>n. PICK n \in Nat : n = Len(records) + 1
  BY <1>2
<1>r. PICK rule \in Rules : rule = rules[n] /\ n \in DOMAIN rules
  BY <1>1, <1>2, <1>n DEF RunType
<1>4. PICK outcome \in Outcomes :
        /\ Record(rule, outcome)
        /\ outcome = "matched" => rule.enabled /\ Met(rule, event) /\ matched = NoRule
        /\ outcome = "matched" => matched' = rule
        /\ outcome # "matched" => matched' = matched /\ (matched = NoRule => ~Wins(rule))
        /\ outcome = "failed" <=> rule.enabled /\ Fails(rule, event)
  <2>1. rule.enabled \in BOOLEAN /\ (Met(rule, event) => ~Fails(rule, event))
    BY <1>r, MetOrFails, RulesAssumption DEF RulesAssumption
  <2>2. \/ ~rule.enabled /\ Record(rule, "skipped") /\ UNCHANGED matched
        \/ rule.enabled /\ Fails(rule, event) /\ Record(rule, "failed") /\ UNCHANGED matched
        \/ /\ rule.enabled /\ Met(rule, event) /\ matched = NoRule
           /\ Record(rule, "matched") /\ matched' = rule
        \/ /\ rule.enabled /\ ~Fails(rule, event) /\ (~Met(rule, event) \/ matched # NoRule)
           /\ Record(rule, "skipped") /\ UNCHANGED matched
    BY <1>n, <1>r DEF Examine
  <2>3. QED
    BY <2>1, <2>2 DEF Wins, Outcomes
<1>5. /\ records' = Append(records, [id |-> rule.id, outcome |-> outcome])
      /\ records' \in Seq([id : Nat, outcome : Outcomes])
      /\ Len(records') = n
      /\ \A i \in 1 .. Len(records) : records'[i] = records[i]
      /\ records'[n] = [id |-> rule.id, outcome |-> outcome]
  <2>1. [id |-> rule.id, outcome |-> outcome] \in [id : Nat, outcome : Outcomes]
    BY <1>r, RulesAssumption DEF RulesAssumption
  <2>2. records' = Append(records, [id |-> rule.id, outcome |-> outcome])
    BY <1>4 DEF Record
  <2>3. QED
    BY <1>2, <1>n, <2>1, <2>2 DEF RunType
<1>6. \A i \in 1 .. Len(records) : rules[i] # rule /\ rules[i] \in Rules
  <2> SUFFICES ASSUME NEW i \in 1 .. Len(records) PROVE rules[i] # rule /\ rules[i] \in Rules
    OBVIOUS
  <2>1. i \in DOMAIN rules /\ i < n
    BY <1>1, <1>2, <1>n
  <2>2. Before(rules[i], rule) /\ rules[i] \in Rules
    BY <1>r, <2>1 DEF RunInv, InOrder, RunType
  <2>3. QED
    BY <1>r, <2>2, BeforeOrders
<1>7. RunType'
  BY <1>1, <1>r, <1>4, <1>5 DEF RunType
<1>8. 1 .. Len(records') = 1 .. Len(records) \cup {n} /\ Len(records') <= Len(rules)
  BY <1>1, <1>2, <1>5, <1>n
<1>9. matched = NoRule \/ \E m \in 1 .. Len(records) : matched = rules[m]
  BY DEF RunInv
<1>10. ASSUME NEW i \in 1 .. Len(records) PROVE Recorded(i)'
  <2>1. Recorded(i) /\ rules[i] # rule /\ rules[i] # NoRule
    BY <1>6, NoRuleIsNone DEF RunInv
  <2>2. matched' = matched \/ (matched = NoRule /\ matched' = rule)
    BY <1>4
  <2>3. QED
    BY <1>1, <1>5, <2>1, <2>2 DEF Recorded
<1>11. Recorded(n)'
  <2>1. rules'[n] = rule
    BY <1>1, <1>r
  <2>2. outcome = "matched" <=> rule = matched'
    BY <1>r, <1>4, <1>6, <1>9, NoRuleIsNone
  <2>3. QED
    BY <1>1, <1>4, <1>5, <2>1, <2>2 DEF Recorded
<1>12. \A i \in 1 .. Len(records') : Recorded(i)'
  BY <1>8, <1>10, <1>11
<1>13. matched' = NoRule => \A i \in 1 .. Len(records') : ~Wins(rules[i])
  <2> SUFFICES ASSUME matched' = NoRule PROVE \A i \in 1 .. Len(records') : ~Wins(rules[i])
    OBVIOUS
  <2>1. outcome # "matched" /\ matched = NoRule
    BY <1>r, <1>4, NoRuleIsNone
  <2>2. ~Wins(rules[n])
    BY <1>4, <1>r, <2>1
  <2>3. \A i \in 1 .. Len(records) : ~Wins(rules[i])
    BY <2>1 DEF RunInv
  <2>4. QED
    BY <1>8, <2>2, <2>3
<1>14. matched' # NoRule =>
         \E m \in 1 .. Len(records') :
           matched' = rules[m] /\ Wins(matched') /\ \A i \in 1 .. m - 1 : ~Wins(rules[i])
  <2>1. CASE outcome = "matched"
    <3>1. matched' = rules[n] /\ Wins(matched')
      BY <1>4, <1>r, <2>1 DEF Wins
    <3>2. \A i \in 1 .. n - 1 : ~Wins(rules[i])
      BY <1>2, <1>4, <1>n, <2>1 DEF RunInv
    <3>3. n \in 1 .. Len(records')
      BY <1>2, <1>8, <1>n
    <3>4. QED
      BY <3>1, <3>2, <3>3
  <2>2. CASE outcome # "matched"
    <3>1. matched' = matched
      BY <1>4, <2>2
    <3>2. QED
      BY <1>8, <3>1 DEF RunInv
  <2>3. QED
    BY <2>1, <2>2
<1>15. Wins(matched)' <=> Wins(matched')
  BY <1>1 DEF Wins
<1>16. \A i : Wins(rules[i])' <=> Wins(rules[i])
  BY <1>1 DEF Wins
<1>17. UniqueIds(Snapshot)' /\ InOrder'
  BY <1>1 DEF RunInv, Snapshot, InOrder
<1>18. QED
  BY <1>1, <1>7, <1>8, <1>12, <1>13, <1>14, <1>15, <1>16, <1>17 DEF RunInv

LEMMA ReturnStep ==
  ASSUME RunType, RunInv, Return
  PROVE  RunType' /\ RunInv'
  BY DEF Return, RunType, RunInv, Snapshot, InOrder, Recorded, Wins

LEMMA RunStep ==
  LoadType /\ LoadInv /\ RunType /\ RunInv /\ [Next]_vars => RunType' /\ RunInv'
<1> SUFFICES ASSUME LoadType, LoadInv, RunType, RunInv, [Next]_vars PROVE RunType' /\ RunInv'
  OBVIOUS
<1>1. ASSUME NEW e \in Events, Evaluate(e) PROVE RunType' /\ RunInv'
  BY <1>1, EvaluateStep
<1>2. ASSUME NEW l \in Loaders, Reload(l) \/ Read(l) \/ ReadFails(l) \/ Swap(l)
      PROVE  UNCHANGED engine
  BY <1>2 DEF Reload, Read, ReadFails, Swap, End
<1>3. ASSUME NEW f \in Files, NEW content \in Contents, Edit(f, content)
      PROVE  UNCHANGED engine
  BY <1>3 DEF Edit, Touch
<1>4. ASSUME NEW f \in Files, NEW g \in Files, Rename(f, g) PROVE UNCHANGED engine
  BY <1>4 DEF Rename, Touch
<1>5. UNCHANGED vars => UNCHANGED engine
  BY DEF vars
<1>6. QED
  BY <1>1, <1>2, <1>3, <1>4, <1>5, NothingRuns, ExamineStep, ReturnStep DEF Next

(* Everything that is known of a state. *)
RulesInv == LoadType /\ LoadInv /\ RunType /\ RunInv

LEMMA RulesInvariant == Spec => []RulesInv
<1>1. Init => RunType /\ RunInv
  BY RunInit
<1>2. RulesInv <=> (LoadType /\ LoadInv) /\ RunType /\ RunInv
  BY DEF RulesInv
<1>3. QED
  BY <1>1, <1>2, RunStep, LoadInvariant, PTL DEF Spec

(* Type correctness of every state: the engine has a list to run, which is   *)
(* not obvious of a sort (SortedList).                                       *)
THEOREM TypeCorrect == Spec => []TypeOK
<1>1. RulesInv => TypeOK
  BY DEF RulesInv, LoadType, RunType, Outcomes, TypeOK
<1>2. QED
  BY <1>1, RulesInvariant, PTL

(* loader.py, load_rules_from_dir: an identifier is one rule, in the store   *)
(* and in what the engine took from it, however the files change and however *)
(* many reloads there are.                                                   *)
THEOREM Unique == Spec => []IdsUnique
<1>1. RulesInv => IdsUnique
  BY DEF RulesInv, LoadInv, Drawn, RunInv, UniqueIds, IdsUnique
<1>2. QED
  BY <1>1, RulesInvariant, PTL

(* engine.py, evaluate: the winner is the best of the rules that are enabled *)
(* and whose conditions hold.                                                *)
THEOREM BestWins == Spec => []WinnerIsBest
<1>1. RulesInv => WinnerIsBest
  <2> SUFFICES ASSUME RulesInv, ~running PROVE
        \/ Candidates = {} /\ matched = NoRule
        \/ matched \in Candidates /\ \A r \in Candidates \ {matched} : Before(matched, r)
    BY DEF WinnerIsBest
  <2>1. DOMAIN rules = 1 .. Len(records) /\ Len(records) \in Nat
    BY DEF RulesInv, RunType, RunInv
  <2>2. Candidates = {r \in Snapshot : Wins(r)}
    BY DEF Candidates, Wins
  <2>3. CASE matched = NoRule
    BY <2>1, <2>2, <2>3 DEF RulesInv, RunInv, Snapshot
  <2>4. CASE matched # NoRule
    <3>1. PICK m \in 1 .. Len(records) :
            matched = rules[m] /\ Wins(matched) /\ \A i \in 1 .. m - 1 : ~Wins(rules[i])
      BY <2>4 DEF RulesInv, RunInv
    <3>2. matched \in Candidates
      BY <2>1, <2>2, <3>1 DEF Snapshot
    <3>3. ASSUME NEW r \in Candidates \ {matched} PROVE Before(matched, r)
      <4>1. PICK i \in 1 .. Len(records) : r = rules[i] /\ Wins(r)
        BY <2>1, <2>2 DEF Snapshot
      <4>2. m < i
        BY <2>1, <3>1, <3>3, <4>1
      <4>3. QED
        BY <2>1, <3>1, <4>1, <4>2 DEF RulesInv, RunInv, InOrder
    <3>4. QED
      BY <3>2, <3>3
  <2>5. QED
    BY <2>3, <2>4
<1>2. QED
  BY <1>1, RulesInvariant, PTL

(* engine.py, evaluate, INV-4: every rule of the list has its record, in its *)
(* place, and the record says what happened.                                 *)
THEOREM AllRecorded == Spec => []EveryRuleRecorded
<1>1. RulesInv => EveryRuleRecorded
  BY DEF RulesInv, RunType, RunInv, Recorded, EveryRuleRecorded
<1>2. QED
  BY <1>1, RulesInvariant, PTL
=============================================================================
