-------------------------- MODULE ThumbnailsProofs --------------------------
(***************************************************************************)
(* What the miniatures of the pages keep for every choice of page counts,  *)
(* capacity, slots and bounds: the pictures are of the present opening,    *)
(* the list shows what the bounded cache holds, and every slot that is     *)
(* held has a task or an answer that frees it.                             *)
(*                                                                         *)
(* The sequences of the model are cut with At: its elements are those at   *)
(* the places taken, once each and in order.  From this follow what        *)
(* touching the cache, adding a picture to it, queueing pages and filling  *)
(* the free slots leave true, and from these the steps.                    *)
(***************************************************************************)
EXTENDS Thumbnails, FiniteSetTheorems, SequenceTheorems, TLAPS

-----------------------------------------------------------------------------
(* The ranks of the elements of a set of numbers.                           *)
LEMMA Ranks ==
  ASSUME NEW S \in SUBSET Nat, IsFiniteSet(S)
  PROVE  /\ Cardinality(S) \in Nat
         /\ Ascending(S) \in [1 .. Cardinality(S) -> S]
         /\ \A x \in S : \E n \in 1 .. Cardinality(S) : Ascending(S)[n] = x
         /\ \A m, n \in 1 .. Cardinality(S) : Ascending(S)[m] = Ascending(S)[n] => m = n
         /\ S # {} => \E x \in S : \A y \in S : y <= x
<1> DEFINE size == Cardinality(S)
           Before(x) == {y \in S : y <= x}
           rank == [x \in S |-> Cardinality(Before(x))]
           nth == [n \in 1 .. size |-> CHOOSE x \in S : Cardinality(Before(x)) = n]
<1>1. size \in Nat BY FS_CardinalityType
<1>2. \A x \in S : /\ Before(x) \in SUBSET S /\ x \in Before(x)
                   /\ IsFiniteSet(Before(x)) /\ Cardinality(Before(x)) \in 1 .. size
  <2> TAKE x \in S
  <2>1. Before(x) \in SUBSET S /\ x \in Before(x) OBVIOUS
  <2>2. IsFiniteSet(Before(x)) /\ Cardinality(Before(x)) <= size BY <2>1, FS_Subset
  <2>3. Cardinality(Before(x)) \in Nat /\ Cardinality(Before(x)) # 0
    BY <2>1, <2>2, FS_CardinalityType, FS_EmptySet
  <2> QED BY <1>1, <2>1, <2>2, <2>3
<1>3. \A x, y \in S : x < y => Cardinality(Before(x)) # Cardinality(Before(y))
  <2> SUFFICES ASSUME NEW x \in S, NEW y \in S, x < y,
                      Cardinality(Before(x)) = Cardinality(Before(y))
               PROVE  FALSE
    OBVIOUS
  <2>1. x \in Nat /\ y \in Nat OBVIOUS
  <2>2. \A k \in S : k <= x => k <= y BY <2>1
  <2>3. ~(y <= x) BY <2>1
  <2>4. Before(x) \in SUBSET Before(y) /\ y \notin Before(x) BY <2>2, <2>3
  <2>5. Before(x) = Before(y) BY <1>2, <2>4, FS_Subset
  <2> QED BY <1>2, <2>4, <2>5
<1>4. Ascending(S) = nth BY DEF Ascending
<1>5. \A x \in S : Before(x) = S => \A y \in S : y <= x OBVIOUS
<1> HIDE DEF Before
<1>6. \A x, y \in S : rank[x] = rank[y] => x = y
  <2> SUFFICES ASSUME NEW x \in S, NEW y \in S, rank[x] = rank[y] PROVE x = y OBVIOUS
  <2>1. Cardinality(Before(x)) = Cardinality(Before(y)) OBVIOUS
  <2>2. x \in Nat /\ y \in Nat OBVIOUS
  <2> QED BY <1>3, <2>1, <2>2
<1>7. rank \in Injection(S, 1 .. size)
  <2>1. rank \in [S -> 1 .. size] BY <1>2
  <2> QED BY <1>6, <2>1 DEF Injection, IsInjective
<1>8. IsFiniteSet(1 .. size) /\ Cardinality(1 .. size) = size BY <1>1, FS_Interval
<1>9. rank \in Surjection(S, 1 .. size) BY <1>7, <1>8, FS_Injection
<1>10. \A n \in 1 .. size : \E x \in S : rank[x] = n BY <1>9 DEF Surjection
<1>11. \A n \in 1 .. size : nth[n] \in S /\ rank[nth[n]] = n BY <1>10
<1>12. \A x \in S : rank[x] \in 1 .. size BY <1>2
<1>13. \A x \in S : nth[rank[x]] = x
  <2> TAKE x \in S
  <2>1. nth[rank[x]] \in S /\ rank[nth[rank[x]]] = rank[x] BY <1>11, <1>12
  <2> QED BY <1>6, <2>1
<1>14. ASSUME S # {} PROVE \E x \in S : \A y \in S : y <= x
  <2>1. size # 0 BY <1>14, FS_EmptySet
  <2>2. size \in 1 .. size BY <1>1, <2>1
  <2>3. PICK x \in S : rank[x] = size BY <1>10, <2>2
  <2>4. Cardinality(Before(x)) = Cardinality(S) BY <2>3
  <2>5. Before(x) = S BY <1>2, <2>4, FS_Subset
  <2> QED BY <1>5, <2>5
<1>15. nth \in [1 .. size -> S] BY <1>11
<1>16. DOMAIN rank = S OBVIOUS
<1> HIDE DEF nth, rank
<1>17. \A x \in S : \E n \in 1 .. size : nth[n] = x BY <1>12, <1>13
<1>18. \A m, n \in 1 .. size : nth[m] = nth[n] => m = n BY <1>11
<1> QED BY <1>1, <1>4, <1>14, <1>15, <1>17, <1>18

(* What stands at some places of a sequence: those elements, in a sequence of their
   number, no place twice. *)
LEMMA Picked ==
  ASSUME NEW T, NEW seq \in Seq(T), NEW places, places \subseteq DOMAIN seq
  PROVE  /\ At(seq, places) \in Seq(T)
         /\ IsFiniteSet(places)
         /\ Len(At(seq, places)) = Cardinality(places)
         /\ Cardinality(places) \in Nat
         /\ Members(At(seq, places)) = {seq[i] : i \in places}
         /\ \E place \in [1 .. Cardinality(places) -> places] :
              /\ \A n \in 1 .. Cardinality(places) : At(seq, places)[n] = seq[place[n]]
              /\ \A m, n \in 1 .. Cardinality(places) : place[m] = place[n] => m = n
<1> DEFINE size == Cardinality(places)
           place == Ascending(places)
           picked == [n \in 1 .. size |-> seq[place[n]]]
<1>1. DOMAIN seq = 1 .. Len(seq) /\ Len(seq) \in Nat OBVIOUS
<1>2. places \in SUBSET Nat /\ IsFiniteSet(places)
  <2>1. IsFiniteSet(1 .. Len(seq)) BY <1>1, FS_Interval
  <2> QED BY <1>1, <2>1, FS_Subset
<1>3. /\ size \in Nat /\ place \in [1 .. size -> places]
      /\ \A i \in places : \E n \in 1 .. size : place[n] = i
      /\ \A m, n \in 1 .. size : place[m] = place[n] => m = n
  BY <1>2, Ranks
<1>4. At(seq, places) = picked BY <1>3 DEF At
<1> HIDE DEF place, size
<1>5. \A i \in places : seq[i] \in T BY <1>1
<1>6. picked \in [1 .. size -> T] BY <1>3, <1>5
<1>7. picked \in Seq(T) /\ Len(picked) = size BY <1>3, <1>6
<1>8. Members(picked) = {seq[i] : i \in places} BY <1>3 DEF Members
<1>9. \A n \in 1 .. size : picked[n] = seq[place[n]] OBVIOUS
<1> HIDE DEF picked
<1> QED BY <1>2, <1>3, <1>4, <1>7, <1>8, <1>9 DEF size

LEMMA Joined ==
  ASSUME NEW T, NEW x \in Seq(T), NEW y \in Seq(T)
  PROVE  /\ x \o y \in Seq(T) /\ Len(x \o y) = Len(x) + Len(y)
         /\ Members(x \o y) = Members(x) \cup Members(y)
<1>1. /\ x \o y \in Seq(T) /\ Len(x \o y) = Len(x) + Len(y) /\ DOMAIN (x \o y) = 1 .. Len(x) + Len(y)
      /\ DOMAIN x = 1 .. Len(x) /\ DOMAIN y = 1 .. Len(y) /\ Len(x) \in Nat /\ Len(y) \in Nat
  OBVIOUS
<1>2. \A i \in 1 .. Len(x) : i \in 1 .. Len(x) + Len(y) /\ (x \o y)[i] = x[i] BY <1>1
<1>3. \A i \in 1 .. Len(y) : Len(x) + i \in 1 .. Len(x) + Len(y) /\ (x \o y)[Len(x) + i] = y[i]
  BY <1>1
<1>4. ASSUME NEW i \in 1 .. Len(x) + Len(y), ~(i <= Len(x))
      PROVE  i - Len(x) \in 1 .. Len(y) /\ (x \o y)[i] = y[i - Len(x)]
  BY <1>1, <1>4
<1>5. \A i \in 1 .. Len(x) + Len(y) : i <= Len(x) => i \in 1 .. Len(x) BY <1>1
<1>6. \A i \in 1 .. Len(x) + Len(y) : (x \o y)[i] \in Members(x) \cup Members(y)
  BY <1>1, <1>2, <1>4, <1>5 DEF Members
<1>7. \A i \in 1 .. Len(x) : x[i] \in Members(x \o y) BY <1>1, <1>2 DEF Members
<1>8. \A i \in 1 .. Len(y) : y[i] \in Members(x \o y) BY <1>1, <1>3 DEF Members
<1> QED BY <1>1, <1>6, <1>7, <1>8, Zenon DEF Members

LEMMA Places ==
  ASSUME NEW T, NEW seq \in Seq(T)
  PROVE  /\ DOMAIN seq = 1 .. Len(seq) /\ Len(seq) \in Nat
         /\ IsFiniteSet(1 .. Len(seq)) /\ Cardinality(1 .. Len(seq)) = Len(seq)
<1>1. DOMAIN seq = 1 .. Len(seq) /\ Len(seq) \in Nat OBVIOUS
<1> QED BY <1>1, FS_Interval

-----------------------------------------------------------------------------
(* The cache.                                                               *)
LEMMA Withdrawn ==
  ASSUME NEW cache \in Seq(Pictures), NEW set
  PROVE  /\ Without(cache, set) \in Seq(Pictures)
         /\ Members(Without(cache, set)) = {k \in Members(cache) : k.page \notin set}
         /\ KeptPages(Without(cache, set)) = KeptPages(cache) \ set
         /\ Len(Without(cache, set)) =
              Cardinality({i \in DOMAIN cache : cache[i].page \notin set})
<1> DEFINE places == {i \in DOMAIN cache : cache[i].page \notin set}
           rest == Without(cache, set)
<1>1. rest = At(cache, places) BY DEF Without
<1>2. rest \in Seq(Pictures) /\ Len(rest) = Cardinality(places)
      /\ Members(rest) = {cache[i] : i \in places}
  <2>1. places \subseteq DOMAIN cache OBVIOUS
  <2> HIDE DEF places
  <2> QED BY <1>1, <2>1, Picked
<1>3. Members(rest) = {k \in Members(cache) : k.page \notin set} BY <1>2 DEF Members
<1> HIDE DEF rest
<1>4. KeptPages(rest) = {k.page : k \in Members(rest)} BY DEF KeptPages, Members
<1>5. KeptPages(cache) = {k.page : k \in Members(cache)} BY DEF KeptPages, Members
<1> QED BY <1>2, <1>3, <1>4, <1>5 DEF rest

(* A page in the cache has its picture there. *)
LEMMA Entered ==
  ASSUME NEW cache, NEW p \in KeptPages(cache)
  PROVE  Entry(cache, p) \in Members(cache) /\ Entry(cache, p).page = p
<1>1. \E k \in Members(cache) : k.page = p BY DEF KeptPages, Members
<1> QED BY <1>1 DEF Entry

(* Reading the cache moves its pictures and changes nothing else. *)
LEMMA Touched ==
  ASSUME NEW cache \in Seq(Pictures), NEW asked \in Seq(Pages)
  PROVE  /\ Touch(cache, asked) \in Seq(Pictures)
         /\ Members(Touch(cache, asked)) \subseteq Members(cache)
         /\ KeptPages(Touch(cache, asked)) = KeptPages(cache)
         /\ Len(Touch(cache, asked)) <= Len(cache)
<1> DEFINE lasts == {i \in DOMAIN asked : /\ asked[i] \in KeptPages(cache)
                                          /\ \A j \in i + 1 .. Len(asked) : asked[j] # asked[i]}
           again == At(asked, lasts)
           read == [n \in DOMAIN again |-> Entry(cache, again[n])]
           rest == Without(cache, Members(asked))
           left == {i \in DOMAIN cache : cache[i].page \notin Members(asked)}
           moved == {i \in DOMAIN cache : cache[i].page \in Members(asked)}
<1>1. Touch(cache, asked) = rest \o read BY DEF Touch
<1>2. DOMAIN asked = 1 .. Len(asked) /\ Len(asked) \in Nat /\ DOMAIN cache = 1 .. Len(cache)
      /\ Len(cache) \in Nat
  OBVIOUS
<1>3. /\ rest \in Seq(Pictures) /\ Members(rest) \subseteq Members(cache)
      /\ KeptPages(rest) = KeptPages(cache) \ Members(asked) /\ Len(rest) = Cardinality(left)
  <2> HIDE DEF lasts, again, read, moved
  <2>1. Members(rest) = {k \in Members(cache) : k.page \notin Members(asked)} BY Withdrawn
  <2>2. rest \in Seq(Pictures) /\ KeptPages(rest) = KeptPages(cache) \ Members(asked) BY Withdrawn
  <2>3. Len(rest) = Cardinality(left) BY Withdrawn
  <2> HIDE DEF rest, left
  <2> QED BY <2>1, <2>2, <2>3
<1>4. \A i \in lasts : asked[i] \in KeptPages(cache) OBVIOUS
<1>5. \A i, j \in lasts : i < j => asked[i] # asked[j]
  <2> SUFFICES ASSUME NEW i \in lasts, NEW j \in lasts, i < j PROVE asked[j] # asked[i] OBVIOUS
  <2>1. j \in i + 1 .. Len(asked) BY <1>2
  <2> QED BY <2>1
<1>6. lasts \subseteq DOMAIN asked OBVIOUS
<1>7. ASSUME NEW p \in KeptPages(cache) \cap Members(asked) PROVE \E i \in lasts : asked[i] = p
  <2> DEFINE at == {i \in DOMAIN asked : asked[i] = p}
  <2>1. at \in SUBSET Nat /\ at \subseteq 1 .. Len(asked) BY <1>2
  <2>2. IsFiniteSet(at)
    <3>1. IsFiniteSet(1 .. Len(asked)) BY <1>2, FS_Interval
    <3> QED BY <2>1, <3>1, FS_Subset
  <2>3. at # {} BY <1>7 DEF Members
  <2>4. PICK i \in at : \A j \in at : j <= i
    <3> HIDE DEF at
    <3> QED BY <2>1, <2>2, <2>3, Ranks
  <2>5. \A j \in i + 1 .. Len(asked) : asked[j] # asked[i] BY <1>2, <2>4
  <2>6. i \in lasts /\ asked[i] = p BY <1>7, <2>4, <2>5
  <2> QED BY <2>6
<1> HIDE DEF lasts
<1>8. /\ again \in Seq(Pages) /\ Len(again) = Cardinality(lasts) /\ IsFiniteSet(lasts)
      /\ Members(again) = {asked[i] : i \in lasts} /\ Cardinality(lasts) \in Nat
  BY <1>6, Picked
<1> HIDE DEF again, rest
<1>9. Members(again) = KeptPages(cache) \cap Members(asked)
  BY <1>4, <1>6, <1>7, <1>8 DEF Members
<1>10. \A n \in DOMAIN again : again[n] \in KeptPages(cache) BY <1>9 DEF Members
<1>11. \A n \in DOMAIN again : read[n] \in Members(cache) /\ read[n].page = again[n]
  BY <1>10, Entered
<1>12. DOMAIN again = 1 .. Cardinality(lasts) BY <1>8
<1>13. Members(cache) \subseteq Pictures BY <1>2 DEF Members
<1>14. read \in [1 .. Cardinality(lasts) -> Pictures]
  <2>1. \A n \in 1 .. Cardinality(lasts) : Entry(cache, again[n]) \in Pictures
    BY <1>11, <1>12, <1>13
  <2> QED BY <1>12, <2>1
<1>15. DOMAIN read = DOMAIN again OBVIOUS
<1> HIDE DEF read
<1>16. read \in Seq(Pictures) /\ Len(read) = Cardinality(lasts) BY <1>8, <1>14
<1>17. Members(read) \subseteq Members(cache) BY <1>11, <1>15 DEF Members
<1>18. KeptPages(read) = Members(again) BY <1>11, <1>15 DEF KeptPages, Members
<1>19. /\ rest \o read \in Seq(Pictures) /\ Len(rest \o read) = Len(rest) + Len(read)
       /\ Members(rest \o read) = Members(rest) \cup Members(read)
  BY <1>3, <1>16, Joined
<1>20. KeptPages(rest \o read) = KeptPages(rest) \cup KeptPages(read)
  <2>1. KeptPages(rest \o read) = {k.page : k \in Members(rest \o read)} BY DEF KeptPages, Members
  <2>2. KeptPages(rest) = {k.page : k \in Members(rest)} BY DEF KeptPages, Members
  <2>3. KeptPages(read) = {k.page : k \in Members(read)} BY DEF KeptPages, Members
  <2> QED BY <1>19, <2>1, <2>2, <2>3
(* The pages read again had as many places in the cache. *)
<1>21. Cardinality(lasts) <= Cardinality(moved) /\ IsFiniteSet(moved)
  <2>1. \A i \in lasts : \E k \in moved : cache[k].page = asked[i]
    BY <1>4, <1>6 DEF KeptPages, Members
  <2>2. moved \subseteq 1 .. Len(cache) BY <1>2
  <2>3. IsFiniteSet(moved)
    <3>1. IsFiniteSet(1 .. Len(cache)) BY <1>2, FS_Interval
    <3> QED BY <2>2, <3>1, FS_Subset
  <2> HIDE DEF moved
  <2> DEFINE where == [i \in lasts |-> CHOOSE k \in moved : cache[k].page = asked[i]]
  <2>4. \A i \in lasts : where[i] \in moved /\ cache[where[i]].page = asked[i] BY <2>1
  <2>5. where \in [lasts -> moved] BY <2>4
  <2> HIDE DEF where
  <2>6. \A i, j \in lasts : where[i] = where[j] => i = j
    <3> SUFFICES ASSUME NEW i \in lasts, NEW j \in lasts, where[i] = where[j] PROVE i = j OBVIOUS
    <3>1. asked[i] = asked[j] BY <2>4
    <3>2. i \in Nat /\ j \in Nat BY <1>2, <1>6
    <3> QED BY <1>5, <3>1, <3>2
  <2>7. where \in Injection(lasts, moved) BY <2>5, <2>6 DEF Injection, IsInjective
  <2> QED BY <2>3, <2>7, FS_Injection
<1>22. Cardinality(left) + Cardinality(moved) = Len(cache)
  <2>1. left \cup moved = 1 .. Len(cache) /\ left \cap moved = {} BY <1>2
  <2>2. IsFiniteSet(1 .. Len(cache)) /\ Cardinality(1 .. Len(cache)) = Len(cache)
    BY Places
  <2>7. left \in SUBSET (1 .. Len(cache)) BY <2>1
  <2> HIDE DEF left, moved
  <2>3. IsFiniteSet(left) BY <2>7, <2>2, FS_Subset
  <2>4. Cardinality(left \cup moved)
          = Cardinality(left) + Cardinality(moved) - Cardinality(left \cap moved)
    BY <1>21, <2>3, FS_Union
  <2>5. Cardinality(left) \in Nat /\ Cardinality(moved) \in Nat
    BY <1>21, <2>3, FS_CardinalityType
  <2>6. Cardinality(left \cap moved) = 0 BY <2>1, FS_EmptySet
  <2>8. Cardinality(left \cup moved) = Len(cache) BY <2>1, <2>2, Zenon
  <2>9. Len(cache) = Cardinality(left) + Cardinality(moved) - 0 BY <2>4, <2>6, <2>8, Zenon
  <2> QED BY <2>5, <2>9
<1>23. Cardinality(left) \in Nat /\ Cardinality(moved) \in Nat
  <2>1. Cardinality(left) \in Nat BY <1>3
  <2>2. Cardinality(moved) \in Nat BY <1>21, FS_CardinalityType
  <2> QED BY <2>1, <2>2
<1> HIDE DEF left, moved
<1>24. Len(rest \o read) <= Len(cache) BY <1>2, <1>3, <1>8, <1>16, <1>19, <1>21, <1>22, <1>23
<1> QED BY <1>1, <1>3, <1>9, <1>17, <1>18, <1>19, <1>20, <1>24

(* A picture that joins the cache is kept, and no more than Capacity are. *)
LEMMA Joins ==
  ASSUME NEW cache \in Seq(Pictures), Len(cache) <= Capacity, NEW picture \in Pictures
  PROVE  /\ Put(cache, picture) \in Seq(Pictures)
         /\ Members(Put(cache, picture)) \subseteq Members(cache) \cup {picture}
         /\ picture.page \in KeptPages(Put(cache, picture))
         /\ KeptPages(Put(cache, picture)) \subseteq KeptPages(cache) \cup {picture.page}
         /\ Len(Put(cache, picture)) <= Capacity
<1> DEFINE rest == Without(cache, {picture.page})
           all == rest \o <<picture>>
           places == {i \in DOMAIN cache : cache[i].page \notin {picture.page}}
<1>1. rest \in Seq(Pictures) /\ Members(rest) \subseteq Members(cache)
      /\ Len(rest) = Cardinality(places)
  BY Withdrawn
<1>2. Cardinality(places) <= Len(cache) /\ Len(cache) \in Nat
  <2>1. places \subseteq 1 .. Len(cache) /\ Len(cache) \in Nat OBVIOUS
  <2>2. IsFiniteSet(1 .. Len(cache)) /\ Cardinality(1 .. Len(cache)) = Len(cache)
    BY Places
  <2> HIDE DEF places
  <2> QED BY <2>1, <2>2, FS_Subset
<1>3. Len(rest) \in Nat /\ Len(rest) <= Len(cache) BY <1>1, <1>2
<1> HIDE DEF rest, places
<1>4. <<picture>> \in Seq(Pictures) /\ Len(<<picture>>) = 1 /\ Members(<<picture>>) = {picture}
  BY DEF Members
<1>5. all \in Seq(Pictures) /\ Len(all) = Len(rest) + 1 /\ Members(all) = Members(rest) \cup {picture}
  <2> DEFINE single == <<picture>>
  <2>1. single \in Seq(Pictures) /\ Len(single) = 1 /\ Members(single) = {picture} BY <1>4
  <2> HIDE DEF single, all
  <2>3. rest \in Seq(Pictures) /\ single \in Seq(Pictures) BY <1>1, <2>1
  <2>2. /\ rest \o single \in Seq(Pictures) /\ Len(rest \o single) = Len(rest) + Len(single)
        /\ Members(rest \o single) = Members(rest) \cup Members(single)
    BY <2>3, Joined
  <2> QED BY <2>1, <2>2 DEF single, all
<1>6. all[Len(all)] = picture BY <1>1, <1>5
<1> HIDE DEF all
<1>7. Put(cache, picture) = IF Len(all) <= Capacity THEN all ELSE Tail(all)
  BY DEF Put, all, rest
<1>8. Capacity \in Nat /\ Capacity >= 1 BY LimitsAssumption
<1>9. CASE Len(all) <= Capacity
  <2>1. picture.page \in KeptPages(all) BY <1>3, <1>5, <1>6 DEF KeptPages
  <2>2. KeptPages(all) = {k.page : k \in Members(all)} BY DEF KeptPages, Members
  <2>3. KeptPages(cache) = {k.page : k \in Members(cache)} BY DEF KeptPages, Members
  <2> QED BY <1>1, <1>5, <1>7, <1>9, <2>1, <2>2, <2>3
<1>10. CASE ~(Len(all) <= Capacity)
  <2> DEFINE tail == Tail(all)
  <2>1. Len(all) >= 2 BY <1>3, <1>5, <1>8, <1>10
  <2>2. /\ tail \in Seq(Pictures) /\ Len(tail) = Len(all) - 1
        /\ \A i \in 1 .. Len(all) - 1 : tail[i] = all[i + 1]
    BY <1>3, <1>5, <2>1
  <2>3. DOMAIN tail = 1 .. Len(all) - 1 /\ DOMAIN all = 1 .. Len(all) BY <1>5, <2>2
  <2>4. \A i \in DOMAIN tail : i + 1 \in DOMAIN all /\ tail[i] = all[i + 1]
    BY <1>3, <1>5, <2>2, <2>3
  <2> HIDE DEF tail
  <2>5. Members(tail) \subseteq Members(all) BY <2>4 DEF Members
  <2>6. Len(all) - 1 \in DOMAIN tail /\ tail[Len(all) - 1] = picture
    BY <1>3, <1>5, <1>6, <2>1, <2>2, <2>3
  <2>7. picture.page \in KeptPages(tail) BY <2>6 DEF KeptPages
  <2>8. KeptPages(tail) = {k.page : k \in Members(tail)} BY DEF KeptPages, Members
  <2>9. KeptPages(cache) = {k.page : k \in Members(cache)} BY DEF KeptPages, Members
  <2>10. Len(tail) <= Capacity BY <1>2, <1>3, <1>5, <1>8, <2>2
  <2>11. Put(cache, picture) = tail BY <1>7, <1>10 DEF tail
  <2>12. Members(tail) \subseteq Members(cache) \cup {picture} BY <1>1, <1>5, <2>5
  <2>13. KeptPages(tail) \subseteq KeptPages(cache) \cup {picture.page} BY <2>8, <2>9, <2>12
  <2> QED BY <2>2, <2>7, <2>10, <2>11, <2>12, <2>13
<1> QED BY <1>9, <1>10

-----------------------------------------------------------------------------
(* The scheduler.                                                           *)
Requests == [page : Pages, priority : 0 .. 2]

Distinct(q) == \A i, j \in DOMAIN q : q[i].page = q[j].page => i = j

\* A queue beside the slots taken and the pictures kept.
Waits(q, busy, cache) ==
  /\ q \in Seq(Requests) /\ Distinct(q)
  /\ QueuedPages(q) \cap busy = {}
  /\ QueuedPages(q) \cap KeptPages(cache) = {}

LEMMA PagesAreNumbers == Pages \subseteq Nat \ {0} /\ IsFiniteSet(Pages)
<1>1. PageCounts \subseteq Nat \ {0} /\ IsFiniteSet(PageCounts) BY PagesAssumption
<1>2. \A n \in PageCounts : 1 .. n \subseteq Nat \ {0} BY <1>1
<1>3. \A n \in PageCounts : IsFiniteSet(1 .. n)
  <2> TAKE n \in PageCounts
  <2>1. 1 \in Int /\ n \in Int BY <1>1
  <2> QED BY <2>1, FS_Interval
<1> DEFINE intervals == {1 .. n : n \in PageCounts}
           intervalOf == [n \in PageCounts |-> 1 .. n]
<1>4. intervalOf \in Surjection(PageCounts, intervals) BY DEF Surjection
<1>5. \A T \in intervals : IsFiniteSet(T) BY <1>3
<1> HIDE DEF intervalOf
<1>6. IsFiniteSet(intervals)
  <2> HIDE DEF intervals
  <2> QED BY <1>1, <1>4, FS_Surjection
<1>7. Pages = UNION intervals BY DEF Pages
<1>8. IsFiniteSet(Pages)
  <2> HIDE DEF intervals
  <2> QED BY <1>5, <1>6, <1>7, FS_UNION
<1>9. Pages \subseteq Nat \ {0} BY <1>2, <1>7
<1> QED BY <1>8, <1>9

(* Each page that is asked for and not busy comes once. *)
LEMMA AskedOnce ==
  ASSUME NEW asked \in Seq(Pages), NEW busy
  PROVE  /\ Fresh(asked, busy) \in Seq(Pages)
         /\ Members(Fresh(asked, busy)) \subseteq Members(asked) \ busy
         /\ \A i, j \in DOMAIN Fresh(asked, busy) :
              Fresh(asked, busy)[i] = Fresh(asked, busy)[j] => i = j
<1> DEFINE firsts == {i \in DOMAIN asked : /\ asked[i] \notin busy
                                           /\ \A j \in 1 .. i - 1 : asked[j] # asked[i]}
           fresh == At(asked, firsts)
<1>1. DOMAIN asked = 1 .. Len(asked) /\ Len(asked) \in Nat OBVIOUS
<1>2. \A i, j \in firsts : asked[i] = asked[j] => i = j
  <2>1. ASSUME NEW i \in firsts, NEW j \in firsts, i < j PROVE asked[i] # asked[j]
    <3>1. i \in 1 .. j - 1 BY <1>1, <2>1
    <3> QED BY <3>1
  <2>2. \A i, j \in firsts : i = j \/ i < j \/ j < i BY <1>1
  <2> HIDE DEF firsts
  <2> QED BY <2>1, <2>2
<1>3. \A i \in firsts : asked[i] \in Members(asked) /\ asked[i] \notin busy BY DEF Members
<1>4. firsts \subseteq DOMAIN asked OBVIOUS
<1>5. Fresh(asked, busy) = fresh BY DEF Fresh
<1> HIDE DEF firsts
<1> DEFINE size == Cardinality(firsts)
<1>6. /\ fresh \in Seq(Pages) /\ Len(fresh) = size /\ size \in Nat
      /\ Members(fresh) = {asked[i] : i \in firsts}
      /\ \E place \in [1 .. size -> firsts] :
           /\ \A n \in 1 .. size : fresh[n] = asked[place[n]]
           /\ \A m, n \in 1 .. size : place[m] = place[n] => m = n
  BY <1>4, Picked
<1> HIDE DEF fresh, size
<1>7. PICK place \in [1 .. size -> firsts] :
        /\ \A n \in 1 .. size : fresh[n] = asked[place[n]]
        /\ \A m, n \in 1 .. size : place[m] = place[n] => m = n
  BY <1>6
<1>8. DOMAIN fresh = 1 .. size BY <1>6
<1>9. \A i, j \in DOMAIN fresh : fresh[i] = fresh[j] => i = j BY <1>2, <1>7, <1>8
<1>10. Members(fresh) \subseteq Members(asked) \ busy BY <1>3, <1>6
<1> QED BY <1>5, <1>6, <1>9, <1>10

(* Requests that are cut from a queue. *)
LEMMA CutFromQueue ==
  ASSUME NEW q \in Seq(Requests), Distinct(q), NEW places, places \subseteq DOMAIN q
  PROVE  /\ At(q, places) \in Seq(Requests) /\ Distinct(At(q, places))
         /\ QueuedPages(At(q, places)) = {q[i].page : i \in places}
<1> DEFINE size == Cardinality(places)
           cut == At(q, places)
<1>1. /\ cut \in Seq(Requests) /\ Len(cut) = size /\ size \in Nat
      /\ Members(cut) = {q[i] : i \in places}
      /\ \E place \in [1 .. size -> places] :
           /\ \A n \in 1 .. size : cut[n] = q[place[n]]
           /\ \A m, n \in 1 .. size : place[m] = place[n] => m = n
  BY Picked
<1> HIDE DEF cut, size
<1>2. PICK place \in [1 .. size -> places] :
        /\ \A n \in 1 .. size : cut[n] = q[place[n]]
        /\ \A m, n \in 1 .. size : place[m] = place[n] => m = n
  BY <1>1
<1>3. DOMAIN cut = 1 .. size BY <1>1
<1>4. Distinct(cut) BY <1>2, <1>3 DEF Distinct
<1>5. QueuedPages(cut) = {k.page : k \in Members(cut)} BY DEF QueuedPages, Members
<1>6. QueuedPages(cut) = {q[i].page : i \in places} BY <1>1, <1>5
<1> QED BY <1>1, <1>4, <1>6 DEF cut

LEMMA QueuesJoined ==
  ASSUME NEW x \in Seq(Requests), NEW y \in Seq(Requests), Distinct(x), Distinct(y),
         QueuedPages(x) \cap QueuedPages(y) = {}
  PROVE  /\ x \o y \in Seq(Requests) /\ Distinct(x \o y)
         /\ QueuedPages(x \o y) = QueuedPages(x) \cup QueuedPages(y)
<1>1. /\ x \o y \in Seq(Requests) /\ Len(x \o y) = Len(x) + Len(y)
      /\ Members(x \o y) = Members(x) \cup Members(y)
  BY Joined
<1>2. DOMAIN x = 1 .. Len(x) /\ DOMAIN y = 1 .. Len(y) /\ Len(x) \in Nat /\ Len(y) \in Nat
      /\ DOMAIN (x \o y) = 1 .. Len(x) + Len(y)
  BY <1>1
<1>3. \A i \in 1 .. Len(x) + Len(y) : i <= Len(x) => (x \o y)[i] = x[i] /\ i \in 1 .. Len(x)
  BY <1>2
<1>4. ASSUME NEW i \in 1 .. Len(x) + Len(y), ~(i <= Len(x))
      PROVE  i - Len(x) \in 1 .. Len(y) /\ (x \o y)[i] = y[i - Len(x)]
  BY <1>2, <1>4
<1> DEFINE z == x \o y
<1>5. /\ \A i \in 1 .. Len(x) + Len(y) : i <= Len(x) => z[i] = x[i] /\ i \in DOMAIN x
      /\ \A i \in 1 .. Len(x) + Len(y) :
           ~(i <= Len(x)) => z[i] = y[i - Len(x)] /\ i - Len(x) \in DOMAIN y
      /\ DOMAIN z = 1 .. Len(x) + Len(y)
  BY <1>2, <1>3, <1>4
<1> HIDE DEF z
<1>6. Distinct(z)
  <2> SUFFICES ASSUME NEW i \in DOMAIN z, NEW j \in DOMAIN z, z[i].page = z[j].page
               PROVE  i = j
    BY DEF Distinct
  <2>1. i \in Int /\ j \in Int BY <1>5
  <2>2. CASE i <= Len(x) /\ j <= Len(x)
    <3>1. z[i] = x[i] /\ i \in DOMAIN x /\ z[j] = x[j] /\ j \in DOMAIN x BY <1>5, <2>2
    <3> QED BY <3>1 DEF Distinct
  <2>3. CASE i <= Len(x) /\ ~(j <= Len(x))
    <3>1. z[i] = x[i] /\ i \in DOMAIN x BY <1>5, <2>3
    <3>2. z[j] = y[j - Len(x)] /\ j - Len(x) \in DOMAIN y BY <1>5, <2>3
    <3>3. z[i].page \in QueuedPages(x) BY <3>1 DEF QueuedPages
    <3>4. z[j].page \in QueuedPages(y) BY <3>2 DEF QueuedPages
    <3> QED BY <3>3, <3>4
  <2>4. CASE ~(i <= Len(x)) /\ j <= Len(x)
    <3>1. z[i] = y[i - Len(x)] /\ i - Len(x) \in DOMAIN y BY <1>5, <2>4
    <3>2. z[j] = x[j] /\ j \in DOMAIN x BY <1>5, <2>4
    <3>3. z[i].page \in QueuedPages(y) BY <3>1 DEF QueuedPages
    <3>4. z[j].page \in QueuedPages(x) BY <3>2 DEF QueuedPages
    <3> QED BY <3>3, <3>4
  <2>5. CASE ~(i <= Len(x)) /\ ~(j <= Len(x))
    <3>2. /\ z[i] = y[i - Len(x)] /\ i - Len(x) \in DOMAIN y
          /\ z[j] = y[j - Len(x)] /\ j - Len(x) \in DOMAIN y
      BY <1>5, <2>5
    <3>1. i - Len(x) = j - Len(x) BY <3>2 DEF Distinct
    <3> QED BY <1>2, <2>1, <3>1
  <2> QED BY <2>2, <2>3, <2>4, <2>5
<1>7. QueuedPages(z) = {k.page : k \in Members(z)} BY DEF QueuedPages, Members
<1>8. QueuedPages(x) = {k.page : k \in Members(x)} BY DEF QueuedPages, Members
<1>9. QueuedPages(y) = {k.page : k \in Members(y)} BY DEF QueuedPages, Members
<1>10. QueuedPages(z) = QueuedPages(x) \cup QueuedPages(y)
  <2>1. Members(z) = Members(x) \cup Members(y) BY <1>1 DEF z
  <2> QED BY <1>7, <1>8, <1>9, <2>1
<1> QED BY <1>1, <1>6, <1>10 DEF z

(* Pages asked for join the queue once, and neither those under way nor those kept. *)
LEMMA Queued ==
  ASSUME NEW q, NEW cache \in Seq(Pictures), Waits(q, slots, cache), NEW rows,
         NEW asked \in Seq(Pages), NEW priority \in 0 .. 2
  PROVE  Waits(QueuePages(q, cache, rows, asked, priority), slots, cache)
<1> DEFINE places == {i \in DOMAIN asked : asked[i] <= Len(rows) /\ asked[i] \notin KeptPages(cache)}
           wanted == At(asked, places)
           fresh == Fresh(wanted, QueuedPages(q) \cup slots)
           added == [n \in DOMAIN fresh |-> [page |-> fresh[n], priority |-> priority]]
           urgent == {i \in DOMAIN q : q[i].priority <= priority}
           others == {i \in DOMAIN q : q[i].priority > priority}
           before == At(q, urgent)
           behind == At(q, others)
<1>1. QueuePages(q, cache, rows, asked, priority) = before \o added \o behind
  BY DEF QueuePages, Enqueue, Insert
<1>2. wanted \in Seq(Pages) /\ Members(wanted) \cap KeptPages(cache) = {}
  <2>1. places \subseteq DOMAIN asked OBVIOUS
  <2>2. \A i \in places : asked[i] \notin KeptPages(cache) OBVIOUS
  <2> HIDE DEF places
  <2>3. wanted \in Seq(Pages) /\ Members(wanted) = {asked[i] : i \in places} BY <2>1, Picked
  <2> QED BY <2>2, <2>3
<1>3. q \in Seq(Requests) /\ Distinct(q) /\ QueuedPages(q) \cap slots = {}
      /\ QueuedPages(q) \cap KeptPages(cache) = {}
  BY DEF Waits
<1>4. /\ before \in Seq(Requests) /\ Distinct(before)
      /\ QueuedPages(before) = {q[i].page : i \in urgent}
  <2>1. urgent \subseteq DOMAIN q OBVIOUS
  <2> HIDE DEF urgent
  <2> QED BY <1>3, <2>1, CutFromQueue
<1>5. /\ behind \in Seq(Requests) /\ Distinct(behind)
      /\ QueuedPages(behind) = {q[i].page : i \in others}
  <2>1. others \subseteq DOMAIN q OBVIOUS
  <2> HIDE DEF others
  <2> QED BY <1>3, <2>1, CutFromQueue
<1>6. \A i \in urgent, j \in others : q[i].page # q[j].page
  <2> SUFFICES ASSUME NEW i \in urgent, NEW j \in others, q[i].page = q[j].page PROVE FALSE
    OBVIOUS
  <2>1. i = j BY <1>3 DEF Distinct
  <2>2. q[i] \in Requests BY <1>3
  <2>3. q[i].priority \in 0 .. 2 BY <2>2 DEF Requests
  <2> QED BY <2>1, <2>3
<1>7. QueuedPages(before) \subseteq QueuedPages(q) /\ QueuedPages(behind) \subseteq QueuedPages(q)
      /\ QueuedPages(before) \cap QueuedPages(behind) = {}
  <2>1. urgent \subseteq DOMAIN q /\ others \subseteq DOMAIN q OBVIOUS
  <2> HIDE DEF urgent, others, before, behind
  <2>2. QueuedPages(before) \subseteq QueuedPages(q) BY <1>4, <2>1 DEF QueuedPages
  <2>3. QueuedPages(behind) \subseteq QueuedPages(q) BY <1>5, <2>1 DEF QueuedPages
  <2>4. QueuedPages(before) \cap QueuedPages(behind) = {}
    <3> SUFFICES ASSUME NEW p \in QueuedPages(before), p \in QueuedPages(behind) PROVE FALSE
      OBVIOUS
    <3>1. PICK i \in urgent : p = q[i].page BY <1>4
    <3>2. PICK j \in others : p = q[j].page BY <1>5
    <3> QED BY <1>6, <3>1, <3>2
  <2> QED BY <2>2, <2>3, <2>4
<1> HIDE DEF places, wanted
<1>8. /\ fresh \in Seq(Pages) /\ Members(fresh) \subseteq Members(wanted) \ (QueuedPages(q) \cup slots)
      /\ \A i, j \in DOMAIN fresh : fresh[i] = fresh[j] => i = j
  BY <1>2, AskedOnce
<1> HIDE DEF fresh, before, behind
<1>9. /\ added \in Seq(Requests) /\ Distinct(added) /\ QueuedPages(added) = Members(fresh)
  <2>1. DOMAIN fresh = 1 .. Len(fresh) /\ Len(fresh) \in Nat BY <1>8
  <2>2. \A n \in DOMAIN fresh : [page |-> fresh[n], priority |-> priority] \in Requests
    BY <1>8, <2>1 DEF Requests
  <2>3. added \in [1 .. Len(fresh) -> Requests] BY <2>1, <2>2
  <2>4. \A n \in DOMAIN fresh : added[n].page = fresh[n] OBVIOUS
  <2>5. DOMAIN added = DOMAIN fresh OBVIOUS
  <2> HIDE DEF added
  <2>6. added \in Seq(Requests) BY <2>1, <2>3
  <2> QED BY <1>8, <2>4, <2>5, <2>6 DEF Distinct, QueuedPages, Members
<1> HIDE DEF added
<1> DEFINE first == before \o added
<1>10. /\ first \in Seq(Requests) /\ Distinct(first)
       /\ QueuedPages(first) = QueuedPages(before) \cup QueuedPages(added)
  <2>1. QueuedPages(before) \cap QueuedPages(added) = {} BY <1>7, <1>8, <1>9
  <2> QED BY <1>4, <1>9, <2>1, QueuesJoined
<1> HIDE DEF first
<1>11. /\ first \o behind \in Seq(Requests) /\ Distinct(first \o behind)
       /\ QueuedPages(first \o behind) = QueuedPages(first) \cup QueuedPages(behind)
  <2>1. QueuedPages(first) \cap QueuedPages(behind) = {} BY <1>7, <1>8, <1>9, <1>10
  <2> QED BY <1>5, <1>10, <2>1, QueuesJoined
<1>12. Waits(first \o behind, slots, cache)
  BY <1>2, <1>3, <1>7, <1>8, <1>9, <1>10, <1>11 DEF Waits
<1> QED BY <1>1, <1>12 DEF first

LEMMA Counting ==
  \A m, k \in Nat : k <= m => /\ m - k # 0 => k < m
                              /\ (IF k + 1 <= m THEN m - (k + 1) + 1 ELSE 0) = m - k
OBVIOUS

LEMMA Behind ==
  ASSUME NEW T, NEW q \in Seq(T), NEW k \in Nat, k <= Len(q)
  PROVE  /\ SubSeq(q, k + 1, Len(q)) \in Seq(T)
         /\ Len(SubSeq(q, k + 1, Len(q))) = Len(q) - k
         /\ DOMAIN SubSeq(q, k + 1, Len(q)) = 1 .. Len(q) - k
         /\ \A i \in 1 .. Len(q) - k : SubSeq(q, k + 1, Len(q))[i] = q[k + i] /\ k + i \in DOMAIN q
<1> DEFINE n == Len(q) - k
<1>1. Len(q) \in Nat /\ DOMAIN q = 1 .. Len(q) /\ n \in Nat OBVIOUS
<1>2. \A i \in k + 1 .. Len(q) : q[i] \in T BY <1>1
<1>3. /\ SubSeq(q, k + 1, Len(q)) \in Seq(T)
      /\ Len(SubSeq(q, k + 1, Len(q))) = IF k + 1 <= Len(q) THEN Len(q) - (k + 1) + 1 ELSE 0
      /\ \A i \in 1 .. Len(q) - (k + 1) + 1 : SubSeq(q, k + 1, Len(q))[i] = q[(k + 1) + i - 1]
  <2>1. k + 1 \in Int /\ Len(q) \in Int BY <1>1
  <2> QED BY <1>2, <2>1, SubSeqProperties
<1> DEFINE rest == SubSeq(q, k + 1, Len(q))
<1>7. (IF k + 1 <= Len(q) THEN Len(q) - (k + 1) + 1 ELSE 0) = n
  BY <1>1, Counting, Zenon
<1>4. rest \in Seq(T) /\ Len(rest) = n
  <2> HIDE DEF n
  <2> QED BY <1>3, <1>7, Zenon
<1>5. \A i \in 1 .. n : rest[i] = q[k + i] /\ k + i \in DOMAIN q
  <2> TAKE i \in 1 .. n
  <2>1. i \in 1 .. Len(q) - (k + 1) + 1 /\ (k + 1) + i - 1 = k + i /\ k + i \in 1 .. Len(q) BY <1>1
  <2> QED BY <1>1, <1>3, <2>1
<1> HIDE DEF rest
<1>6. DOMAIN rest = 1 .. n BY <1>4
<1> QED BY <1>4, <1>5, <1>6 DEF rest

-----------------------------------------------------------------------------
(* Free slots take the requests that wait first.                            *)
PageStates == {"loading", "ready", "error"}

LEMMA Pumped ==
  ASSUME NEW q, NEW busy \in SUBSET Pages, NEW cache, Waits(q, busy, cache),
         Cardinality(busy) <= MaxInFlight, busy \cap KeptPages(cache) = {},
         NEW said \in [Pages -> PageStates],
         KeptPages(cache) = {p \in Pages : said[p] = "ready"},
         NEW running, Pump(q, busy, said, running)
  PROVE  /\ Waits(queue', slots', cache)
         /\ slots' \in SUBSET Pages /\ slots' \cap KeptPages(cache) = {}
         /\ Cardinality(slots') <= MaxInFlight
         /\ queue' # <<>> => Cardinality(slots') = MaxInFlight
         /\ states' \in [Pages -> PageStates]
         /\ KeptPages(cache) = {p \in Pages : states'[p] = "ready"}
         /\ \E started \in SUBSET slots' :
              /\ slots' = busy \cup started
              /\ tasks' = running \cup {[of |-> opening, page |-> p] : p \in started}
<1> DEFINE free == MaxInFlight - Cardinality(busy)
           k == Least(free, Len(q))
           started == {q[i].page : i \in 1 .. k}
<1>1. /\ q \in Seq(Requests) /\ Distinct(q) /\ QueuedPages(q) \cap busy = {}
      /\ QueuedPages(q) \cap KeptPages(cache) = {}
  BY DEF Waits
<1>2. /\ queue' = SubSeq(q, Cardinality(started) + 1, Len(q))
      /\ slots' = busy \cup started
      /\ tasks' = running \cup {[of |-> opening, page |-> p] : p \in started}
      /\ states' = [p \in Pages |-> IF p \in started THEN "loading" ELSE said[p]]
  <2>1. PICK w \in {q} :
           \E s \in {{w[i].page : i \in 1 .. Least(MaxInFlight - Cardinality(busy), Len(w))}} :
             /\ queue' = SubSeq(w, Cardinality(s) + 1, Len(w))
             /\ slots' = busy \cup s
             /\ tasks' = running \cup {[of |-> opening, page |-> p] : p \in s}
             /\ states' = [p \in Pages |-> IF p \in s THEN "loading" ELSE said[p]]
    BY DEF Pump
  <2>2. w = q OBVIOUS
  <2>3. PICK s \in {{w[i].page : i \in 1 .. Least(MaxInFlight - Cardinality(busy), Len(w))}} :
             /\ queue' = SubSeq(w, Cardinality(s) + 1, Len(w))
             /\ slots' = busy \cup s
             /\ tasks' = running \cup {[of |-> opening, page |-> p] : p \in s}
             /\ states' = [p \in Pages |-> IF p \in s THEN "loading" ELSE said[p]]
    BY <2>1, Zenon
  <2>4. s = started
    <3>1. s = {w[i].page : i \in 1 .. Least(MaxInFlight - Cardinality(busy), Len(w))} OBVIOUS
    <3> QED BY <2>2, <3>1, Zenon
  <2>5. queue' = SubSeq(q, Cardinality(s) + 1, Len(q)) BY <2>2, <2>3, Zenon
  <2> HIDE DEF started
  <2> QED BY <2>3, <2>4, <2>5
<1>3. IsFiniteSet(busy) /\ Cardinality(busy) \in Nat
  <2>1. IsFiniteSet(busy) BY PagesAreNumbers, FS_Subset
  <2> QED BY <2>1, FS_CardinalityType
<1>4. DOMAIN q = 1 .. Len(q) /\ Len(q) \in Nat BY <1>1
<1>5. /\ MaxInFlight \in Nat /\ free \in Nat /\ k \in Nat /\ k <= free /\ k <= Len(q)
      /\ k < Len(q) => k = free
  BY <1>3, <1>4, LimitsAssumption DEF Least
<1>6. started \subseteq QueuedPages(q) /\ started \subseteq Pages
  <2>1. \A i \in 1 .. k : i \in DOMAIN q BY <1>4, <1>5
  <2>2. \A i \in DOMAIN q : q[i].page \in Pages
    <3> TAKE i \in DOMAIN q
    <3>1. q[i] \in Requests BY <1>1
    <3> QED BY <3>1 DEF Requests
  <2> HIDE DEF k
  <2> QED BY <2>1, <2>2 DEF QueuedPages
<1>7. IsFiniteSet(started) /\ Cardinality(started) = k
  <2> HIDE DEF k
  <2> DEFINE page == [i \in 1 .. k |-> q[i].page]
  <2>1. IsFiniteSet(1 .. k) /\ Cardinality(1 .. k) = k BY <1>5, FS_Interval
  <2>2. page \in Surjection(1 .. k, started) BY DEF Surjection
  <2>3. \A i, j \in 1 .. k : page[i] = page[j] => i = j
    <3>1. \A i \in 1 .. k : i \in DOMAIN q BY <1>4, <1>5
    <3>2. \A i \in 1 .. k : page[i] = q[i].page OBVIOUS
    <3> HIDE DEF page
    <3> QED BY <1>1, <3>1, <3>2 DEF Distinct
  <2>4. page \in Injection(1 .. k, started) BY <2>2, <2>3 DEF Surjection, Injection, IsInjective
  <2> HIDE DEF page, started
  <2> QED BY <2>1, <2>2, <2>4, FS_Surjection
<1>8. queue' = SubSeq(q, k + 1, Len(q)) BY <1>2, <1>7
<1> DEFINE rest == SubSeq(q, k + 1, Len(q))
<1> HIDE DEF k, free, started
<1>9. /\ rest \in Seq(Requests) /\ Len(rest) = Len(q) - k /\ DOMAIN rest = 1 .. Len(q) - k
      /\ \A i \in 1 .. Len(q) - k : rest[i] = q[k + i] /\ k + i \in DOMAIN q
  BY <1>1, <1>5, Behind
<1> HIDE DEF rest
<1>10. DOMAIN rest = 1 .. Len(q) - k BY <1>9
<1>11. \A i \in DOMAIN rest : k + i \in DOMAIN q /\ rest[i] = q[k + i] /\ k + i \notin 1 .. k
  <2>1. \A i \in 1 .. Len(q) - k : k + i \notin 1 .. k BY <1>4, <1>5
  <2> QED BY <1>9, <1>10, <2>1
<1>12. Distinct(rest)
  <2> SUFFICES ASSUME NEW i \in DOMAIN rest, NEW j \in DOMAIN rest, rest[i].page = rest[j].page
               PROVE  i = j
    BY DEF Distinct
  <2>1. k + i = k + j BY <1>1, <1>11 DEF Distinct
  <2>2. i \in Nat /\ j \in Nat BY <1>4, <1>5, <1>10
  <2> QED BY <1>5, <2>1, <2>2
<1>13. QueuedPages(rest) \subseteq QueuedPages(q) BY <1>11 DEF QueuedPages
<1>14. QueuedPages(rest) \cap started = {}
  <2> SUFFICES ASSUME NEW p \in QueuedPages(rest), p \in started PROVE FALSE OBVIOUS
  <2>1. PICK i \in DOMAIN rest : p = rest[i].page BY DEF QueuedPages
  <2>2. PICK j \in 1 .. k : p = q[j].page BY DEF started
  <2>3. k + i \in DOMAIN q /\ rest[i] = q[k + i] /\ k + i \notin 1 .. k BY <1>11
  <2>4. j \in DOMAIN q BY <1>4, <1>5
  <2>5. k + i = j BY <1>1, <2>1, <2>2, <2>3, <2>4 DEF Distinct
  <2> QED BY <2>3, <2>5
<1>15. queue' = rest BY <1>8 DEF rest
<1>16. Waits(queue', slots', cache) BY <1>1, <1>2, <1>9, <1>12, <1>13, <1>14, <1>15 DEF Waits
<1>17. started \cap busy = {} /\ started \cap KeptPages(cache) = {} BY <1>1, <1>6
<1>18. Cardinality(slots') = Cardinality(busy) + k
  <2>1. Cardinality(busy \cup started)
          = Cardinality(busy) + Cardinality(started) - Cardinality(busy \cap started)
    BY <1>3, <1>7, FS_Union
  <2>2. busy \cap started = {} BY <1>17
  <2>3. Cardinality(busy \cap started) = 0 BY <2>2, FS_EmptySet
  <2> QED BY <1>2, <1>3, <1>5, <1>7, <2>1, <2>3
<1>19. Cardinality(slots') <= MaxInFlight /\ (queue' # <<>> => Cardinality(slots') = MaxInFlight)
  <2>1. queue' # <<>> => Len(rest) # 0 BY <1>9, <1>15
  <2>2. Len(rest) = Len(q) - k BY <1>9
  <2>4. Len(q) - k # 0 => k < Len(q) BY <1>4, <1>5, Counting, Zenon
  <2>3. Len(rest) # 0 => k < Len(q) BY <2>2, <2>4, Zenon
  <2> QED BY <1>3, <1>5, <1>18, <2>1, <2>3 DEF free
<1>20. states' \in [Pages -> PageStates] /\ KeptPages(cache) = {p \in Pages : states'[p] = "ready"}
  <2>1. states' \in [Pages -> PageStates] BY <1>2 DEF PageStates
  <2>2. \A p \in Pages : states'[p] = "ready" <=> said[p] = "ready" /\ p \notin started BY <1>2
  <2> QED BY <1>17, <2>1, <2>2
<1> QED BY <1>2, <1>6, <1>16, <1>17, <1>19, <1>20

-----------------------------------------------------------------------------
(* The invariant.                                                           *)
Answers == [of : Openings, page : Pages \cup {Document}, ok : BOOLEAN]

DocumentTask == [of |-> opening, page |-> Document]

\* The answer that brings the page count of the open document.
CountOf(a) == a.of = opening /\ a.page = Document

\* Tasks are of the present opening, and no answer is of one to come.
TasksInv ==
  /\ \A t \in tasks : t.of = opening
  /\ \A a \in answers : a.of <= opening

\* While the count of the pages is awaited, by one task or in one answer, nothing is
\* asked for and nothing is kept.
AwaitingInv ==
  /\ DocumentTask \in tasks => status = "loading" /\ \A a \in answers : ~CountOf(a)
  /\ \A a \in answers : CountOf(a) => status = "loading" /\ \A b \in answers : CountOf(b) => b = a
  /\ status \in {"null", "loading"} => kept = <<>> /\ slots = {} /\ queue = <<>>

Shows ==
  /\ layout \in Layouts /\ opening \in Openings
  /\ status \in {"null", "loading", "ready", "error"} /\ (status # "null" => 0 < opening)
  /\ announced \in PageCounts \cup {0} /\ source \in PageCounts \cup {0}
  /\ order \in Seq(Pages)
  /\ icons \in [Pages -> {Blank, opening}] /\ buttons \in [Pages -> {Blank, opening}]
  /\ active \in Pages \cup {NoPage} /\ nextRow \in Nat
  /\ timer \in BOOLEAN /\ asking \in BOOLEAN

Works ==
  /\ kept \in Seq(Pictures) /\ \A i \in DOMAIN kept : kept[i].of = opening
  /\ queue \in Seq(Requests) /\ Distinct(queue)
  /\ slots \in SUBSET Pages /\ states \in [Pages -> PageStates]
  /\ tasks \in SUBSET Tasks /\ answers \in SUBSET Answers
  /\ ListShowsTheCache /\ SlotsAreAlive /\ TasksInv /\ AwaitingInv

ThumbnailsInv == Shows /\ Works

LEMMA InvSaysSo ==
  ThumbnailsInv => TypeOK /\ PicturesAreOfThisOpening /\ CacheAndSlotsAgree
<1> SUFFICES ASSUME ThumbnailsInv PROVE TypeOK /\ PicturesAreOfThisOpening /\ CacheAndSlotsAgree
  OBVIOUS
<1>1. Shows /\ Works BY DEF ThumbnailsInv
<1>2. Blank \in Openings
  <2>1. MaxOpenings \in Nat BY OpeningsAssumption DEF MaxOpenings
  <2> QED BY <2>1 DEF Openings, Blank
<1>3. {Blank, opening} \subseteq Openings BY <1>1, <1>2 DEF Shows
<1>4. icons \in [Pages -> Openings] /\ buttons \in [Pages -> Openings] BY <1>1, <1>3 DEF Shows
<1>5. TypeOK BY <1>1, <1>4 DEF Shows, Works, TypeOK, Requests, PageStates, Answers
<1>6. PicturesAreOfThisOpening BY <1>1 DEF Shows, Works, PicturesAreOfThisOpening
<1>7. CacheAndSlotsAgree BY <1>1 DEF Works, CacheAndSlotsAgree
<1> QED BY <1>5, <1>6, <1>7

LEMMA BoundsStay ==
  ASSUME layout' = layout
  PROVE  Openings' = Openings /\ Pictures' = Pictures /\ Tasks' = Tasks /\ Answers' = Answers
BY DEF Openings, MaxOpenings, Pictures, Tasks, Answers

(* Whatever asks for more, or gives a slot on, keeps the order of the work. *)
LEMMA WorkGoesOn ==
  ASSUME Works, layout' = layout, opening' = opening, opening \in Openings,
         status' \notin {"null", "loading"}, DocumentTask \notin tasks,
         answers' \subseteq answers, \A a \in answers' : ~CountOf(a),
         NEW cache \in Seq(Pictures), kept' = cache, \A i \in DOMAIN cache : cache[i].of = opening,
         Len(cache) <= Capacity, KeptPages(cache) = {p \in Pages : icons'[p] # Blank},
         NEW busy \in SUBSET slots,
         \A a \in answers : a.page \in busy => a \in answers',
         Cardinality(busy) <= MaxInFlight, busy \cap KeptPages(cache) = {},
         NEW q, Waits(q, busy, cache),
         NEW said \in [Pages -> PageStates],
         KeptPages(cache) = {p \in Pages : said[p] = "ready"},
         Pump(q, busy, said, tasks)
  PROVE  Works'
<1>1. /\ slots \in SUBSET Pages /\ tasks \in SUBSET Tasks /\ answers \in SUBSET Answers
      /\ SlotsAreAlive /\ TasksInv
  BY DEF Works
<1>2. busy \in SUBSET Pages BY <1>1
<1>3. /\ Waits(queue', slots', cache)
      /\ slots' \in SUBSET Pages /\ slots' \cap KeptPages(cache) = {}
      /\ Cardinality(slots') <= MaxInFlight
      /\ queue' # <<>> => Cardinality(slots') = MaxInFlight
      /\ states' \in [Pages -> PageStates]
      /\ KeptPages(cache) = {p \in Pages : states'[p] = "ready"}
      /\ \E started \in SUBSET slots' :
           /\ slots' = busy \cup started
           /\ tasks' = tasks \cup {[of |-> opening, page |-> p] : p \in started}
  BY <1>2, Pumped
<1>4. PICK started \in SUBSET slots' :
        /\ slots' = busy \cup started
        /\ tasks' = tasks \cup {[of |-> opening, page |-> p] : p \in started}
  BY <1>3
<1>5. Pictures' = Pictures /\ Tasks' = Tasks /\ Answers' = Answers BY BoundsStay
<1>6. started \subseteq Pages /\ Document \notin Pages BY <1>3, PagesAreNumbers DEF Document
<1>7. tasks' \in SUBSET Tasks /\ \A t \in tasks' : t.of = opening'
  <2>1. \A p \in started : [of |-> opening, page |-> p] \in Tasks BY <1>6 DEF Tasks
  <2>2. \A p \in started : [of |-> opening, page |-> p].of = opening OBVIOUS
  <2>3. \A t \in tasks' : t \in tasks \/ \E p \in started : t = [of |-> opening, page |-> p]
    BY <1>4
  <2> QED BY <1>1, <2>1, <2>2, <2>3 DEF TasksInv
<1>8. answers' \in SUBSET Answers /\ TasksInv'
  BY <1>1, <1>7 DEF TasksInv
<1>9. DocumentTask' \notin tasks'
  <2>1. \A p \in started : [of |-> opening, page |-> p] # [of |-> opening, page |-> Document]
    <3> TAKE p \in started
    <3>1. p # Document BY <1>6
    <3>2. [of |-> opening, page |-> p].page = p /\ [of |-> opening, page |-> Document].page = Document
      OBVIOUS
    <3> QED BY <3>1, <3>2
  <2>2. DocumentTask' = DocumentTask /\ DocumentTask = [of |-> opening, page |-> Document]
    BY DEF DocumentTask
  <2> QED BY <1>4, <2>1, <2>2
<1>10. AwaitingInv'
  <2>1. \A a \in answers' : ~CountOf(a)' BY DEF CountOf
  <2> QED BY <1>9, <2>1 DEF AwaitingInv
<1>11. ListShowsTheCache' BY <1>3 DEF ListShowsTheCache
<1>12. SlotsAreAlive'
  <2>1. ASSUME NEW p \in slots'
        PROVE  \/ [of |-> opening', page |-> p] \in tasks'
               \/ \E ok \in BOOLEAN : [of |-> opening', page |-> p, ok |-> ok] \in answers'
    <3>1. CASE p \in started BY <1>4, <3>1
    <3>2. CASE p \in busy
      <4>1. \/ [of |-> opening, page |-> p] \in tasks
            \/ \E ok \in BOOLEAN : [of |-> opening, page |-> p, ok |-> ok] \in answers
        BY <1>1, <3>2 DEF SlotsAreAlive
      <4>2. \A ok \in BOOLEAN : [of |-> opening, page |-> p, ok |-> ok].page = p OBVIOUS
      <4> QED BY <1>4, <3>2, <4>1, <4>2
    <3> QED BY <1>4, <2>1, <3>1, <3>2
  <2>2. QueuedPages(queue') \cap slots' = {} /\ QueuedPages(queue') \cap KeptPages(cache) = {}
    BY <1>3 DEF Waits
  <2>3. KeptPages(kept') \cap (QueuedPages(queue') \cup slots') = {} BY <1>3, <2>2
  <2> QED BY <1>3, <2>1, <2>2, <2>3 DEF SlotsAreAlive, Pending
<1>13. queue' \in Seq(Requests) /\ Distinct(queue') BY <1>3 DEF Waits
<1>14. kept' \in Seq(Pictures)' /\ \A i \in DOMAIN kept' : kept'[i].of = opening' BY <1>5
<1> QED BY <1>3, <1>5, <1>7, <1>8, <1>10, <1>11, <1>12, <1>13, <1>14 DEF Works

(* Where nothing is asked for, reading the cache keeps it as well. *)
LEMMA OnlyRead ==
  ASSUME Works, NEW cache \in Seq(Pictures), kept' = cache, Members(cache) \subseteq Members(kept),
         KeptPages(cache) = KeptPages(kept), Len(cache) <= Len(kept),
         UNCHANGED <<layout, opening, status, icons, states, queue, slots, tasks, answers>>
  PROVE  Works'
<1>1. Pictures' = Pictures /\ Tasks' = Tasks /\ Answers' = Answers BY BoundsStay
<1>2. \A k \in Members(kept) : k.of = opening BY DEF Works, Members
<1>3. \A i \in DOMAIN cache : cache[i].of = opening BY <1>2 DEF Members
<1>4. ListShowsTheCache /\ SlotsAreAlive /\ TasksInv /\ AwaitingInv /\ Len(kept) \in Nat
  BY DEF Works
<1>5. ListShowsTheCache'
  <2>1. Len(cache) \in Nat /\ Capacity \in Nat BY LimitsAssumption
  <2>2. Len(cache) <= Capacity BY <1>4, <2>1 DEF ListShowsTheCache
  <2> QED BY <1>4, <2>2 DEF ListShowsTheCache
<1>6. SlotsAreAlive' BY <1>4 DEF SlotsAreAlive, Pending, QueuedPages
<1>7. TasksInv' BY <1>4 DEF TasksInv
<1>8. AwaitingInv'
  <2>1. kept = <<>> => cache = <<>>
    <3>1. kept = <<>> => Len(kept) = 0 OBVIOUS
    <3>2. Len(cache) \in Nat /\ (Len(cache) = 0 => cache = <<>>) OBVIOUS
    <3> QED BY <1>4, <3>1, <3>2
  <2> QED BY <1>4, <2>1 DEF AwaitingInv, DocumentTask, CountOf
<1> QED BY <1>1, <1>3, <1>5, <1>6, <1>7, <1>8 DEF Works, Distinct

LEMMA NothingChanges ==
  ASSUME Works, UNCHANGED <<layout, opening, status, icons, states, kept, queue, slots, tasks, answers>>
  PROVE  Works'
<1>1. PICK cache : cache = kept OBVIOUS
<1>2. cache \in Seq(Pictures) /\ Len(cache) <= Len(kept) BY <1>1 DEF Works
<1> QED BY <1>1, <1>2, OnlyRead

LEMMA ReadAndAsked ==
  ASSUME Works, layout' = layout, opening' = opening, opening \in Openings, icons' = icons,
         status' \notin {"null", "loading"}, DocumentTask \notin tasks,
         answers' \subseteq answers, \A a \in answers' : ~CountOf(a),
         \A a \in answers : a.page \in Pages => a \in answers',
         NEW asked \in Seq(Pages), kept' = Touch(kept, asked),
         NEW q, Waits(q, slots, kept), Pump(q, slots, states, tasks)
  PROVE  Works'
<1>1. PICK cache : cache = Touch(kept, asked) OBVIOUS
<1>2. /\ kept \in Seq(Pictures) /\ slots \in SUBSET Pages /\ states \in [Pages -> PageStates]
      /\ ListShowsTheCache /\ SlotsAreAlive
  BY DEF Works
<1>3. /\ cache \in Seq(Pictures) /\ Members(cache) \subseteq Members(kept)
      /\ KeptPages(cache) = KeptPages(kept) /\ Len(cache) <= Len(kept)
  BY <1>1, <1>2, Touched
<1>4. \A i \in DOMAIN cache : cache[i].of = opening
  <2>1. \A k \in Members(kept) : k.of = opening BY DEF Works, Members
  <2> QED BY <1>3, <2>1 DEF Members
<1>5. Len(cache) <= Capacity
  <2>1. Len(cache) \in Nat /\ Len(kept) \in Nat /\ Capacity \in Nat
    BY <1>2, <1>3, LimitsAssumption
  <2> QED BY <1>2, <1>3, <2>1 DEF ListShowsTheCache
<1>6. /\ KeptPages(cache) = {p \in Pages : icons'[p] # Blank}
      /\ KeptPages(cache) = {p \in Pages : states[p] = "ready"}
  BY <1>2, <1>3 DEF ListShowsTheCache
<1>7. Cardinality(slots) <= MaxInFlight /\ slots \cap KeptPages(cache) = {}
  BY <1>2, <1>3 DEF SlotsAreAlive, Pending
<1>8. Waits(q, slots, cache) BY <1>3 DEF Waits
<1>9. \A a \in answers : a.page \in slots => a \in answers' BY <1>2
<1>10. slots \in SUBSET slots OBVIOUS
<1>11. kept' = cache BY <1>1
<1> QED BY <1>2, <1>3, <1>4, <1>5, <1>6, <1>7, <1>8, <1>9, <1>10, <1>11, WorkGoesOn

LEMMA WaitsNow == Works => Waits(queue, slots, kept)
BY DEF Works, Waits, SlotsAreAlive, Pending

\* Nothing of the document is awaited once it is ready.
LEMMA NothingAwaited ==
  ASSUME Works, status \notin {"null", "loading"}
  PROVE  DocumentTask \notin tasks /\ \A a \in answers : ~CountOf(a)
BY DEF Works, AwaitingInv

LEMMA PartOf ==
  ASSUME NEW T, NEW s \in Seq(T), NEW m \in Nat \ {0}, NEW n \in Int, n <= Len(s)
  PROVE  SubSeq(s, m, n) \in Seq(T)
<1>1. \A i \in m .. n : i \in DOMAIN s
  <2>1. DOMAIN s = 1 .. Len(s) /\ Len(s) \in Nat OBVIOUS
  <2> QED BY <2>1
<1>2. \A i \in m .. n : s[i] \in T BY <1>1
<1>3. m \in Int /\ n \in Int OBVIOUS
<1> QED BY <1>2, <1>3, SubSeqProperties

LEMMA FirstPagesFit ==
  ASSUME NEW n \in PageCounts \cup {0}
  PROVE  FirstPages(n) \in Seq(Pages) /\ (n # 0 => FirstPages(n)[1] \in Pages)
<1>1. n \in Nat BY PagesAssumption
<1>2. \A i \in 1 .. n : i \in Pages BY DEF Pages
<1>3. FirstPages(n) \in [1 .. n -> Pages] BY <1>2 DEF FirstPages
<1>4. FirstPages(n) \in Seq(Pages) BY <1>1, <1>3
<1>5. n # 0 => 1 \in 1 .. n BY <1>1
<1> QED BY <1>3, <1>4, <1>5

-----------------------------------------------------------------------------
(* The steps.                                                               *)
LEMMA ThumbnailsInit == Init => ThumbnailsInv
<1> SUFFICES ASSUME Init PROVE ThumbnailsInv OBVIOUS
<1>1. Shows
  <2>1. MaxOpenings \in Nat BY OpeningsAssumption DEF MaxOpenings
  <2>2. 0 \in Openings BY <2>1 DEF Openings
  <2>3. icons \in [Pages -> {Blank, opening}] /\ buttons \in [Pages -> {Blank, opening}]
    BY DEF Init
  <2>4. order \in Seq(Pages) BY DEF Init
  <2>5. layout \in Layouts /\ opening = 0 /\ status = "null" /\ announced = 0 /\ source = 0
        /\ active = NoPage /\ nextRow = 0 /\ timer = FALSE /\ asking = FALSE
    BY DEF Init
  <2> QED BY <2>2, <2>3, <2>4, <2>5 DEF Shows
<1>2. KeptPages(kept) = {} BY DEF Init, KeptPages
<1>3. ListShowsTheCache BY <1>2, LimitsAssumption DEF Init, ListShowsTheCache, Blank
<1>4. SlotsAreAlive
  BY <1>2, FS_EmptySet, LimitsAssumption DEF Init, SlotsAreAlive, QueuedPages, Pending
<1>5. TasksInv /\ AwaitingInv BY DEF Init, TasksInv, AwaitingInv
<1>6. kept \in Seq(Pictures) /\ queue \in Seq(Requests) /\ states \in [Pages -> PageStates]
  BY DEF Init, PageStates
<1> QED BY <1>1, <1>3, <1>4, <1>5, <1>6 DEF ThumbnailsInv, Works, Init, Distinct

\* A list that was just emptied.
LEMMA Emptied ==
  ASSUME ThumbnailsInv, layout' = layout, opening < MaxOpenings, opening' = opening + 1, ResetLists,
         status' \in {"null", "loading"}, answers' = answers,
         \/ tasks' = {} 
         \/ tasks' = {[of |-> opening', page |-> Document]} /\ status' = "loading"
  PROVE  Works' /\ opening' \in Openings' /\ 0 < opening'
         /\ icons' \in [Pages -> {Blank, opening'}] /\ buttons' \in [Pages -> {Blank, opening'}]
<1>1. Pictures' = Pictures /\ Tasks' = Tasks /\ Answers' = Answers /\ Openings' = Openings
  BY BoundsStay
<1>2. Shows /\ Works BY DEF ThumbnailsInv
<1>3. MaxOpenings \in Nat BY OpeningsAssumption DEF MaxOpenings
<1>4. opening \in Nat /\ opening' \in Openings /\ 0 < opening' BY <1>2, <1>3 DEF Shows, Openings
<1>5. tasks' \in SUBSET Tasks /\ \A t \in tasks' : t.of = opening' BY <1>4 DEF Tasks
<1>6. \A a \in answers : a.of \in Nat /\ a.of <= opening
  <2>1. \A a \in answers : a.of \in Openings BY <1>2 DEF Works, Answers
  <2>2. Openings \subseteq Nat BY <1>3 DEF Openings
  <2> QED BY <1>2, <2>1, <2>2 DEF Works, TasksInv
<1>7. \A a \in answers' : a.of <= opening' /\ a.of # opening' BY <1>4, <1>6
<1>8. TasksInv' BY <1>5, <1>7 DEF TasksInv
<1>9. /\ kept' = <<>> /\ queue' = <<>> /\ slots' = {}
      /\ states' = [p \in Pages |-> "loading"] /\ icons' = [p \in Pages |-> Blank]
      /\ buttons' = [p \in Pages |-> Blank]
  BY DEF ResetLists
<1>10. AwaitingInv'
  <2>1. DocumentTask' \in tasks' => status' = "loading" OBVIOUS
  <2>2. \A a \in answers' : ~CountOf(a)' BY <1>7 DEF CountOf
  <2> QED BY <1>9, <2>1, <2>2 DEF AwaitingInv
<1>11. KeptPages(kept') = {} /\ QueuedPages(queue') = {} BY <1>9 DEF KeptPages, QueuedPages
<1>12. ListShowsTheCache' BY <1>9, <1>11, LimitsAssumption DEF ListShowsTheCache
<1>13. SlotsAreAlive' BY <1>9, <1>11, FS_EmptySet, LimitsAssumption DEF SlotsAreAlive, Pending
<1>14. kept' \in Seq(Pictures) /\ queue' \in Seq(Requests) /\ states' \in [Pages -> PageStates]
       /\ Distinct(queue')
  BY <1>9 DEF PageStates, Distinct
<1>15. answers' \in SUBSET Answers BY <1>2 DEF Works
<1>16. Works' BY <1>1, <1>5, <1>8, <1>9, <1>10, <1>12, <1>13, <1>14, <1>15 DEF Works
<1> QED BY <1>1, <1>4, <1>9, <1>16

LEMMA SetDocumentKeeps ==
  ASSUME ThumbnailsInv, NEW count \in PageCounts \cup {0}, SetDocument(count)
  PROVE  ThumbnailsInv'
<1>1. Works' /\ opening' \in Openings' /\ 0 < opening'
      /\ icons' \in [Pages -> {Blank, opening'}] /\ buttons' \in [Pages -> {Blank, opening'}]
  BY Emptied DEF SetDocument
<1>2. order' \in Seq(Pages) BY FirstPagesFit DEF SetDocument
<1>3. Shows BY DEF ThumbnailsInv
<1>4. Shows'
  BY <1>1, <1>2, <1>3 DEF SetDocument, ResetLists, Shows
<1> QED BY <1>1, <1>4 DEF ThumbnailsInv

LEMMA ClearDocumentKeeps ==
  ASSUME ThumbnailsInv, ClearDocument
  PROVE  ThumbnailsInv'
<1>1. Works' /\ opening' \in Openings' /\ 0 < opening'
      /\ icons' \in [Pages -> {Blank, opening'}] /\ buttons' \in [Pages -> {Blank, opening'}]
  BY Emptied DEF ClearDocument
<1>2. order' \in Seq(Pages) BY DEF ClearDocument
<1>3. Shows BY DEF ThumbnailsInv
<1>4. Shows' BY <1>1, <1>2, <1>3 DEF ClearDocument, ResetLists, Shows
<1> QED BY <1>1, <1>4 DEF ThumbnailsInv

LEMMA RowsAsked ==
  ASSUME Works, layout' = layout, opening' = opening, opening \in Openings, icons' = icons,
         status' \notin {"null", "loading"}, DocumentTask \notin tasks,
         answers' \subseteq answers, \A a \in answers' : ~CountOf(a),
         \A a \in answers : a.page \in Pages => a \in answers',
         NEW rows \in Seq(Pages), NEW from \in Nat, AskForRows(rows, from)
  PROVE  Works' /\ nextRow' \in Nat
<1> DEFINE to == Least(Len(rows), from + Batch)
           asked == SubSeq(rows, from + 1, to)
           q == QueuePages(queue, kept, rows, asked, 1)
<1>1. kept' = Touch(kept, asked) /\ nextRow' = to /\ Pump(q, slots, states, tasks)
  BY DEF AskForRows
<1>2. to \in Nat /\ to <= Len(rows) /\ from + 1 \in Nat \ {0}
  <2>1. Len(rows) \in Nat /\ Batch \in Nat BY LimitsAssumption
  <2> QED BY <2>1 DEF Least
<1> HIDE DEF to
<1>3. asked \in Seq(Pages) BY <1>2, PartOf
<1> HIDE DEF asked
<1>4. kept \in Seq(Pictures) BY DEF Works
<1>5. Waits(q, slots, kept) BY <1>3, <1>4, WaitsNow, Queued
<1> HIDE DEF q
<1>6. Works' BY <1>1, <1>3, <1>5, ReadAndAsked
<1> QED BY <1>1, <1>2, <1>6

LEMMA RenderNextBatchKeeps ==
  ASSUME ThumbnailsInv, RenderNextBatch
  PROVE  ThumbnailsInv'
<1>1. Shows /\ Works BY DEF ThumbnailsInv
<1>2. /\ status = "ready" /\ status' = status /\ layout' = layout /\ opening' = opening
      /\ icons' = icons /\ answers' = answers /\ AskForRows(order, nextRow)
  BY DEF RenderNextBatch, docVars
<1>3. DocumentTask \notin tasks /\ \A a \in answers : ~CountOf(a) BY <1>1, <1>2, NothingAwaited
<1>4. opening \in Openings /\ order \in Seq(Pages) /\ nextRow \in Nat BY <1>1 DEF Shows
<1>5. Works' /\ nextRow' \in Nat BY <1>1, <1>2, <1>3, <1>4, RowsAsked
<1>6. Openings' = Openings BY <1>2, BoundsStay
<1>7. Shows' BY <1>1, <1>5, <1>6 DEF Shows, RenderNextBatch, docVars
<1> QED BY <1>5, <1>7 DEF ThumbnailsInv

LEMMA ScrollKeeps ==
  ASSUME ThumbnailsInv, Scroll
  PROVE  ThumbnailsInv'
<1>1. Shows /\ Works BY DEF ThumbnailsInv
<1>2. UNCHANGED <<docVars, states, listVars, workVars>> /\ timer' \in BOOLEAN /\ asking' \in BOOLEAN
  BY <1>1 DEF Scroll, Shows
<1>3. Works' BY <1>1, <1>2, NothingChanges DEF docVars, listVars, workVars
<1>4. Openings' = Openings BY <1>2, BoundsStay DEF docVars
<1>5. Shows' BY <1>1, <1>2, <1>4 DEF Shows, docVars, listVars
<1> QED BY <1>3, <1>5 DEF ThumbnailsInv

LEMMA NeighborsFit ==
  ASSUME NEW shown
  PROVE  Ascending(Neighbors(shown)) \in Seq(Pages)
<1> DEFINE around == Neighbors(shown)
<1>1. around \subseteq Pages BY DEF Neighbors
<1> HIDE DEF around
<1>2. around \in SUBSET Nat /\ IsFiniteSet(around) BY <1>1, PagesAreNumbers, FS_Subset
<1>3. Cardinality(around) \in Nat /\ Ascending(around) \in [1 .. Cardinality(around) -> around]
  BY <1>2, Ranks
<1>4. Ascending(around) \in [1 .. Cardinality(around) -> Pages] BY <1>1, <1>3
<1> QED BY <1>3, <1>4 DEF around

\* The rows in sight are rows of the list.
InSight(first, last) == first \in Nat \ {0} /\ last \in Nat /\ last <= Len(order)

LEMMA RequestVisibleKeeps ==
  ASSUME ThumbnailsInv, NEW first, NEW last, InSight(first, last), RequestVisible(first, last)
  PROVE  ThumbnailsInv'
<1>1. Shows /\ Works BY DEF ThumbnailsInv
<1>2. /\ UNCHANGED docVars /\ UNCHANGED <<icons, buttons, active, nextRow, answers, asking>>
      /\ timer' = FALSE
  BY DEF RequestVisible
<1>3. Openings' = Openings BY <1>2, BoundsStay DEF docVars
<1>4. Shows' BY <1>1, <1>2, <1>3 DEF Shows, docVars
<1>5. CASE status # "ready"
  <2>1. UNCHANGED <<states, kept, queue, slots, tasks>> BY <1>5 DEF RequestVisible
  <2>2. Works' BY <1>1, <1>2, <2>1, NothingChanges DEF docVars
  <2> QED BY <1>4, <2>2 DEF ThumbnailsInv
<1>6. CASE status = "ready"
  <2> DEFINE shown == SubSeq(order, first, last)
             current == IF active = NoPage THEN <<>> ELSE <<active>>
             around == Ascending(Neighbors(shown))
             asked == current \o shown \o around
             q0 == QueuePages(queue, kept, order, current, 0)
             q1 == QueuePages(q0, kept, order, shown, 1)
             q2 == QueuePages(q1, kept, order, around, 2)
  <2>1. kept' = Touch(kept, asked) /\ Pump(q2, slots, states, tasks)
    BY <1>6, Zenon DEF RequestVisible
  <2>2. order \in Seq(Pages) /\ active \in Pages \cup {NoPage} /\ opening \in Openings
    BY <1>1 DEF Shows
  <2>3. shown \in Seq(Pages)
    <3>1. first \in Nat \ {0} /\ last \in Int /\ last <= Len(order) BY DEF InSight
    <3> QED BY <2>2, <3>1, PartOf
  <2>4. current \in Seq(Pages)
    <3>1. CASE active = NoPage BY <3>1
    <3>2. CASE active # NoPage
      <4>1. active \in Pages BY <2>2, <3>2
      <4>2. <<active>> \in Seq(Pages) BY <4>1
      <4> QED BY <3>2, <4>2
    <3> QED BY <3>1, <3>2
  <2>5. around \in Seq(Pages) BY NeighborsFit
  <2>6. kept \in Seq(Pictures) BY <1>1 DEF Works
  <2> HIDE DEF shown, current, around, q2, q1, q0
  <2>7. asked \in Seq(Pages) BY <2>3, <2>4, <2>5
  <2>8. Waits(q0, slots, kept)
    <3>1. 0 \in 0 .. 2 OBVIOUS
    <3> QED BY <1>1, <2>4, <2>6, <3>1, WaitsNow, Queued DEF q0
  <2>9. Waits(q1, slots, kept)
    <3>1. 1 \in 0 .. 2 OBVIOUS
    <3> QED BY <2>3, <2>6, <2>8, <3>1, Queued DEF q1
  <2>10. Waits(q2, slots, kept)
    <3>1. 2 \in 0 .. 2 OBVIOUS
    <3> QED BY <2>5, <2>6, <2>9, <3>1, Queued DEF q2
  <2> HIDE DEF asked
  <2>11. DocumentTask \notin tasks /\ \A a \in answers : ~CountOf(a) BY <1>1, <1>6, NothingAwaited
  <2>12. /\ status' = "ready" /\ layout' = layout /\ opening' = opening /\ icons' = icons
         /\ answers' = answers
    BY <1>2, <1>6 DEF docVars
  <2>13. Works' BY <1>1, <2>1, <2>2, <2>7, <2>10, <2>11, <2>12, ReadAndAsked
  <2> QED BY <1>4, <2>13 DEF ThumbnailsInv
<1> QED BY <1>5, <1>6

\* Pages are asked for, or only read while the document is not ready.
LEMMA Ensured ==
  ASSUME Works, opening \in Openings, NEW asked \in Seq(Pages), Ensure(asked),
         kept' = Touch(kept, asked), UNCHANGED <<layout, opening, status, icons, answers>>
  PROVE  Works'
<1>1. kept \in Seq(Pictures) BY DEF Works
<1>2. CASE status # "ready"
  <2>1. UNCHANGED <<states, queue, slots, tasks>> BY <1>2 DEF Ensure
  <2>2. PICK cache : cache = Touch(kept, asked) OBVIOUS
  <2>3. /\ cache \in Seq(Pictures) /\ Members(cache) \subseteq Members(kept)
        /\ KeptPages(cache) = KeptPages(kept) /\ Len(cache) <= Len(kept)
    BY <1>1, <2>2, Touched
  <2>4. kept' = cache BY <2>2
  <2> QED BY <2>1, <2>3, <2>4, OnlyRead
<1>3. CASE status = "ready"
  <2> DEFINE q == QueuePages(queue, kept, order, asked, 1)
  <2>1. Pump(q, slots, states, tasks) BY <1>3 DEF Ensure
  <2>2. Waits(q, slots, kept)
    <3>1. 1 \in 0 .. 2 OBVIOUS
    <3> QED BY <1>1, <3>1, WaitsNow, Queued
  <2> HIDE DEF q
  <2>3. DocumentTask \notin tasks /\ \A a \in answers : ~CountOf(a) BY <1>3, NothingAwaited
  <2>4. status' \notin {"null", "loading"} BY <1>3
  <2> QED BY <2>1, <2>2, <2>3, <2>4, ReadAndAsked
<1> QED BY <1>2, <1>3

LEMMA PanelRequestKeeps ==
  ASSUME ThumbnailsInv, NEW first, NEW last, InSight(first, last), PanelRequest(first, last)
  PROVE  ThumbnailsInv'
<1> DEFINE shown == SubSeq(order, first, last)
           asked == IF active = NoPage \/ active \in Members(shown) THEN shown
                    ELSE Append(shown, active)
<1>1. Shows /\ Works BY DEF ThumbnailsInv
<1>2. /\ UNCHANGED docVars /\ UNCHANGED <<icons, active, nextRow, answers, timer>>
      /\ asking' = FALSE
      /\ Ensure(asked) /\ kept' = Touch(kept, asked) /\ buttons' = Refreshed(Members(asked))
  BY DEF PanelRequest
<1>3. order \in Seq(Pages) /\ active \in Pages \cup {NoPage} /\ opening \in Openings
  BY <1>1 DEF Shows
<1>4. shown \in Seq(Pages)
  <2>1. first \in Nat \ {0} /\ last \in Int /\ last <= Len(order) BY DEF InSight
  <2> QED BY <1>3, <2>1, PartOf
<1> HIDE DEF shown
<1>5. asked \in Seq(Pages)
  <2>1. active # NoPage => Append(shown, active) \in Seq(Pages) BY <1>3, <1>4
  <2> QED BY <1>4, <2>1
<1> HIDE DEF asked
<1>6. UNCHANGED <<layout, opening, status, icons, answers>> BY <1>2 DEF docVars
<1>7. Works' BY <1>1, <1>2, <1>3, <1>5, <1>6, Ensured
<1>8. buttons' \in [Pages -> {Blank, opening}]
  <2>1. \A p \in KeptPages(kept) : Entry(kept, p).of = opening
    <3> TAKE p \in KeptPages(kept)
    <3>1. Entry(kept, p) \in Members(kept) BY Entered
    <3> QED BY <1>1, <3>1 DEF Works, Members
  <2>2. \A p \in Pages : buttons[p] \in {Blank, opening} BY <1>1 DEF Shows
  <2> QED BY <1>2, <2>1, <2>2 DEF Refreshed
<1>9. Openings' = Openings BY <1>6, BoundsStay
<1>10. Shows' BY <1>1, <1>2, <1>8, <1>9 DEF Shows, docVars
<1> QED BY <1>7, <1>10 DEF ThumbnailsInv

LEMMA SetActivePageKeeps ==
  ASSUME ThumbnailsInv, NEW p \in Pages, SetActivePage(p)
  PROVE  ThumbnailsInv'
<1>1. Shows /\ Works BY DEF ThumbnailsInv
<1>2. /\ UNCHANGED docVars /\ UNCHANGED <<icons, buttons, nextRow, answers, timer, asking>>
      /\ active' = p
  BY DEF SetActivePage
<1>3. UNCHANGED <<layout, opening, status, icons, answers>> BY <1>2 DEF docVars
<1>4. Openings' = Openings BY <1>3, BoundsStay
<1>5. Shows' BY <1>1, <1>2, <1>4 DEF Shows, docVars
<1>6. CASE layout = "strip" /\ status = "ready"
  <2> DEFINE asked == <<p>>
  <2>1. Ensure(asked) /\ kept' = Touch(kept, asked) BY <1>6 DEF SetActivePage
  <2>2. asked \in Seq(Pages) OBVIOUS
  <2> HIDE DEF asked
  <2>3. opening \in Openings BY <1>1 DEF Shows
  <2>4. Works' BY <1>1, <1>3, <2>1, <2>2, <2>3, Ensured
  <2> QED BY <1>5, <2>4 DEF ThumbnailsInv
<1>7. CASE ~(layout = "strip" /\ status = "ready")
  <2>1. UNCHANGED <<states, queue, slots, tasks, kept>> BY <1>7 DEF SetActivePage, Ensure
  <2>2. Works' BY <1>1, <1>3, <2>1, NothingChanges
  <2> QED BY <1>5, <2>2 DEF ThumbnailsInv
<1> QED BY <1>6, <1>7

LEMMA OrderFits ==
  ASSUME NEW rest \in Seq(Pages), NEW p \in Pages, NEW target \in Nat \ {0}, target <= Len(rest) + 1
  PROVE  SubSeq(rest, 1, target - 1) \o <<p>> \o SubSeq(rest, target, Len(rest)) \in Seq(Pages)
<1>1. Len(rest) \in Nat OBVIOUS
<1>2. target - 1 \in Int /\ target - 1 <= Len(rest) /\ 1 \in Nat \ {0} BY <1>1
<1> DEFINE x == SubSeq(rest, 1, target - 1)
           y == SubSeq(rest, target, Len(rest))
           z == <<p>>
<1>3. x \in Seq(Pages) BY <1>2, PartOf
<1>4. Len(rest) \in Int /\ Len(rest) <= Len(rest) BY <1>1
<1>5. y \in Seq(Pages) BY <1>4, PartOf
<1>6. z \in Seq(Pages) OBVIOUS
<1> HIDE DEF x, y, z
<1>7. x \o z \o y \in Seq(Pages) BY <1>3, <1>5, <1>6
<1> QED BY <1>7 DEF x, y, z

LEMMA MoveRowKeeps ==
  ASSUME ThumbnailsInv, NEW row \in 1 .. MaxRows, NEW target \in 1 .. MaxRows, MoveRow(row, target)
  PROVE  ThumbnailsInv'
<1> DEFINE rest == [i \in 1 .. Len(order) - 1 |-> IF i < row THEN order[i] ELSE order[i + 1]]
<1>1. Shows /\ Works BY DEF ThumbnailsInv
<1>2. /\ {row, target} \subseteq DOMAIN order
      /\ order' = SubSeq(rest, 1, target - 1) \o <<order[row]>> \o SubSeq(rest, target, Len(rest))
      /\ UNCHANGED <<layout, opening, status, announced, source>>
      /\ UNCHANGED <<states, listVars, workVars, timer, asking>>
  BY DEF MoveRow
<1>3. order \in Seq(Pages) /\ Len(order) \in Nat /\ DOMAIN order = 1 .. Len(order)
  BY <1>1 DEF Shows
<1>4. row \in 1 .. Len(order) /\ target \in 1 .. Len(order) /\ order[row] \in Pages
  BY <1>2, <1>3
<1>5. rest \in Seq(Pages) /\ Len(rest) = Len(order) - 1
  <2>1. Len(order) - 1 \in Nat BY <1>3, <1>4
  <2>2. \A i \in 1 .. Len(order) - 1 : i \in 1 .. Len(order) /\ i + 1 \in 1 .. Len(order) BY <1>3
  <2>3. rest \in [1 .. Len(order) - 1 -> Pages] BY <1>3, <2>2
  <2> HIDE DEF rest
  <2> QED BY <2>1, <2>3
<1> HIDE DEF rest
<1>6. target \in Nat \ {0} /\ target <= Len(rest) + 1 BY <1>3, <1>4, <1>5
<1>7. order' \in Seq(Pages) BY <1>2, <1>4, <1>5, <1>6, OrderFits
<1>8. Works' BY <1>1, <1>2, NothingChanges DEF listVars, workVars
<1>9. Openings' = Openings BY <1>2, BoundsStay
<1>10. Shows' BY <1>1, <1>2, <1>7, <1>9 DEF Shows, listVars
<1> QED BY <1>8, <1>10 DEF ThumbnailsInv

LEMMA DuplicateRowKeeps ==
  ASSUME ThumbnailsInv, NEW row \in 1 .. MaxRows, DuplicateRow(row)
  PROVE  ThumbnailsInv'
<1>1. Shows /\ Works BY DEF ThumbnailsInv
<1>2. /\ row \in DOMAIN order /\ active' = order[row]
      /\ order' = SubSeq(order, 1, row) \o SubSeq(order, row, Len(order))
      /\ UNCHANGED <<layout, opening, status, announced, source>>
      /\ UNCHANGED <<states, icons, buttons, kept, nextRow, workVars, timer, asking>>
  BY DEF DuplicateRow
<1>3. order \in Seq(Pages) /\ Len(order) \in Nat /\ DOMAIN order = 1 .. Len(order)
  BY <1>1 DEF Shows
<1>4. order[row] \in Pages /\ row \in Nat \ {0} /\ row \in Int /\ row <= Len(order)
  BY <1>2, <1>3
<1> DEFINE x == SubSeq(order, 1, row)
           y == SubSeq(order, row, Len(order))
<1>5. x \in Seq(Pages)
  <2>1. 1 \in Nat \ {0} OBVIOUS
  <2> QED BY <1>3, <1>4, <2>1, PartOf
<1>6. y \in Seq(Pages)
  <2>1. Len(order) \in Int /\ Len(order) <= Len(order) BY <1>3
  <2> QED BY <1>3, <1>4, <2>1, PartOf
<1> HIDE DEF x, y
<1>7. x \o y \in Seq(Pages) BY <1>5, <1>6
<1>8. order' \in Seq(Pages) BY <1>2, <1>7 DEF x, y
<1>9. Works' BY <1>1, <1>2, NothingChanges DEF workVars
<1>10. Openings' = Openings BY <1>2, BoundsStay
<1>11. Shows' BY <1>1, <1>2, <1>4, <1>8, <1>10 DEF Shows
<1> QED BY <1>9, <1>11 DEF ThumbnailsInv

LEMMA TaskEndsKeeps ==
  ASSUME ThumbnailsInv, NEW t \in tasks, NEW ok \in BOOLEAN, TaskEnds(t, ok)
  PROVE  ThumbnailsInv'
<1> DEFINE a == [of |-> t.of, page |-> t.page, ok |-> ok]
<1>1. Shows /\ Works BY DEF ThumbnailsInv
<1>2. /\ tasks' = tasks \ {t} /\ answers' = answers \cup {a}
      /\ UNCHANGED <<docVars, states, listVars, queue, slots, timer, asking>>
  BY DEF TaskEnds
<1>3. UNCHANGED <<layout, opening, status, announced, source, order, icons, buttons, kept, active,
                  nextRow, states, queue, slots, timer, asking>>
  BY <1>2 DEF docVars, listVars
<1>4. Openings' = Openings /\ Pictures' = Pictures /\ Tasks' = Tasks /\ Answers' = Answers
  BY <1>3, BoundsStay
<1>5. Shows' BY <1>1, <1>3, <1>4 DEF Shows
<1>6. /\ tasks \in SUBSET Tasks /\ answers \in SUBSET Answers /\ TasksInv /\ AwaitingInv
      /\ SlotsAreAlive /\ ListShowsTheCache
  BY <1>1 DEF Works
<1>7. t \in Tasks /\ t.of = opening /\ opening \in Openings BY <1>1, <1>6 DEF TasksInv, Shows
<1>8. t = [of |-> opening, page |-> t.page] /\ t.page \in Pages \cup {Document} BY <1>7 DEF Tasks
<1>9. a \in Answers /\ a.of = opening /\ a.page = t.page /\ a.ok = ok BY <1>7, <1>8 DEF Answers
<1>10. a = [of |-> opening, page |-> t.page, ok |-> ok] BY <1>7
<1> HIDE DEF a
<1>11. TasksInv'
  <2>1. opening <= opening
    <3>1. MaxOpenings \in Nat BY OpeningsAssumption DEF MaxOpenings
    <3> QED BY <1>7, <3>1 DEF Openings
  <2> QED BY <1>2, <1>3, <1>6, <1>9, <2>1 DEF TasksInv
<1>12. SlotsAreAlive'
  <2>1. ASSUME NEW p \in slots
        PROVE  \/ [of |-> opening, page |-> p] \in tasks'
               \/ \E b \in BOOLEAN : [of |-> opening, page |-> p, ok |-> b] \in answers'
    <3>1. CASE p = t.page BY <1>2, <1>10, <3>1
    <3>2. CASE p # t.page
      <4>1. [of |-> opening, page |-> p] # t
        <5>1. [of |-> opening, page |-> p].page = p OBVIOUS
        <5> QED BY <3>2, <5>1
      <4>2. \/ [of |-> opening, page |-> p] \in tasks
            \/ \E b \in BOOLEAN : [of |-> opening, page |-> p, ok |-> b] \in answers
        BY <1>6 DEF SlotsAreAlive
      <4> QED BY <1>2, <4>1, <4>2
    <3> QED BY <3>1, <3>2
  <2> QED BY <1>3, <1>6, <2>1 DEF SlotsAreAlive, Pending, QueuedPages
<1>13. AwaitingInv'
  <2>1. CASE t = DocumentTask
    <3>1. status = "loading" /\ \A b \in answers : ~CountOf(b) BY <1>6, <2>1 DEF AwaitingInv
    <3>2. DocumentTask' = DocumentTask BY <1>3 DEF DocumentTask
    <3>3. \A b \in answers' : CountOf(b)' => b = a BY <1>2, <1>3, <3>1 DEF CountOf
    <3> QED BY <1>2, <1>3, <1>6, <2>1, <3>1, <3>2, <3>3 DEF AwaitingInv
  <2>2. CASE t # DocumentTask
    <3>1. ~CountOf(a) BY <1>8, <1>9, <2>2 DEF CountOf, DocumentTask
    <3>2. DocumentTask' = DocumentTask BY <1>3 DEF DocumentTask
    <3>3. \A b \in answers' : CountOf(b)' => b \in answers /\ CountOf(b)
      BY <1>2, <1>3, <3>1 DEF CountOf
    <3> QED BY <1>2, <1>3, <1>6, <3>2, <3>3 DEF AwaitingInv
  <2> QED BY <2>1, <2>2
<1>14. ListShowsTheCache' BY <1>3, <1>6 DEF ListShowsTheCache, KeptPages
<1>15. tasks' \in SUBSET Tasks /\ answers' \in SUBSET Answers BY <1>2, <1>6, <1>9
<1>16. Works' BY <1>1, <1>3, <1>4, <1>11, <1>12, <1>13, <1>14, <1>15 DEF Works, Distinct
<1> QED BY <1>5, <1>16 DEF ThumbnailsInv

\* An answer is taken that nobody waits for in a slot, and nothing else of the work changes.
LEMMA AnswerTaken ==
  ASSUME Works, NEW a \in answers, answers' = answers \ {a},
         \A p \in slots, ok \in BOOLEAN : a # [of |-> opening, page |-> p, ok |-> ok],
         UNCHANGED <<layout, opening, icons, kept, queue, slots, tasks>>,
         states' \in [Pages -> PageStates],
         \A p \in Pages : states'[p] = "ready" <=> states[p] = "ready",
         \/ status' = status
         \/ status' \notin {"null", "loading"} /\ CountOf(a)
  PROVE  Works'
<1>1. Pictures' = Pictures /\ Tasks' = Tasks /\ Answers' = Answers BY BoundsStay
<1>2. ListShowsTheCache /\ SlotsAreAlive /\ TasksInv /\ AwaitingInv BY DEF Works
<1>3. ListShowsTheCache' BY <1>2 DEF ListShowsTheCache, KeptPages
<1>4. SlotsAreAlive'
  <2>1. \A p \in slots, ok \in BOOLEAN :
           [of |-> opening, page |-> p, ok |-> ok] \in answers
             => [of |-> opening, page |-> p, ok |-> ok] \in answers'
    OBVIOUS
  <2>2. QueuedPages(queue)' = QueuedPages(queue) BY DEF QueuedPages
  <2>3. \A p \in slots :
          \/ [of |-> opening, page |-> p] \in tasks
          \/ \E ok \in BOOLEAN : [of |-> opening, page |-> p, ok |-> ok] \in answers'
    BY <1>2, <2>1, Zenon DEF SlotsAreAlive
  <2>4. /\ Cardinality(slots) <= MaxInFlight /\ QueuedPages(queue) \cap slots = {}
        /\ queue # <<>> => Cardinality(slots) = MaxInFlight
    BY <1>2 DEF SlotsAreAlive
  <2>5. /\ \A p \in slots' :
             \/ [of |-> opening', page |-> p] \in tasks'
             \/ \E ok \in BOOLEAN : [of |-> opening', page |-> p, ok |-> ok] \in answers'
        /\ Cardinality(slots') <= MaxInFlight /\ QueuedPages(queue)' \cap slots' = {}
        /\ queue' # <<>> => Cardinality(slots') = MaxInFlight
    BY <2>2, <2>3, <2>4
  <2>6. (KeptPages(kept) \cap Pending = {})' BY <1>2, <2>2 DEF SlotsAreAlive, Pending, KeptPages
  <2> QED BY <2>5, <2>6 DEF SlotsAreAlive
<1>5. TasksInv' BY <1>2 DEF TasksInv
<1>6. AwaitingInv'
  <2>1. \A b \in answers' : b \in answers /\ (CountOf(b)' <=> CountOf(b)) BY DEF CountOf
  <2>2. DocumentTask' = DocumentTask BY DEF DocumentTask
  <2>3. CASE status' = status BY <1>2, <2>1, <2>2, <2>3 DEF AwaitingInv
  <2>4. CASE status' \notin {"null", "loading"} /\ CountOf(a)
    <3>1. DocumentTask \notin tasks BY <1>2, <2>4 DEF AwaitingInv
    <3>2. \A b \in answers' : ~CountOf(b) BY <1>2, <2>1, <2>4 DEF AwaitingInv
    <3> QED BY <2>1, <2>2, <2>4, <3>1, <3>2 DEF AwaitingInv
  <2> QED BY <2>3, <2>4
<1> QED BY <1>1, <1>3, <1>4, <1>5, <1>6 DEF Works, Distinct

LEMMA CountNeedsNoSlot ==
  ASSUME Works, NEW a \in answers, a.page = Document
  PROVE  \A p \in slots, ok \in BOOLEAN : a # [of |-> opening, page |-> p, ok |-> ok]
<1> SUFFICES ASSUME NEW p \in slots, NEW ok \in BOOLEAN, a = [of |-> opening, page |-> p, ok |-> ok]
             PROVE  FALSE
  OBVIOUS
<1>1. p \in Pages /\ Document \notin Pages BY PagesAreNumbers DEF Works, Document
<1>2. a.page = p OBVIOUS
<1> QED BY <1>1, <1>2

LEMMA DocumentReadyKeeps ==
  ASSUME ThumbnailsInv, NEW a, NEW count \in PageCounts, DocumentReady(a, count)
  PROVE  ThumbnailsInv'
<1> DEFINE n == IF announced # 0 THEN announced ELSE count
           rows == IF order = <<>> THEN FirstPages(n) ELSE order
<1>1. Shows /\ Works BY DEF ThumbnailsInv
<1>2. /\ a \in answers /\ a.of = opening /\ a.page = Document
      /\ answers' = answers \ {a} /\ status' = "ready"
      /\ order' = rows /\ source' = IF order = <<>> THEN n ELSE source
      /\ active' = IF active = NoPage THEN rows[1] ELSE active
      /\ IF layout = "strip"
         THEN AskForRows(rows, nextRow) /\ UNCHANGED timer
         ELSE timer' = TRUE /\ UNCHANGED <<kept, nextRow, queue, slots, tasks, states>>
      /\ UNCHANGED <<layout, opening, announced, icons, buttons, asking>>
  BY DEF DocumentReady
<1>3. CountOf(a) /\ AwaitingInv BY <1>1, <1>2 DEF CountOf, Works
<1>4. status = "loading" /\ DocumentTask \notin tasks /\ \A b \in answers' : ~CountOf(b)
  BY <1>2, <1>3 DEF AwaitingInv
<1>5. n \in PageCounts /\ n # 0
  <2>1. 0 \notin PageCounts BY PagesAssumption
  <2> QED BY <1>1, <2>1 DEF Shows
<1>6. rows \in Seq(Pages) /\ rows[1] \in Pages
  <2>1. FirstPages(n) \in Seq(Pages) /\ FirstPages(n)[1] \in Pages BY <1>5, FirstPagesFit
  <2>2. order \in Seq(Pages) BY <1>1 DEF Shows
  <2>3. order # <<>> => order[1] \in Pages BY <2>2
  <2> QED BY <2>1, <2>2, <2>3
<1> HIDE DEF n, rows
<1>7. Works' /\ nextRow' \in Nat
  <2>1. CASE layout = "strip"
    <3>1. AskForRows(rows, nextRow) BY <1>2, <2>1
    <3>2. \A b \in answers : b.page \in Pages => b \in answers'
      <4>1. Document \notin Pages BY PagesAreNumbers DEF Document
      <4> QED BY <1>2, <4>1
    <3>3. opening \in Openings /\ nextRow \in Nat BY <1>1 DEF Shows
    <3>4. status' \notin {"null", "loading"} /\ answers' \subseteq answers BY <1>2
    <3> QED BY <1>1, <1>2, <1>4, <1>6, <3>1, <3>2, <3>3, <3>4, RowsAsked
  <2>2. CASE layout # "strip"
    <3>1. UNCHANGED <<kept, nextRow, queue, slots, tasks, states>> BY <1>2, <2>2
    <3>2. states \in [Pages -> PageStates] BY <1>1 DEF Works
    <3>3. \A p \in slots, ok \in BOOLEAN : a # [of |-> opening, page |-> p, ok |-> ok]
      BY <1>1, <1>2, CountNeedsNoSlot
    <3>4. UNCHANGED <<layout, opening, icons, kept, queue, slots, tasks>> BY <1>2, <3>1
    <3>5. status' \notin {"null", "loading"} /\ CountOf(a) BY <1>2, <1>3
    <3>6. Works' BY <1>1, <1>2, <3>1, <3>2, <3>3, <3>4, <3>5, AnswerTaken
    <3>7. nextRow' \in Nat BY <1>1, <3>1 DEF Shows
    <3> QED BY <3>6, <3>7
  <2> QED BY <2>1, <2>2
<1>8. Openings' = Openings BY <1>2, BoundsStay
<1>9. timer' \in BOOLEAN BY <1>1, <1>2 DEF Shows
<1>10. Shows' BY <1>1, <1>2, <1>4, <1>5, <1>6, <1>7, <1>8, <1>9 DEF Shows
<1> QED BY <1>7, <1>10 DEF ThumbnailsInv

LEMMA DocumentFailedKeeps ==
  ASSUME ThumbnailsInv, NEW a, DocumentFailed(a)
  PROVE  ThumbnailsInv'
<1>1. Shows /\ Works BY DEF ThumbnailsInv
<1>2. /\ a \in answers /\ a.of = opening /\ a.page = Document
      /\ answers' = answers \ {a} /\ status' = "error"
      /\ states' = [p \in Pages |-> IF p \in Members(order) THEN "error" ELSE states[p]]
      /\ UNCHANGED <<layout, opening, announced, source, order>>
      /\ UNCHANGED <<listVars, queue, slots, tasks, timer, asking>>
  BY DEF DocumentFailed
<1>3. CountOf(a) /\ AwaitingInv BY <1>1, <1>2 DEF CountOf, Works
<1>4. status = "loading" /\ kept = <<>> BY <1>2, <1>3 DEF AwaitingInv
<1>5. \A p \in Pages : states[p] # "ready"
  <2>1. KeptPages(kept) = {} BY <1>4 DEF KeptPages
  <2> QED BY <1>1, <2>1 DEF Works, ListShowsTheCache
<1>6. states' \in [Pages -> PageStates] /\ \A p \in Pages : states'[p] # "ready"
  <2>1. states \in [Pages -> PageStates] BY <1>1 DEF Works
  <2> QED BY <1>2, <1>5, <2>1 DEF PageStates
<1>7. \A p \in slots, ok \in BOOLEAN : a # [of |-> opening, page |-> p, ok |-> ok]
  BY <1>1, <1>2, CountNeedsNoSlot
<1>8. UNCHANGED <<layout, opening, icons, kept, queue, slots, tasks>> BY <1>2 DEF listVars
<1>9. status' \notin {"null", "loading"} BY <1>2
<1>10. Works' BY <1>1, <1>2, <1>3, <1>5, <1>6, <1>7, <1>8, <1>9, AnswerTaken
<1>11. Openings' = Openings BY <1>2, BoundsStay
<1>12. Shows' BY <1>1, <1>2, <1>4, <1>11 DEF Shows, listVars
<1> QED BY <1>10, <1>12 DEF ThumbnailsInv

LEMMA StaleAnswerKeeps ==
  ASSUME ThumbnailsInv, NEW a, StaleAnswer(a)
  PROVE  ThumbnailsInv'
<1>1. Shows /\ Works BY DEF ThumbnailsInv
<1>2. /\ a \in answers /\ a.of # opening /\ answers' = answers \ {a}
      /\ UNCHANGED <<docVars, states, listVars, queue, slots, tasks, timer, asking>>
  BY DEF StaleAnswer
<1>3. \A p \in slots, ok \in BOOLEAN : a # [of |-> opening, page |-> p, ok |-> ok]
  <2>1. \A p \in slots, ok \in BOOLEAN : [of |-> opening, page |-> p, ok |-> ok].of = opening OBVIOUS
  <2> QED BY <1>2, <2>1
<1>4. UNCHANGED <<layout, opening, icons, kept, queue, slots, tasks, states, status>>
  BY <1>2 DEF docVars, listVars
<1>5. states' \in [Pages -> PageStates] BY <1>1, <1>4 DEF Works
<1>6. Works' BY <1>1, <1>2, <1>3, <1>4, <1>5, AnswerTaken
<1>7. Openings' = Openings BY <1>4, BoundsStay
<1>8. Shows' BY <1>1, <1>2, <1>7 DEF Shows, docVars, listVars
<1> QED BY <1>6, <1>8 DEF ThumbnailsInv

\* A slot that is given on, and what its answer leaves awaited.
LEMMA SlotFreed ==
  ASSUME ThumbnailsInv, NEW a \in answers, a.of = opening, a.page \in slots
  PROVE  /\ a.page \in Pages /\ a.page \notin KeptPages(kept) /\ a.page \notin QueuedPages(queue)
         /\ 0 < opening /\ status \notin {"null", "loading"}
         /\ DocumentTask \notin tasks /\ \A b \in answers : ~CountOf(b)
         /\ slots \ {a.page} \in SUBSET slots
         /\ Cardinality(slots \ {a.page}) <= MaxInFlight
         /\ \A b \in answers : b.page \in slots \ {a.page} => b \in answers \ {a}
<1>1. Shows /\ Works BY DEF ThumbnailsInv
<1>2. slots \in SUBSET Pages /\ SlotsAreAlive /\ AwaitingInv BY <1>1 DEF Works
<1>3. a.page \in Pages /\ a.page \notin KeptPages(kept) /\ a.page \notin QueuedPages(queue)
  BY <1>2 DEF SlotsAreAlive, Pending
<1>4. status \notin {"null", "loading"} BY <1>2 DEF AwaitingInv
<1>5. 0 < opening BY <1>1, <1>4 DEF Shows
<1>6. DocumentTask \notin tasks /\ \A b \in answers : ~CountOf(b) BY <1>1, <1>4, NothingAwaited
<1>7. Cardinality(slots \ {a.page}) <= MaxInFlight
  <2>1. IsFiniteSet(slots) BY <1>2, PagesAreNumbers, FS_Subset
  <2>2. slots \ {a.page} \in SUBSET slots OBVIOUS
  <2>3. IsFiniteSet(slots \ {a.page}) /\ Cardinality(slots \ {a.page}) <= Cardinality(slots)
    BY <2>1, <2>2, FS_Subset
  <2>4. Cardinality(slots) \in Nat /\ Cardinality(slots \ {a.page}) \in Nat /\ MaxInFlight \in Nat
    BY <2>1, <2>3, FS_CardinalityType, LimitsAssumption
  <2>5. Cardinality(slots) <= MaxInFlight BY <1>2 DEF SlotsAreAlive
  <2> QED BY <2>3, <2>4, <2>5
<1> QED BY <1>3, <1>4, <1>5, <1>6, <1>7

LEMMA PageRenderedKeeps ==
  ASSUME ThumbnailsInv, NEW a, PageRendered(a)
  PROVE  ThumbnailsInv'
<1>1. Shows /\ Works BY DEF ThumbnailsInv
<1> DEFINE picture == [page |-> a.page, of |-> a.of]
           busy == slots \ {a.page}
<1>2. PICK cache : cache = Put(kept, picture) OBVIOUS
<1> DEFINE evicted == KeptPages(kept) \ KeptPages(cache)
           said == [p \in Pages |-> IF p = a.page THEN "ready"
                                    ELSE IF p \in evicted THEN "loading" ELSE states[p]]
<1>3. /\ a \in answers /\ a.of = opening /\ a.page \in slots
      /\ answers' = answers \ {a} /\ kept' = cache
      /\ icons' = [p \in Pages |-> IF p = a.page THEN a.of
                                    ELSE IF p \in evicted THEN Blank ELSE icons[p]]
      /\ Pump(queue, busy, said, tasks)
      /\ buttons' = IF layout = "strip" THEN [buttons EXCEPT ![a.page] = a.of] ELSE buttons
      /\ UNCHANGED <<docVars, active, nextRow, timer, asking>>
  BY <1>2 DEF PageRendered
<1>4. /\ a.page \in Pages /\ a.page \notin KeptPages(kept) /\ a.page \notin QueuedPages(queue)
      /\ 0 < opening /\ status \notin {"null", "loading"}
      /\ DocumentTask \notin tasks /\ \A b \in answers : ~CountOf(b)
      /\ busy \in SUBSET slots /\ Cardinality(busy) <= MaxInFlight
      /\ \A b \in answers : b.page \in busy => b \in answers'
  BY <1>3, SlotFreed
<1>5. opening \in Openings /\ picture \in Pictures /\ picture.page = a.page /\ picture.of = opening
  <2>1. opening \in Openings BY <1>1 DEF Shows
  <2> QED BY <1>3, <1>4, <2>1 DEF Pictures
<1>6. /\ kept \in Seq(Pictures) /\ states \in [Pages -> PageStates] /\ Len(kept) <= Capacity
      /\ KeptPages(kept) = {p \in Pages : icons[p] # Blank}
      /\ KeptPages(kept) = {p \in Pages : states[p] = "ready"}
      /\ \A k \in Members(kept) : k.of = opening
  BY <1>1 DEF Works, ListShowsTheCache, Members
<1> HIDE DEF picture
<1>7. /\ cache \in Seq(Pictures) /\ Members(cache) \subseteq Members(kept) \cup {picture}
      /\ a.page \in KeptPages(cache) /\ KeptPages(cache) \subseteq KeptPages(kept) \cup {a.page}
      /\ Len(cache) <= Capacity
  BY <1>2, <1>5, <1>6, Joins
<1>8. \A i \in DOMAIN cache : cache[i].of = opening
  <2>1. \A k \in Members(cache) : k.of = opening BY <1>5, <1>6, <1>7
  <2> QED BY <2>1 DEF Members
<1>9. \A p \in Pages : p \in KeptPages(cache) <=> p = a.page \/ (p \in KeptPages(kept) /\ p \notin evicted)
  BY <1>7
<1> HIDE DEF evicted
<1>10. KeptPages(cache) = {p \in Pages : icons'[p] # Blank}
  <2>1. KeptPages(cache) \subseteq Pages BY <1>4, <1>6, <1>7
  <2>2. a.of # Blank BY <1>3, <1>4 DEF Blank
  <2>3. \A p \in Pages : p \in KeptPages(cache) <=> icons'[p] # Blank
    BY <1>3, <1>6, <1>9, <2>2
  <2> QED BY <2>1, <2>3
<1>11. KeptPages(cache) = {p \in Pages : said[p] = "ready"}
  <2>1. KeptPages(cache) \subseteq Pages BY <1>4, <1>6, <1>7
  <2>2. \A p \in Pages : p \in KeptPages(cache) <=> said[p] = "ready" BY <1>6, <1>9
  <2> QED BY <2>1, <2>2
<1>12. said \in [Pages -> PageStates] BY <1>6 DEF PageStates
<1>13. busy \cap KeptPages(cache) = {} /\ Waits(queue, busy, cache)
  <2>1. slots \cap KeptPages(kept) = {} BY <1>1 DEF Works, SlotsAreAlive, Pending
  <2>2. Waits(queue, slots, kept) BY <1>1, WaitsNow
  <2> QED BY <1>4, <1>7, <2>1, <2>2 DEF Waits
<1>14. /\ layout' = layout /\ opening' = opening /\ status' \notin {"null", "loading"}
       /\ answers' \subseteq answers /\ \A b \in answers' : ~CountOf(b)
  BY <1>3, <1>4 DEF docVars
<1> HIDE DEF busy, said
<1>15. Works'
  BY <1>1, <1>3, <1>4, <1>5, <1>7, <1>8, <1>10, <1>11, <1>12, <1>13, <1>14, WorkGoesOn
<1>16. icons' \in [Pages -> {Blank, opening}] /\ buttons' \in [Pages -> {Blank, opening}]
  <2>1. icons \in [Pages -> {Blank, opening}] /\ buttons \in [Pages -> {Blank, opening}]
    BY <1>1 DEF Shows
  <2> QED BY <1>3, <2>1
<1>17. Openings' = Openings BY <1>14, BoundsStay
<1>18. Shows' BY <1>1, <1>3, <1>14, <1>16, <1>17 DEF Shows, docVars
<1> QED BY <1>15, <1>18 DEF ThumbnailsInv

LEMMA PageFailedKeeps ==
  ASSUME ThumbnailsInv, NEW a, PageFailed(a)
  PROVE  ThumbnailsInv'
<1>1. Shows /\ Works BY DEF ThumbnailsInv
<1> DEFINE busy == slots \ {a.page}
           said == [states EXCEPT ![a.page] = "error"]
<1>2. /\ a \in answers /\ a.of = opening /\ a.page \in slots
      /\ answers' = answers \ {a} /\ icons' = [icons EXCEPT ![a.page] = Blank]
      /\ Pump(queue, busy, said, tasks)
      /\ UNCHANGED <<docVars, buttons, kept, active, nextRow, timer, asking>>
  BY DEF PageFailed
<1>3. /\ a.page \in Pages /\ a.page \notin KeptPages(kept)
      /\ status \notin {"null", "loading"}
      /\ DocumentTask \notin tasks /\ \A b \in answers : ~CountOf(b)
      /\ busy \in SUBSET slots /\ Cardinality(busy) <= MaxInFlight
      /\ \A b \in answers : b.page \in busy => b \in answers'
  BY <1>2, SlotFreed
<1>4. PICK cache : cache = kept OBVIOUS
<1>5. /\ cache \in Seq(Pictures) /\ states \in [Pages -> PageStates] /\ Len(cache) <= Capacity
      /\ KeptPages(cache) = {p \in Pages : icons[p] # Blank}
      /\ KeptPages(cache) = {p \in Pages : states[p] = "ready"}
      /\ \A i \in DOMAIN cache : cache[i].of = opening
  BY <1>1, <1>4 DEF Works, ListShowsTheCache
<1>6. icons \in [Pages -> {Blank, opening}] /\ opening \in Openings BY <1>1 DEF Shows
<1>7. KeptPages(cache) = {p \in Pages : icons'[p] # Blank}
  <2>1. icons[a.page] = Blank BY <1>3, <1>4, <1>5
  <2>2. icons' = icons BY <1>2, <1>6, <2>1
  <2> QED BY <1>5, <2>2
<1>8. KeptPages(cache) = {p \in Pages : said[p] = "ready"}
  <2>1. states[a.page] # "ready" BY <1>3, <1>4, <1>5
  <2>2. \A p \in Pages : said[p] = "ready" <=> states[p] = "ready" BY <1>5, <2>1
  <2> QED BY <1>5, <2>2
<1>9. said \in [Pages -> PageStates] BY <1>5 DEF PageStates
<1>10. busy \cap KeptPages(cache) = {} /\ Waits(queue, busy, cache)
  <2>1. slots \cap KeptPages(kept) = {} BY <1>1 DEF Works, SlotsAreAlive, Pending
  <2>2. Waits(queue, slots, kept) BY <1>1, WaitsNow
  <2> QED BY <1>3, <1>4, <2>1, <2>2 DEF Waits
<1>11. /\ layout' = layout /\ opening' = opening /\ status' \notin {"null", "loading"}
       /\ answers' \subseteq answers /\ (\A b \in answers' : ~CountOf(b)) /\ kept' = cache
  BY <1>2, <1>3, <1>4 DEF docVars
<1> HIDE DEF busy, said
<1>12. Works'
  BY <1>1, <1>2, <1>3, <1>5, <1>6, <1>7, <1>8, <1>9, <1>10, <1>11, WorkGoesOn
<1>13. icons' \in [Pages -> {Blank, opening}] BY <1>2, <1>6
<1>14. Openings' = Openings BY <1>11, BoundsStay
<1>15. Shows' BY <1>1, <1>2, <1>11, <1>13, <1>14 DEF Shows, docVars
<1> QED BY <1>12, <1>15 DEF ThumbnailsInv

LEMMA NothingDone ==
  ASSUME ThumbnailsInv, UNCHANGED <<docVars, states, listVars, workVars, timer, asking>>
  PROVE  ThumbnailsInv'
<1>1. Shows /\ Works BY DEF ThumbnailsInv
<1>2. Works' BY <1>1, NothingChanges DEF docVars, listVars, workVars
<1>3. Openings' = Openings BY BoundsStay DEF docVars
<1>4. Shows' BY <1>1, <1>3 DEF Shows, docVars, listVars
<1> QED BY <1>2, <1>4 DEF ThumbnailsInv

LEMMA GestureKeeps ==
  ASSUME ThumbnailsInv, Gesture
  PROVE  ThumbnailsInv'
<1>1. CASE \E count \in PageCounts \cup {0} : SetDocument(count) BY <1>1, SetDocumentKeeps
<1>2. CASE ClearDocument BY <1>2, ClearDocumentKeeps
<1>3. CASE RenderNextBatch BY <1>3, RenderNextBatchKeeps
<1>4. CASE Scroll BY <1>4, ScrollKeeps
<1>5. CASE \E p \in Pages : SetActivePage(p) BY <1>5, SetActivePageKeeps
<1>6. CASE \E row, target \in 1 .. MaxRows : MoveRow(row, target) BY <1>6, MoveRowKeeps
<1>7. CASE \E row \in 1 .. MaxRows : DuplicateRow(row) BY <1>7, DuplicateRowKeeps
<1> QED BY <1>1, <1>2, <1>3, <1>4, <1>5, <1>6, <1>7 DEF Gesture

LEMMA NoRowsInSight ==
  ASSUME ThumbnailsInv, order = <<>> PROVE InSight(1, 0)
<1>1. Len(order) = 0 OBVIOUS
<1> QED BY <1>1 DEF InSight

LEMMA RowsInSight ==
  ASSUME ThumbnailsInv, NEW r \in Rows PROVE InSight(r[1], r[2])
<1>1. r \in (1 .. MaxRows) \X (1 .. MaxRows) /\ r[2] <= Len(order) BY DEF Rows
<1>2. r[1] \in 1 .. MaxRows /\ r[2] \in 1 .. MaxRows BY <1>1
<1> QED BY <1>1, <1>2, PagesAssumption DEF InSight

LEMMA ReactionKeeps ==
  ASSUME ThumbnailsInv, Reaction
  PROVE  ThumbnailsInv'
<1>1. CASE TimerFires
  <2>1. CASE order = <<>> /\ RequestVisible(1, 0) BY <2>1, NoRowsInSight, RequestVisibleKeeps
  <2>2. CASE \E r \in Rows : RequestVisible(r[1], r[2]) BY <2>2, RowsInSight, RequestVisibleKeeps
  <2> QED BY <1>1, <2>1, <2>2 DEF TimerFires
<1>2. CASE PanelFires
  <2>1. CASE order = <<>> /\ PanelRequest(1, 0) BY <2>1, NoRowsInSight, PanelRequestKeeps
  <2>2. CASE \E r \in Rows : PanelRequest(r[1], r[2]) BY <2>2, RowsInSight, PanelRequestKeeps
  <2> QED BY <1>2, <2>1, <2>2 DEF PanelFires
<1>3. CASE TaskReturns BY <1>3, TaskEndsKeeps DEF TaskReturns
<1>4. CASE AnswerArrives
  <2>1. PICK a \in answers : Deliver(a) BY <1>4 DEF AnswerArrives
  <2>2. CASE \E count \in PageCounts : DocumentReady(a, count) BY <2>2, DocumentReadyKeeps
  <2>3. CASE DocumentFailed(a) BY <2>3, DocumentFailedKeeps
  <2>4. CASE StaleAnswer(a) BY <2>4, StaleAnswerKeeps
  <2>5. CASE PageRendered(a) BY <2>5, PageRenderedKeeps
  <2>6. CASE PageFailed(a) BY <2>6, PageFailedKeeps
  <2> QED BY <2>1, <2>2, <2>3, <2>4, <2>5, <2>6 DEF Deliver
<1> QED BY <1>1, <1>2, <1>3, <1>4 DEF Reaction

LEMMA ThumbnailsStep == ThumbnailsInv /\ [Next]_vars => ThumbnailsInv'
<1> SUFFICES ASSUME ThumbnailsInv, [Next]_vars PROVE ThumbnailsInv' OBVIOUS
<1>1. CASE Gesture BY <1>1, GestureKeeps
<1>2. CASE Leave BY <1>2, NothingDone DEF Leave
<1>3. CASE Reaction BY <1>3, ReactionKeeps
<1>4. CASE UNCHANGED vars BY <1>4, NothingDone DEF vars
<1> QED BY <1>1, <1>2, <1>3, <1>4 DEF Next

LEMMA ThumbnailsInvariance == FairSpec => []ThumbnailsInv
<1> QED BY ThumbnailsInit, ThumbnailsStep, PTL DEF FairSpec, Spec

(* Types: whatever the counts, the capacity and the slots, the list, the cache and the
   queue hold pages of documents that were opened. *)
THEOREM ThumbnailsTypes == FairSpec => []TypeOK
BY ThumbnailsInvariance, InvSaysSo, PTL

(* No picture of an earlier document is in the list, on the buttons or in the cache,
   in whatever order tasks and answers of several openings end. *)
THEOREM PicturesAreOfThisOpeningHolds == FairSpec => []PicturesAreOfThisOpening
BY ThumbnailsInvariance, InvSaysSo, PTL

(* The list shows what the bounded cache holds, each slot that is taken has a task or an
   answer to free it, and a page waits only while all slots are taken. *)
THEOREM CacheAndSlotsAgreeHolds == FairSpec => []CacheAndSlotsAgree
BY ThumbnailsInvariance, InvSaysSo, PTL
=============================================================================
