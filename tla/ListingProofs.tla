---------------------------- MODULE ListingProofs ----------------------------
(***************************************************************************)
(* Why a walk over changing mailboxes misses nothing that was settled when *)
(* it began, and an undisturbed one is exact: ListingInv is inductive.  A  *)
(* page is described by IsPage, the stable sort of two pages by            *)
(* BatchPlaces; a change of the mailboxes only moves a settled message     *)
(* further from the windows already returned, and a window that does not   *)
(* hold it leads to a token that still does.  When nothing changes, what   *)
(* was returned is what the cursor has passed.                             *)
(***************************************************************************)
EXTENDS Listing, FiniteSetTheorems, SequenceTheorems, TLAPS

\* A strict total order of S.
Orders(R, S) ==
  /\ \A x \in S : <<x, x>> \notin R
  /\ \A x, y \in S : x = y \/ <<x, y>> \in R \/ <<y, x>> \in R
  /\ \A x, y, z \in S : <<x, y>> \in R /\ <<y, z>> \in R => <<x, z>> \in R

\* Sorted holds every element of a finite set once, at the place of its rank.
LEMMA SortedByRank ==
  ASSUME NEW S, IsFiniteSet(S), NEW R, Orders(R, S)
  PROVE  /\ Cardinality(S) \in Nat
         /\ Sorted(S, R) \in [1..Cardinality(S) -> S]
         /\ \A x \in S : /\ Rank(x, S, R) \in 0..(Cardinality(S) - 1)
                         /\ Sorted(S, R)[Rank(x, S, R) + 1] = x
         /\ \A i \in 1..Cardinality(S) : Rank(Sorted(S, R)[i], S, R) = i - 1
         /\ \A x, y \in S : <<x, y>> \in R => Rank(x, S, R) < Rank(y, S, R)
<1> DEFINE n == Cardinality(S)
           Before(x) == {y \in S : <<y, x>> \in R}
           rank(x) == Rank(x, S, R)
<1>1. n \in Nat
  BY FS_CardinalityType
<1>2. ASSUME NEW x \in S
      PROVE  Before(x) \subseteq S \ {x} /\ rank(x) = Cardinality(Before(x))
  BY DEF Orders, Rank
<1>3. ASSUME NEW x \in S, NEW y \in S, <<x, y>> \in R
      PROVE  x \in Before(y) /\ Before(x) \subseteq Before(y) \ {x}
  BY <1>3 DEF Orders
<1>4. \A i \in 1..n : Sorted(S, R)[i] = CHOOSE x \in S : rank(x) = i - 1
  BY DEF Sorted
<1> HIDE DEF n, Before, rank
<1>5. ASSUME NEW x \in S
      PROVE  IsFiniteSet(Before(x)) /\ rank(x) \in 0..(n - 1)
  <2>1. IsFiniteSet(S \ {x}) /\ Cardinality(S \ {x}) = n - 1
    BY FS_RemoveElement DEF n
  <2>2. IsFiniteSet(Before(x)) /\ Cardinality(Before(x)) <= n - 1
    BY <1>2, <2>1, FS_Subset
  <2>3. Cardinality(Before(x)) \in Nat
    BY <2>2, FS_CardinalityType
  <2>4. QED BY <1>1, <1>2, <2>2, <2>3
<1>6. ASSUME NEW x \in S, NEW y \in S, <<x, y>> \in R
      PROVE  rank(x) < rank(y)
  <2>1. IsFiniteSet(Before(y) \ {x}) /\ Cardinality(Before(y) \ {x}) = rank(y) - 1
    BY <1>2, <1>3, <1>5, <1>6, FS_RemoveElement
  <2>2. Cardinality(Before(x)) <= rank(y) - 1
    BY <1>3, <1>6, <2>1, FS_Subset
  <2>3. QED BY <1>1, <1>2, <1>5, <2>2
<1>7. ASSUME NEW x \in S, NEW y \in S, rank(x) = rank(y)
      PROVE  x = y
  <2>1. ~(<<x, y>> \in R) /\ ~(<<y, x>> \in R)
    BY <1>1, <1>5, <1>6, <1>7
  <2>2. QED BY <2>1 DEF Orders
<1>8. ASSUME NEW i \in 1..n
      PROVE  \E x \in S : rank(x) = i - 1
  <2> DEFINE place == [x \in S |-> rank(x) + 1]
  <2>1. \A x \in S : place[x] \in 1..n
    BY <1>1, <1>5
  <2>2. \A x, y \in S : place[x] = place[y] => x = y
    BY <1>1, <1>5, <1>7
  <2>3. place \in Injection(S, 1..n)
    BY <2>1, <2>2 DEF Injection, IsInjective
  <2>4. IsFiniteSet(1..n) /\ Cardinality(1..n) = n
    BY <1>1, FS_Interval
  <2>5. place \in Surjection(S, 1..n)
    BY <2>3, <2>4, FS_Injection DEF n
  <2>6. PICK x \in S : place[x] = i
    BY <2>5 DEF Surjection
  <2>7. rank(x) = i - 1
    BY <1>1, <1>5, <2>6
  <2>8. QED BY <2>7
<1>9. ASSUME NEW i \in 1..n
      PROVE  Sorted(S, R)[i] \in S /\ rank(Sorted(S, R)[i]) = i - 1
  BY <1>4, <1>8
<1>10. ASSUME NEW x \in S
      PROVE  Sorted(S, R)[rank(x) + 1] = x
  <2>1. rank(x) + 1 \in 1..n /\ rank(x) \in Nat
    BY <1>1, <1>5
  <2>2. Sorted(S, R)[rank(x) + 1] \in S /\ rank(Sorted(S, R)[rank(x) + 1]) = rank(x)
    BY <1>9, <2>1
  <2>3. QED BY <1>7, <2>2
<1>11. Sorted(S, R) \in [1..n -> S]
  BY <1>9 DEF Sorted, n
<1>12. QED
  BY <1>1, <1>5, <1>6, <1>9, <1>10, <1>11 DEF n, rank

-----------------------------------------------------------------------------
(* A page of one mailbox *)

PlaceIn(t, A) == Rank(t, A, NewestFirst)

\* r is a page of the tasks of A, newest first, and names the one after it.
IsPage(r, A) ==
  /\ r.tasks \in Seq(Entries) /\ Len(r.tasks) <= PageSize
  /\ r.next \in Tasks \cup {Start} /\ r.total \in Nat
  /\ \A i, j \in 1..Len(r.tasks) : i < j => r.tasks[i].stamp >= r.tasks[j].stamp
  /\ \A t \in A :
       IF PlaceIn(t, A) < PageSize
       THEN /\ PlaceIn(t, A) + 1 \in 1..Len(r.tasks)
            /\ r.tasks[PlaceIn(t, A) + 1] = [id |-> t, stamp |-> stamp[t]]
       ELSE r.next \in Tasks /\ (t = r.next \/ Newer(r.next, t))
  /\ \A c \in Nat : Cardinality({i \in 1..Len(r.tasks) : r.tasks[i].stamp >= c}) =
                      Least(PageSize, Cardinality(Since(A, c)))

StampsOK == stamp \in [Tasks -> Nat]

\* The model's sets of tasks are finite, and a subset is no larger.
LEMMA TasksAreFinite ==
  ASSUME NEW A \in SUBSET Tasks
  PROVE  /\ IsFiniteSet(A) /\ Cardinality(A) \in Nat /\ Tasks \subseteq Nat
         /\ \A B \in SUBSET A : /\ IsFiniteSet(B) /\ Cardinality(B) \in Nat
                                /\ Cardinality(B) <= Cardinality(A)
<1>1. MaxTasks \in Nat /\ 1 \in Int /\ MaxTasks \in Int
  BY ListingAssumption
<1>2. IsFiniteSet(1..MaxTasks)
  BY <1>1, FS_Interval
<1>3. IsFiniteSet(A)
  BY <1>2, FS_Subset DEF Tasks
<1>4. \A B \in SUBSET A : IsFiniteSet(B) /\ Cardinality(B) <= Cardinality(A)
  BY <1>3, FS_Subset
<1>5. QED
  BY <1>1, <1>3, <1>4, FS_CardinalityType DEF Tasks

\* There are n numbers from 1 to n.
LEMMA IntervalSize ==
  ASSUME NEW n \in Nat
  PROVE  IsFiniteSet(1..n) /\ Cardinality(1..n) = n
<1>1. 1 \in Int /\ n \in Int
  OBVIOUS
<1>2. IsFiniteSet(1..n) /\ Cardinality(1..n) = IF 1 > n THEN 0 ELSE n - 1 + 1
  BY <1>1, FS_Interval
<1>3. QED BY <1>2

\* Newest first, by descending id among equal timestamps, is a strict total order.
LEMMA NewestFirstOrders ==
  ASSUME StampsOK, NEW A \in SUBSET Tasks
  PROVE  Orders(NewestFirst, A)
<1>1. \A s, t \in Tasks : <<s, t>> \in NewestFirst <=> Newer(s, t)
  BY DEF NewestFirst
<1>2. \A t \in Tasks : stamp[t] \in Nat /\ t \in Nat
  BY ListingAssumption DEF StampsOK, Tasks
<1>3. QED
  BY <1>1, <1>2 DEF Orders, Newer

\* The tasks of a timestamp of at least c come first.
LEMMA SinceComesFirst ==
  ASSUME StampsOK, NEW A \in SUBSET Tasks, NEW c \in Nat, NEW t \in A
  PROVE  stamp[t] >= c <=> PlaceIn(t, A) < Cardinality(Since(A, c))
<1> DEFINE above == {s \in A : <<s, t>> \in NewestFirst}
<1>1. above \subseteq A /\ Since(A, c) \subseteq A /\ PlaceIn(t, A) = Cardinality(above)
  BY DEF PlaceIn, Rank, Since
<1>2. /\ \A s \in A : s \in above <=> Newer(s, t)
      /\ \A s \in A : stamp[s] \in Nat
      /\ t \notin above
  BY ListingAssumption DEF NewestFirst, StampsOK, Newer, Tasks
<1>3. /\ IsFiniteSet(above) /\ Cardinality(above) \in Nat
      /\ IsFiniteSet(Since(A, c)) /\ Cardinality(Since(A, c)) \in Nat
  BY <1>1, TasksAreFinite
<1>4. CASE stamp[t] >= c
  <2>1. above \cup {t} \subseteq Since(A, c)
    BY <1>2, <1>4 DEF Since, Newer
  <2>2. Cardinality(above \cup {t}) = Cardinality(above) + 1
    BY <1>2, <1>3, FS_AddElement
  <2>3. Cardinality(above \cup {t}) <= Cardinality(Since(A, c))
    BY <1>3, <2>1, FS_Subset
  <2>4. QED BY <1>1, <1>3, <1>4, <2>2, <2>3
<1>5. CASE ~(stamp[t] >= c)
  <2>1. Since(A, c) \subseteq above
    BY <1>2, <1>5 DEF Since, Newer
  <2>2. Cardinality(Since(A, c)) <= Cardinality(above)
    BY <1>3, <2>1, FS_Subset
  <2>3. QED BY <1>1, <1>3, <1>5, <2>2
<1>6. QED
  BY <1>4, <1>5

\* Who is newer comes before.
LEMMA NewerIsBefore ==
  ASSUME StampsOK, NEW A \in SUBSET Tasks, NEW s \in A, NEW t \in A, Newer(s, t)
  PROVE  PlaceIn(s, A) < PlaceIn(t, A)
<1>1. Orders(NewestFirst, A) /\ <<s, t>> \in NewestFirst /\ IsFiniteSet(A)
  BY NewestFirstOrders, TasksAreFinite DEF NewestFirst
<1>2. QED BY <1>1, SortedByRank DEF PlaceIn

\* ListOwner answers with the first page of what is left, and respects its order.
LEMMA ListOwnerIsPage ==
  ASSUME StampsOK, NEW o, NEW k
  PROVE  IsPage(ListOwner(o, k), Rest(o, k))
<1> DEFINE A == Rest(o, k)
           m == Cardinality(A)
           rest == Sorted(A, NewestFirst)
           r == ListOwner(o, k)
           n == Least(PageSize, m)
           page == IF Len(rest) > PageSize THEN SubSeq(rest, 1, PageSize) ELSE rest
<1>1. A \in SUBSET Tasks /\ Mailbox(o) \in SUBSET Tasks
  BY DEF Rest, Mailbox
<1>2. /\ IsFiniteSet(A) /\ m \in Nat /\ A \subseteq Nat /\ PageSize \in Nat /\ PageSize >= 1
      /\ n \in Nat /\ n <= m /\ n <= PageSize
  BY <1>1, TasksAreFinite, ListingAssumption DEF Least
<1>3. /\ rest \in [1..m -> A]
      /\ \A t \in A : PlaceIn(t, A) \in 0..(m - 1) /\ rest[PlaceIn(t, A) + 1] = t
      /\ \A i \in 1..m : PlaceIn(rest[i], A) = i - 1
  BY <1>1, <1>2, NewestFirstOrders, SortedByRank DEF PlaceIn
<1>4. r = [tasks |-> [i \in DOMAIN page |-> [id |-> page[i], stamp |-> stamp[page[i]]]],
           next |-> IF Len(rest) > PageSize THEN rest[PageSize + 1] ELSE Start,
           total |-> Cardinality(Mailbox(o))]
  BY DEF ListOwner
<1> HIDE DEF A, m, rest, r, n
<1>5. rest \in Seq(A) /\ Len(rest) = m
  BY <1>2, <1>3
<1>6. DOMAIN page = 1..n /\ \A i \in 1..n : page[i] = rest[i]
  BY <1>2, <1>5 DEF n, Least
<1> HIDE DEF page
<1>7. r.tasks = [i \in 1..n |-> [id |-> rest[i], stamp |-> stamp[rest[i]]]]
  BY <1>4, <1>6
<1>8. \A i \in 1..n : rest[i] \in A /\ rest[i] \in Tasks /\ stamp[rest[i]] \in Nat
  BY <1>1, <1>2, <1>3 DEF StampsOK, A
<1>9. r.tasks \in Seq(Entries) /\ Len(r.tasks) = n
  <2>1. \A i \in 1..n : [id |-> rest[i], stamp |-> stamp[rest[i]]] \in Entries
    BY <1>8 DEF Entries
  <2>2. r.tasks \in [1..n -> Entries]
    BY <1>7, <2>1
  <2>3. QED BY <2>2, <1>2
<1>10. r.next \in Tasks \cup {Start} /\ r.total \in Nat
  BY <1>1, <1>2, <1>3, <1>4, <1>5, TasksAreFinite DEF A
<1>11. \A i, j \in 1..n : i < j => r.tasks[i].stamp >= r.tasks[j].stamp
  <2> SUFFICES ASSUME NEW i \in 1..n, NEW j \in 1..n, i < j
               PROVE  stamp[rest[i]] >= stamp[rest[j]]
    BY <1>7
  <2>1. PlaceIn(rest[i], A) = i - 1 /\ PlaceIn(rest[j], A) = j - 1
    BY <1>2, <1>3
  <2>2. PICK c \in Nat : c = stamp[rest[j]]
    BY <1>8
  <2>3. stamp[rest[j]] >= c => j - 1 < Cardinality(Since(A, c))
    BY <1>8, <2>1, SinceComesFirst, <1>1 DEF A
  <2>4. i - 1 < Cardinality(Since(A, c)) => stamp[rest[i]] >= c
    BY <1>8, <2>1, SinceComesFirst, <1>1 DEF A
  <2>5. Cardinality(Since(A, c)) \in Nat
    BY <1>1, TasksAreFinite DEF A, Since
  <2>6. QED BY <1>2, <1>8, <2>2, <2>3, <2>4, <2>5
<1>12. ASSUME NEW t \in A
       PROVE  IF PlaceIn(t, A) < PageSize
              THEN /\ PlaceIn(t, A) + 1 \in 1..n
                   /\ r.tasks[PlaceIn(t, A) + 1] = [id |-> t, stamp |-> stamp[t]]
              ELSE r.next \in Tasks /\ (t = r.next \/ Newer(r.next, t))
  <2>1. CASE PlaceIn(t, A) < PageSize
    <3>1. PlaceIn(t, A) + 1 \in 1..n
      BY <1>2, <1>3, <2>1 DEF n, Least
    <3>2. QED BY <1>3, <1>7, <2>1, <3>1
  <2>2. CASE ~(PlaceIn(t, A) < PageSize)
    <3>1. m > PageSize /\ PageSize + 1 \in 1..m
      BY <1>2, <1>3, <2>2
    <3>2. r.next = rest[PageSize + 1] /\ r.next \in A /\ r.next \in Tasks
      BY <1>1, <1>3, <1>4, <1>5, <3>1 DEF A
    <3>3. PlaceIn(r.next, A) = PageSize
      BY <1>2, <1>3, <3>1, <3>2
    <3>4. ~Newer(t, r.next)
      <4>1. SUFFICES ASSUME Newer(t, r.next) PROVE FALSE
        OBVIOUS
      <4>2. PlaceIn(t, A) < PlaceIn(r.next, A)
        BY <4>1, <3>2, <1>1, NewerIsBefore DEF A
      <4>3. QED BY <1>2, <1>3, <2>2, <3>3, <4>2
    <3>5. stamp[t] \in Nat /\ stamp[r.next] \in Nat /\ t \in Nat /\ r.next \in Nat
      BY <1>1, <1>2, <3>2 DEF A, StampsOK
    <3>6. QED BY <2>2, <3>2, <3>4, <3>5 DEF Newer
  <2>3. QED BY <2>1, <2>2
<1>13. ASSUME NEW c \in Nat
       PROVE  Cardinality({i \in 1..n : r.tasks[i].stamp >= c}) =
                Least(PageSize, Cardinality(Since(A, c)))
  <2> DEFINE q == Cardinality(Since(A, c))
  <2>1. q \in Nat /\ q <= m
    BY <1>1, TasksAreFinite DEF A, Since, m
  <2>2. \A i \in 1..n : r.tasks[i].stamp >= c <=> i - 1 < q
    <3> SUFFICES ASSUME NEW i \in 1..n PROVE stamp[rest[i]] >= c <=> i - 1 < q
      BY <1>7
    <3>1. PlaceIn(rest[i], A) = i - 1
      BY <1>2, <1>3
    <3>2. QED BY <1>1, <1>8, <3>1, SinceComesFirst DEF A
  <2> HIDE DEF q
  <2>3. {i \in 1..n : r.tasks[i].stamp >= c} = 1..Least(PageSize, q)
    BY <1>2, <2>1, <2>2 DEF n, Least
  <2>4. Least(PageSize, q) \in Nat
    BY <1>2, <2>1 DEF Least
  <2>5. Cardinality(1..Least(PageSize, q)) = Least(PageSize, q)
    BY <2>4, IntervalSize
  <2>6. QED BY <2>3, <2>5 DEF q
<1>14. QED
  BY <1>2, <1>9, <1>10, <1>11, <1>12, <1>13 DEF IsPage, r, A

\* So does a mailbox that was read to the end, with an empty page of nothing.
LEMMA RespondIsPage ==
  ASSUME StampsOK, NEW o, NEW k
  PROVE  IsPage(Respond(o, k), Ahead(o, k))
<1>1. CASE k # EXHAUSTED
  BY <1>1, ListOwnerIsPage DEF Respond, Ahead
<1>2. CASE k = EXHAUSTED
  <2> DEFINE r == [tasks |-> <<>>, next |-> Start, total |-> 0]
  <2>1. Respond(o, k) = r /\ Ahead(o, k) = {}
    BY <1>2 DEF Respond, Ahead
  <2>2. r.tasks = <<>> /\ r.next = Start /\ r.total = 0
    OBVIOUS
  <2> HIDE DEF r
  <2>3. r.tasks \in Seq(Entries) /\ Len(r.tasks) = 0 /\ \A i \in 1..Len(r.tasks) : FALSE
    BY <2>2
  <2>4. Cardinality({}) = 0 /\ Least(PageSize, 0) = 0 /\ PageSize \in Nat
    BY FS_EmptySet, ListingAssumption DEF Least
  <2>5. ASSUME NEW c \in Nat
        PROVE  Cardinality({i \in 1..Len(r.tasks) : r.tasks[i].stamp >= c}) =
                 Least(PageSize, Cardinality(Since({}, c)))
    <3>1. {i \in 1..Len(r.tasks) : r.tasks[i].stamp >= c} = {} /\ Since({}, c) = {}
      BY <2>3 DEF Since
    <3>2. QED BY <2>4, <3>1
  <2>6. IsPage(r, {})
    BY <2>2, <2>3, <2>4, <2>5 DEF IsPage
  <2>7. QED BY <2>1, <2>6
<1>3. QED
  BY <1>1, <1>2

-----------------------------------------------------------------------------
(* A batch of two pages *)

\* Moving the numbers of a set by n keeps their count.
LEMMA Shifted ==
  ASSUME NEW J, IsFiniteSet(J), J \subseteq Int, NEW n \in Int
  PROVE  /\ IsFiniteSet({n + j : j \in J})
         /\ Cardinality({n + j : j \in J}) = Cardinality(J)
<1> DEFINE T == {n + j : j \in J}
           f == [j \in J |-> n + j]
<1>1. f \in [J -> T] /\ \A t \in T : \E j \in J : f[j] = t
  OBVIOUS
<1>2. \A i, j \in J : f[i] = f[j] => i = j
  OBVIOUS
<1>3. f \in Bijection(J, T)
  BY <1>1, <1>2 DEF Bijection, Injection, Surjection, IsInjective
<1>4. ExistsBijection(J, T)
  BY <1>3 DEF ExistsBijection
<1>5. QED BY <1>4, FS_Bijection

\* The stable sort of a batch: an entry of the session's page comes behind those of its page that
\* precede it and the agent's newer ones, an entry of the agent's page also behind the session's
\* of its own timestamp.
LEMMA BatchPlaces ==
  ASSUME NEW answer,
         answer["session"].tasks \in Seq(Entries), Descends(answer["session"].tasks),
         answer["agent"].tasks \in Seq(Entries), Descends(answer["agent"].tasks)
  PROVE  LET a == answer["session"].tasks
             b == answer["agent"].tasks
             batch == MergeBatch(answer)
         IN  /\ batch \in Seq(Tasks) /\ Len(batch) = Len(a) + Len(b)
             /\ \A i \in 1..Len(a) :
                  LET place == i - 1 + NewerIn(b, a[i].stamp + 1)
                  IN  place + 1 \in 1..Len(batch) /\ batch[place + 1] = a[i].id
             /\ \A j \in 1..Len(b) :
                  LET place == j - 1 + NewerIn(a, b[j].stamp)
                  IN  place + 1 \in 1..Len(batch) /\ batch[place + 1] = b[j].id
             /\ \E order \in [1..Len(batch) -> 1..Len(batch)] :
                  /\ \A i \in 1..Len(batch) : batch[i] = (a \o b)[order[i]].id
                  /\ \A i, j \in 1..Len(batch) : i < j =>
                       /\ order[i] # order[j]
                       /\ (a \o b)[order[i]].stamp >= (a \o b)[order[j]].stamp
<1> DEFINE a == answer["session"].tasks
           b == answer["agent"].tasks
           all == a \o b
           places == 1..Len(all)
           before == {p \in places \X places :
                        \/ all[p[1]].stamp > all[p[2]].stamp
                        \/ all[p[1]].stamp = all[p[2]].stamp /\ p[1] < p[2]}
           order == Sorted(places, before)
           na == Len(a)
           nb == Len(b)
<1>1. MergeBatch(answer) = [i \in DOMAIN order |-> all[order[i]].id]
  BY DEF MergeBatch
<1>2. a \in Seq(Entries) /\ b \in Seq(Entries) /\ Descends(a) /\ Descends(b)
  OBVIOUS
<1> HIDE DEF a, b
<1>3. /\ na \in Nat /\ nb \in Nat /\ Len(all) = na + nb /\ all \in Seq(Entries)
      /\ \A i \in 1..na : all[i] = a[i] /\ a[i] \in Entries
      /\ \A j \in 1..nb : all[na + j] = b[j] /\ b[j] \in Entries
  <2>1. na \in Nat /\ nb \in Nat /\ DOMAIN a = 1..na /\ DOMAIN b = 1..nb
    BY <1>2
  <2>2. all \in Seq(Entries) /\ Len(all) = na + nb
    BY <1>2
  <2>3. \A i \in 1..na : all[i] = a[i] /\ a[i] \in Entries
    BY <1>2, <2>1
  <2>4. ASSUME NEW j \in 1..nb PROVE all[na + j] = b[j] /\ b[j] \in Entries
    <3>1. na + j \in 1..(na + nb) /\ ~(na + j <= na) /\ na + j - na = j
      BY <2>1
    <3>2. QED BY <1>2, <2>1, <3>1
  <2>5. QED BY <2>1, <2>2, <2>3, <2>4
<1>4. \A p, q \in places : <<p, q>> \in before <=>
        \/ all[p].stamp > all[q].stamp
        \/ all[p].stamp = all[q].stamp /\ p < q
  OBVIOUS
<1>5. places = 1..(na + nb)
  BY <1>3
<1> HIDE DEF all, before, na, nb, order, places
<1>12. /\ IsFiniteSet(places) /\ Cardinality(places) = na + nb
       /\ \A p \in places : all[p] \in Entries /\ all[p].stamp \in Nat /\ all[p].id \in Tasks /\ p \in Nat
  <2>1. na + nb \in Nat
    BY <1>3
  <2>2. IsFiniteSet(places) /\ Cardinality(places) = na + nb
    BY <1>5, <2>1, IntervalSize
  <2>3. \A p \in places : all[p] \in Entries /\ p \in Nat
    BY <1>3, <1>5, <2>1
  <2>4. QED BY <2>2, <2>3 DEF Entries
<1>13. Orders(before, places)
  BY <1>4, <1>12 DEF Orders
<1>6. /\ order \in [1..(na + nb) -> places]
      /\ \A p \in places : /\ Rank(p, places, before) \in 0..(na + nb - 1)
                           /\ order[Rank(p, places, before) + 1] = p
      /\ \A i \in 1..(na + nb) : Rank(order[i], places, before) = i - 1
      /\ \A p, q \in places :
           <<p, q>> \in before => Rank(p, places, before) < Rank(q, places, before)
  <2>1. /\ order \in [1..Cardinality(places) -> places]
        /\ \A p \in places : /\ Rank(p, places, before) \in 0..(Cardinality(places) - 1)
                             /\ order[Rank(p, places, before) + 1] = p
        /\ \A i \in 1..Cardinality(places) : Rank(order[i], places, before) = i - 1
        /\ \A p, q \in places :
             <<p, q>> \in before => Rank(p, places, before) < Rank(q, places, before)
    BY <1>12, <1>13, SortedByRank DEF order
  <2>2. Cardinality(places) = na + nb
    BY <1>12
  <2>3. QED BY <1>3, <2>1, <2>2
<1>14. /\ \A i \in 1..na : i \in places /\ all[i].stamp = a[i].stamp
       /\ \A j \in 1..nb : na + j \in places /\ all[na + j].stamp = b[j].stamp
       /\ \A i, j \in 1..na : i < j => all[i].stamp >= all[j].stamp
       /\ \A i, j \in 1..nb : i < j => all[na + i].stamp >= all[na + j].stamp
  <2>1. \A i \in 1..na : i \in places /\ all[i].stamp = a[i].stamp /\ i \in Nat
    BY <1>3, <1>5
  <2>2. \A j \in 1..nb : na + j \in places /\ all[na + j].stamp = b[j].stamp /\ j \in Nat
    BY <1>3, <1>5
  <2>3. \A i, j \in 1..na : i < j => a[i].stamp >= a[j].stamp
    BY <1>2 DEF Descends, na
  <2>4. \A i, j \in 1..nb : i < j => b[i].stamp >= b[j].stamp
    BY <1>2 DEF Descends, nb
  <2>5. QED BY <2>1, <2>2, <2>3, <2>4
<1>7. /\ MergeBatch(answer) = [i \in 1..(na + nb) |-> all[order[i]].id]
      /\ MergeBatch(answer) \in Seq(Tasks) /\ Len(MergeBatch(answer)) = na + nb
  <2>1. MergeBatch(answer) = [i \in 1..(na + nb) |-> all[order[i]].id]
    BY <1>1, <1>6
  <2>2. MergeBatch(answer) \in [1..(na + nb) -> Tasks]
    BY <1>12, <1>6, <2>1
  <2>3. na + nb \in Nat
    BY <1>3
  <2>4. QED BY <2>1, <2>2, <2>3
<1>8. ASSUME NEW p \in places
      PROVE  /\ Rank(p, places, before) + 1 \in 1..(na + nb)
             /\ MergeBatch(answer)[Rank(p, places, before) + 1] = all[p].id
  <2>1. Rank(p, places, before) + 1 \in 1..(na + nb)
    BY <1>3, <1>6
  <2>2. QED BY <1>6, <1>7, <2>1
<1>9. ASSUME NEW i \in 1..na
      PROVE  /\ i \in places
             /\ Rank(i, places, before) = i - 1 + NewerIn(b, a[i].stamp + 1)
  <2> DEFINE J == {j \in 1..nb : b[j].stamp >= a[i].stamp + 1}
             T == {na + j : j \in J}
  <2>1. {p \in places : <<p, i>> \in before} = 1..(i - 1) \cup T
    <3>1. ASSUME NEW p \in 1..na
          PROVE  p \in places /\ (<<p, i>> \in before <=> p < i)
      BY <1>3, <1>4, <1>12, <1>14
    <3>2. ASSUME NEW j \in 1..nb
          PROVE  na + j \in places /\ (<<na + j, i>> \in before <=> j \in J)
      <4>1. /\ na + j \in places /\ i \in places /\ ~(na + j < i)
            /\ all[na + j].stamp = b[j].stamp /\ all[i].stamp = a[i].stamp
        BY <1>3, <1>14
      <4>2. b[j].stamp \in Nat /\ a[i].stamp \in Nat
        BY <1>12, <4>1
      <4>3. <<na + j, i>> \in before <=> b[j].stamp > a[i].stamp
        BY <1>4, <4>1
      <4>4. QED BY <4>1, <4>2, <4>3
    <3>3. ASSUME NEW p \in places PROVE p \in 1..na \/ \E j \in 1..nb : p = na + j
      <4>1. CASE p > na
        <5>1. p - na \in 1..nb /\ p = na + (p - na)
          BY <4>1, <1>3, <1>5
        <5>2. QED BY <5>1
      <4>2. QED BY <4>1, <1>3, <1>5
    <3>4. \A j \in J : j \in 1..nb
      OBVIOUS
    <3> HIDE DEF J
    <3>5. ASSUME NEW p \in places
          PROVE  <<p, i>> \in before <=> p \in 1..(i - 1) \cup T
      <4>1. CASE p \in 1..na
        <5>1. \A j \in J : p # na + j
          BY <4>1, <1>3, <3>4
        <5>2. p \notin T
          BY <5>1
        <5>3. p \in 1..(i - 1) <=> p < i
          BY <4>1, <1>3
        <5>4. QED BY <3>1, <4>1, <5>2, <5>3
      <4>2. ASSUME NEW j \in 1..nb, p = na + j PROVE <<p, i>> \in before <=> p \in 1..(i - 1) \cup T
        <5>1. p \notin 1..(i - 1)
          BY <4>2, <1>3
        <5>2. \A k \in J : na + k = na + j => k = j
          BY <1>3, <3>4
        <5>3. p \in T <=> j \in J
          BY <4>2, <5>2
        <5>4. QED BY <3>2, <4>2, <5>1, <5>3
      <4>3. QED BY <3>3, <4>1, <4>2
    <3>6. \A p \in 1..(i - 1) \cup T : p \in places
      <4>1. \A p \in 1..(i - 1) : p \in 1..na
        BY <1>3
      <4>2. QED BY <3>1, <3>2, <3>4, <4>1
    <3> HIDE DEF T
    <3>7. QED BY <3>5, <3>6
  <2>2. J \subseteq 1..nb /\ J \subseteq Int /\ na \in Int /\ IsFiniteSet(1..nb)
    BY <1>3, IntervalSize
  <2>3. IsFiniteSet(J) /\ Cardinality(J) \in Nat
    BY <2>2, FS_Subset, FS_CardinalityType
  <2>4. Cardinality(J) = NewerIn(b, a[i].stamp + 1)
    BY DEF NewerIn, nb
  <2> HIDE DEF J
  <2>5. IsFiniteSet(T) /\ Cardinality(T) = Cardinality(J)
    BY <2>2, <2>3, Shifted
  <2>6. IsFiniteSet(1..(i - 1)) /\ Cardinality(1..(i - 1)) = i - 1
    <3>1. i - 1 \in Nat
      BY <1>3
    <3>2. QED BY <3>1, IntervalSize
  <2>7. (1..(i - 1)) \cap T = {}
    BY <1>3, <2>2
  <2> HIDE DEF T
  <2>8. Cardinality(1..(i - 1) \cup T) = i - 1 + Cardinality(J)
    <3>1. Cardinality(1..(i - 1) \cup T) = (i - 1) + Cardinality(J) - Cardinality({})
      BY <2>5, <2>6, <2>7, FS_Union
    <3>2. QED BY <1>3, <2>3, <3>1, FS_EmptySet
  <2>9. i \in places
    BY <1>3, <1>5
  <2>10. QED BY <2>1, <2>4, <2>8, <2>9 DEF Rank
<1>10. ASSUME NEW m \in 1..nb
       PROVE  /\ na + m \in places
              /\ Rank(na + m, places, before) = m - 1 + NewerIn(a, b[m].stamp)
  <2> DEFINE I == {i \in 1..na : a[i].stamp >= b[m].stamp}
             T == {na + j : j \in 1..(m - 1)}
  <2>1. {p \in places : <<p, na + m>> \in before} = I \cup T
    <3>1. ASSUME NEW p \in 1..na
          PROVE  p \in places /\ na + m \in places /\ (<<p, na + m>> \in before <=> p \in I)
      <4>1. /\ na + m \in places /\ p \in places /\ p < na + m
            /\ all[na + m].stamp = b[m].stamp /\ all[p].stamp = a[p].stamp
        BY <1>3, <1>14
      <4>2. b[m].stamp \in Nat /\ a[p].stamp \in Nat
        BY <1>12, <4>1
      <4>3. <<p, na + m>> \in before <=> a[p].stamp > b[m].stamp \/ a[p].stamp = b[m].stamp
        BY <1>4, <4>1
      <4>4. QED BY <4>1, <4>2, <4>3
    <3>2. ASSUME NEW j \in 1..nb
          PROVE  na + j \in places /\ (<<na + j, na + m>> \in before <=> j < m)
      <4>1. na + j \in places /\ na + m \in places
        BY <1>14
      <4>2. all[na + j].stamp \in Nat /\ all[na + m].stamp \in Nat
        BY <1>12, <4>1
      <4>3. (j < m => all[na + j].stamp >= all[na + m].stamp)
            /\ (m < j => all[na + m].stamp >= all[na + j].stamp)
        BY <1>14
      <4>4. na + j < na + m <=> j < m
        BY <1>3
      <4>5. m = j \/ m < j \/ j < m
        BY <1>3
      <4>6. <<na + j, na + m>> \in before <=>
              \/ all[na + j].stamp > all[na + m].stamp
              \/ all[na + j].stamp = all[na + m].stamp /\ j < m
        BY <1>4, <4>1, <4>4
      <4>7. QED BY <4>1, <4>2, <4>3, <4>5, <4>6
    <3>3. ASSUME NEW p \in places PROVE p \in 1..na \/ \E j \in 1..nb : p = na + j
      <4>1. CASE p > na
        <5>1. p - na \in 1..nb /\ p = na + (p - na)
          BY <4>1, <1>3, <1>5
        <5>2. QED BY <5>1
      <4>2. QED BY <4>1, <1>3, <1>5
    <3>4. \A p \in I : p \in 1..na
      OBVIOUS
    <3> HIDE DEF I
    <3>5. ASSUME NEW p \in places
          PROVE  <<p, na + m>> \in before <=> p \in I \cup T
      <4>1. CASE p \in 1..na
        <5>1. \A j \in 1..(m - 1) : p # na + j
          BY <4>1, <1>3
        <5>2. p \notin T
          BY <5>1
        <5>3. QED BY <3>1, <4>1, <5>2
      <4>2. ASSUME NEW j \in 1..nb, p = na + j PROVE <<p, na + m>> \in before <=> p \in I \cup T
        <5>1. p \notin I
          BY <4>2, <1>3, <3>4
        <5>2. \A k \in 1..(m - 1) : na + k = na + j => k = j
          BY <1>3
        <5>3. p \in T <=> j \in 1..(m - 1)
          BY <4>2, <5>2
        <5>4. j \in 1..(m - 1) <=> j < m
          BY <1>3
        <5>5. QED BY <3>2, <4>2, <5>1, <5>3, <5>4
      <4>3. QED BY <3>3, <4>1, <4>2
    <3>6. \A p \in I \cup T : p \in places
      <4>1. \A j \in 1..(m - 1) : j \in 1..nb
        BY <1>3
      <4>2. QED BY <3>1, <3>2, <3>4, <4>1
    <3> HIDE DEF T
    <3>7. QED BY <3>5, <3>6
  <2>2. I \subseteq 1..na /\ IsFiniteSet(1..na) /\ m - 1 \in Nat /\ 1..(m - 1) \subseteq Int /\ na \in Int
    BY <1>3, IntervalSize
  <2>3. IsFiniteSet(I) /\ Cardinality(I) \in Nat
    BY <2>2, FS_Subset, FS_CardinalityType
  <2>4. Cardinality(I) = NewerIn(a, b[m].stamp)
    BY DEF NewerIn, na
  <2> HIDE DEF I
  <2>5. IsFiniteSet(1..(m - 1)) /\ Cardinality(1..(m - 1)) = m - 1
    BY <2>2, IntervalSize
  <2>6. IsFiniteSet(T) /\ Cardinality(T) = m - 1
    BY <2>2, <2>5, Shifted
  <2>7. I \cap T = {}
    BY <1>3, <2>2
  <2> HIDE DEF T
  <2>8. Cardinality(I \cup T) = m - 1 + Cardinality(I)
    <3>1. Cardinality(I \cup T) = Cardinality(I) + (m - 1) - Cardinality({})
      BY <2>3, <2>6, <2>7, FS_Union
    <3>2. QED BY <1>3, <2>3, <3>1, FS_EmptySet
  <2>9. na + m \in places
    BY <1>3, <1>5
  <2>10. QED BY <2>1, <2>4, <2>8, <2>9 DEF Rank
<1>15. ASSUME NEW i \in 1..(na + nb), NEW j \in 1..(na + nb), i < j
       PROVE  order[i] # order[j] /\ all[order[i]].stamp >= all[order[j]].stamp
  <2>1. order[i] \in places /\ order[j] \in places
    BY <1>6
  <2>2. Rank(order[i], places, before) = i - 1 /\ Rank(order[j], places, before) = j - 1
    BY <1>6
  <2>3. order[i] # order[j] /\ <<order[j], order[i]>> \notin before
    <3>1. i \in Nat /\ j \in Nat /\ ~(j - 1 < i - 1) /\ i - 1 # j - 1
      BY <1>3, <1>15
    <3>2. <<order[j], order[i]>> \in before => Rank(order[j], places, before) < Rank(order[i], places, before)
      BY <1>6, <2>1
    <3>3. QED BY <2>2, <3>1, <3>2
  <2>4. <<order[i], order[j]>> \in before
    BY <1>13, <2>1, <2>3 DEF Orders
  <2>5. all[order[i]].stamp \in Nat /\ all[order[j]].stamp \in Nat
    BY <1>12, <2>1
  <2>6. QED BY <1>4, <2>1, <2>3, <2>4, <2>5
<1>11. QED
  <2>1. ASSUME NEW i \in 1..na
        PROVE  LET place == i - 1 + NewerIn(b, a[i].stamp + 1)
               IN  place + 1 \in 1..(na + nb) /\ MergeBatch(answer)[place + 1] = a[i].id
    BY <1>3, <1>8, <1>9
  <2>2. ASSUME NEW j \in 1..nb
        PROVE  LET place == j - 1 + NewerIn(a, b[j].stamp)
               IN  place + 1 \in 1..(na + nb) /\ MergeBatch(answer)[place + 1] = b[j].id
    BY <1>3, <1>8, <1>10
  <2>3. PICK f : f = order
    OBVIOUS
  <2>4. /\ f \in [1..(na + nb) -> 1..(na + nb)]
        /\ \A i \in 1..(na + nb) : MergeBatch(answer)[i] = all[f[i]].id
        /\ \A i, j \in 1..(na + nb) : i < j =>
             f[i] # f[j] /\ all[f[i]].stamp >= all[f[j]].stamp
    BY <1>5, <1>6, <1>7, <1>15, <2>3
  <2>5. /\ MergeBatch(answer) \in Seq(Tasks) /\ Len(MergeBatch(answer)) = na + nb
    BY <1>7
  <2>6. QED BY <2>1, <2>2, <2>4, <2>5 DEF a, b, na, nb, all

-----------------------------------------------------------------------------
(* A change of the mailboxes *)

\* What settled stays where and as it is.
SettledStays ==
  \A s \in Tasks : stamp[s] > 0 => /\ stamp'[s] = stamp[s]
                                   /\ owner[s] \in Owners => owner'[s] = owner[s]

\* What the type of the page token says of its fields.
LEMMA CursorShape ==
  ASSUME cursor \in Cursors
  PROVE  /\ \A o \in Owners : cursor.tokens[o] \in Tasks \cup {Start, EXHAUSTED}
         /\ \A o \in Owners : cursor.totals[o] \in Nat \cup {-1}
         /\ cursor.skip \in Nat /\ cursor.skip \in 0..(2 * PageSize - 1)
         /\ \A o : Left(o) \in SUBSET Tasks
BY ListingAssumption DEF Cursors, Left, Ahead, Rest, Mailbox

\* A change takes no task of a timestamp away that is ahead.
LEMMA AheadGrows ==
  ASSUME StampsOK, SettledStays, NEW o \in Owners, NEW k \in Tasks \cup {Start, EXHAUSTED},
         NEW s \in Ahead(o, k), stamp[s] > 0
  PROVE  s \in Ahead(o, k)' /\ s \in Tasks /\ stamp'[s] = stamp[s] /\ owner'[s] = owner[s]
<1>1. k # EXHAUSTED /\ s \in Tasks /\ owner[s] = o /\ (k = Start \/ k = s \/ Newer(k, s))
  BY DEF Ahead, Rest, Mailbox
<1>2. stamp'[s] = stamp[s] /\ owner'[s] = o
  BY <1>1 DEF SettledStays
<1>3. CASE k = Start \/ k = s
  BY <1>1, <1>2, <1>3 DEF Ahead, Rest, Mailbox
<1>4. CASE k # Start /\ Newer(k, s)
  <2>1. k \in Tasks /\ stamp[k] \in Nat /\ stamp[s] \in Nat
    BY <1>1, <1>4 DEF StampsOK
  <2>2. stamp'[k] = stamp[k]
    BY <1>4, <2>1 DEF Newer, SettledStays
  <2>3. Newer(k, s)'
    BY <1>2, <1>4, <2>2 DEF Newer
  <2>4. QED BY <1>1, <1>2, <2>3 DEF Ahead, Rest, Mailbox
<1>5. QED
  BY <1>1, <1>2, <1>3, <1>4

\* Where a change puts more tasks before a settled one, it never puts fewer: its place in its
\* mailbox and its neighbours in the other one only grow.
LEMMA PlacesGrow ==
  ASSUME StampsOK, StampsOK', SettledStays, cursor \in Cursors, UNCHANGED cursor,
         NEW t \in Tasks, owner[t] \in Owners, stamp[t] > 0
  PROVE  /\ t \in Left(owner[t]) => t \in Left(owner[t])'
         /\ stamp'[t] = stamp[t] /\ owner'[t] = owner[t]
         /\ Place(t) \in Nat /\ Place(t)' \in Nat /\ Place(t) <= Place(t)'
         /\ Beside(t) \in Nat /\ Beside(t)' \in Nat /\ Beside(t) <= Beside(t)'
<1> DEFINE o == owner[t]
           c == stamp[t]
           L(x) == Ahead(x, cursor.tokens[x])
           M(x) == Ahead(x, cursor.tokens[x])'
           above == {s \in L(o) : Newer(s, t)}
           aboveP == {s \in M(o) : Newer(s, t)'}
           beside == IF o = "session" THEN {s \in L("agent") : stamp[s] >= c + 1}
                     ELSE {s \in L("session") : stamp[s] >= c}
           besideP == IF o = "session" THEN {s \in M("agent") : stamp'[s] >= c + 1}
                      ELSE {s \in M("session") : stamp'[s] >= c}
<1>1. stamp'[t] = c /\ owner'[t] = o /\ c \in Nat /\ c > 0 /\ o \in Owners
  BY DEF SettledStays, StampsOK
<1>2. \A x \in Owners : cursor.tokens[x] \in Tasks \cup {Start, EXHAUSTED}
  BY CursorShape
<1>3. /\ \A x : Left(x) = L(x) /\ L(x) \in SUBSET Tasks
      /\ \A x : M(x) \in SUBSET Tasks
      /\ Left(o)' = M(o) /\ Left("agent")' = M("agent") /\ Left("session")' = M("session")
  BY DEF Left, Ahead, Rest, Mailbox
<1>4. ASSUME NEW x \in Owners, NEW s \in L(x), stamp[s] > 0
      PROVE  s \in M(x) /\ s \in Tasks /\ stamp'[s] = stamp[s]
  BY <1>2, <1>4, AheadGrows
<1>5. /\ Place(t) = Cardinality(above) /\ Place(t)' = Cardinality(aboveP)
      /\ above \in SUBSET Tasks /\ aboveP \in SUBSET Tasks
  <2>1. above = {s \in Left(o) : <<s, t>> \in NewestFirst}
    BY <1>3 DEF NewestFirst
  <2>2. aboveP = {s \in M(o) : <<s, t>> \in NewestFirst'}
    BY <1>3 DEF NewestFirst
  <2>3. Place(t) = Cardinality({s \in Left(o) : <<s, t>> \in NewestFirst})
    BY DEF Place, Rank
  <2>4. Place(t)' = Cardinality({s \in M(o) : <<s, t>> \in NewestFirst'})
    BY <1>1, <1>3 DEF Place, Rank
  <2>5. QED BY <1>3, <2>1, <2>2, <2>3, <2>4
<1>6. /\ Beside(t) = Least(PageSize, Cardinality(beside)) /\ beside \in SUBSET Tasks
      /\ Beside(t)' = Least(PageSize, Cardinality(besideP)) /\ besideP \in SUBSET Tasks
  BY <1>1, <1>3 DEF Beside, Since
<1> HIDE DEF L, M
<1>7. above \subseteq aboveP
  <2>1. ASSUME NEW s \in above
        PROVE  s \in aboveP
    <3>1. s \in Tasks /\ stamp[s] \in Nat /\ stamp[s] > 0
      BY <1>1, <1>3 DEF Newer, StampsOK
    <3>2. s \in M(o) /\ stamp'[s] = stamp[s]
      BY <1>1, <1>4, <3>1
    <3>3. QED BY <1>1, <3>2 DEF Newer
  <2>2. QED BY <2>1
<1>8. beside \subseteq besideP
  <2>1. ASSUME NEW x \in Owners, NEW d \in Nat, d > 0, NEW s \in L(x), stamp[s] >= d
        PROVE  s \in M(x) /\ stamp'[s] >= d
    <3>1. stamp[s] > 0
      BY <1>3, <2>1 DEF StampsOK
    <3>2. QED BY <1>4, <2>1, <3>1
  <2>2. "agent" \in Owners /\ "session" \in Owners /\ c + 1 \in Nat /\ c + 1 > 0
    BY <1>1 DEF Owners
  <2>3. QED BY <1>1, <2>1, <2>2
<1> HIDE DEF above, aboveP, beside, besideP
<1>9. /\ Cardinality(above) \in Nat /\ Cardinality(aboveP) \in Nat
      /\ Cardinality(above) <= Cardinality(aboveP)
  BY <1>5, <1>7, TasksAreFinite
<1>10. /\ Cardinality(beside) \in Nat /\ Cardinality(besideP) \in Nat
       /\ Cardinality(beside) <= Cardinality(besideP)
  BY <1>6, <1>8, TasksAreFinite
<1>11. ASSUME t \in Left(o) PROVE t \in Left(o)'
  BY <1>1, <1>3, <1>4, <1>11
<1>12. PageSize \in Nat
  BY ListingAssumption
<1>13. QED
  BY <1>1, <1>5, <1>6, <1>9, <1>10, <1>11, <1>12 DEF Least

\* So a message still to be read stays one.
LEMMA ChangesLeaveAwaited ==
  ASSUME StampsOK, StampsOK', SettledStays, cursor \in Cursors, UNCHANGED <<cursor, own>>,
         NEW t \in Tasks, owner[t] \in Owners, stamp[t] > 0
  PROVE  /\ Awaits(t) => Awaits(t)'
         /\ own.tasks \in Seq(Entries) /\ AwaitsAgent(t) => AwaitsAgent(t)'
<1>1. /\ t \in Left(owner[t]) => t \in Left(owner[t])'
      /\ stamp'[t] = stamp[t] /\ owner'[t] = owner[t]
      /\ Place(t) \in Nat /\ Place(t)' \in Nat /\ Place(t) <= Place(t)'
      /\ Beside(t) \in Nat /\ Beside(t)' \in Nat /\ Beside(t) <= Beside(t)'
  BY PlacesGrow
<1>2. PageSize \in Nat /\ cursor.skip \in Nat /\ stamp[t] \in Nat
  BY CursorShape, ListingAssumption DEF StampsOK
<1>3. ASSUME Awaits(t) PROVE Awaits(t)'
  BY <1>1, <1>2, <1>3 DEF Awaits
<1>4. ASSUME own.tasks \in Seq(Entries), AwaitsAgent(t) PROVE AwaitsAgent(t)'
  <2>1. t \in Left(owner[t]) /\ t \in Left(owner[t])'
    BY <1>1, <1>4 DEF AwaitsAgent
  <2>2. CASE owner[t] = "agent"
    <3>1. NewerIn(own.tasks, stamp[t]) \in Nat
      <4>1. Len(own.tasks) \in Nat
        BY <1>4
      <4>2. IsFiniteSet(1..Len(own.tasks))
        BY <4>1, IntervalSize
      <4>3. QED BY <4>2, FS_Subset, FS_CardinalityType DEF NewerIn
    <3>2. NewerIn(own.tasks, stamp[t])' = NewerIn(own.tasks, stamp[t])
      BY <1>1 DEF NewerIn
    <3>3. QED BY <1>1, <1>2, <1>4, <2>1, <2>2, <3>1, <3>2 DEF AwaitsAgent
  <2>3. CASE /\ owner[t] # "agent"
             /\ \E i \in 1..Len(own.tasks) :
                  /\ own.tasks[i] = [id |-> t, stamp |-> stamp[t]]
                  /\ i - 1 <= Place(t) /\ i - 1 + Beside(t) >= cursor.skip
    <3>1. PICK i \in 1..Len(own.tasks) :
                  /\ own.tasks[i] = [id |-> t, stamp |-> stamp[t]]
                  /\ i - 1 <= Place(t) /\ i - 1 + Beside(t) >= cursor.skip
      BY <2>3
    <3>2. i - 1 <= Place(t)' /\ i - 1 + Beside(t)' >= cursor.skip /\ own.tasks[i] = [id |-> t, stamp |-> stamp'[t]]
      BY <1>1, <1>2, <1>4, <3>1
    <3>3. i \in 1..Len(own'.tasks) /\ own'.tasks[i] = [id |-> t, stamp |-> stamp'[t]]
      BY <3>2
    <3>4. QED BY <1>1, <2>1, <2>3, <3>2, <3>3 DEF AwaitsAgent
  <2>4. CASE /\ owner[t] # "agent"
             /\ Place(t) >= PageSize /\ own.next \in Tasks /\ (t = own.next \/ Newer(own.next, t))
    <3>1. t = own.next \/ Newer(own.next, t)'
      <4>1. SUFFICES ASSUME t # own.next PROVE Newer(own.next, t)'
        OBVIOUS
      <4>2. Newer(own.next, t) /\ stamp[own.next] \in Nat
        BY <2>4, <4>1 DEF StampsOK
      <4>3. stamp'[own.next] = stamp[own.next]
        BY <1>2, <2>4, <4>2 DEF Newer, SettledStays
      <4>4. QED BY <1>1, <4>2, <4>3 DEF Newer
    <3>2. QED BY <1>1, <1>2, <2>1, <2>4, <3>1 DEF AwaitsAgent
  <2>5. QED BY <1>4, <2>2, <2>3, <2>4 DEF AwaitsAgent
<1>5. QED BY <1>3, <1>4

\* The type invariant gives the timestamps their type.
LEMMA TypeOfStamps ==
  ASSUME ListingTypeOK
  PROVE  StampsOK
BY ListingAssumption DEF ListingTypeOK, StampsOK

\* The steps of the deliveries.
ChangeSteps ==
  \/ \E t \in Tasks, o \in Owners : Arrive(t, o)
  \/ \E t \in Tasks, o \in {"agent", "gone"} : Reroute(t, o)
  \/ \E t \in Tasks, o \in Owners \cup {"gone"}, now \in 1..MaxClock : Settle(t, o, now)

\* Arrive, Reroute and Settle leave every settled task where it is.
LEMMA ChangesSettle ==
  ASSUME ListingTypeOK, ChangeSteps
  PROVE  /\ Change /\ SettledStays
         /\ owner' \in [Tasks -> Owners \cup Nowhere]
         /\ stamp' \in [Tasks -> 0..MaxClock] /\ clock' \in 0..MaxClock
<1>1. /\ owner \in [Tasks -> Owners \cup Nowhere]
      /\ stamp \in [Tasks -> 0..MaxClock] /\ clock \in 0..MaxClock /\ MaxClock \in Nat
  BY ListingAssumption DEF ListingTypeOK
<1>2. ASSUME NEW t \in Tasks, NEW o \in Owners, Arrive(t, o)
      PROVE  /\ Change /\ SettledStays
             /\ owner' \in [Tasks -> Owners \cup Nowhere] /\ UNCHANGED <<stamp, clock>>
  <2>1. owner[t] \notin Owners /\ owner' = [owner EXCEPT ![t] = o] /\ UNCHANGED <<stamp, clock>> /\ Change
    BY <1>2 DEF Arrive, Owners
  <2>2. QED BY <1>1, <2>1 DEF SettledStays
<1>3. ASSUME NEW t \in Tasks, NEW o \in {"agent", "gone"}, Reroute(t, o)
      PROVE  /\ Change /\ SettledStays
             /\ owner' \in [Tasks -> Owners \cup Nowhere] /\ UNCHANGED <<stamp, clock>>
  <2>1. stamp[t] = 0 /\ owner' = [owner EXCEPT ![t] = o] /\ UNCHANGED <<stamp, clock>> /\ Change
    BY <1>3 DEF Reroute
  <2>2. o \in Owners \cup Nowhere
    BY DEF Owners, Nowhere
  <2>3. QED BY <1>1, <2>1, <2>2 DEF SettledStays
<1>4. ASSUME NEW t \in Tasks, NEW o \in Owners \cup {"gone"}, NEW now \in 1..MaxClock,
             Settle(t, o, now)
      PROVE  /\ Change /\ SettledStays
             /\ owner' \in [Tasks -> Owners \cup Nowhere]
             /\ stamp' \in [Tasks -> 0..MaxClock] /\ clock' \in 0..MaxClock
  <2>1. /\ stamp[t] = 0 /\ owner' = [owner EXCEPT ![t] = o] /\ stamp' = [stamp EXCEPT ![t] = now]
        /\ clock' = (IF now > clock THEN now ELSE clock) /\ Change
    BY <1>4 DEF Settle
  <2>2. o \in Owners \cup Nowhere
    BY DEF Owners, Nowhere
  <2>3. QED BY <1>1, <2>1, <2>2 DEF SettledStays
<1>5. QED BY <1>1, <1>2, <1>3, <1>4 DEF ChangeSteps

\* A change of the mailboxes, between any two requests of the walk, keeps the invariant.
LEMMA ChangesKeep ==
  ASSUME WalkInv, ChangeSteps
  PROVE  WalkInv'
<1>1. ListingTypeOK /\ cursor \in Cursors
  BY DEF WalkInv, ListingTypeOK
<1>2. /\ SettledStays /\ Change
      /\ owner' \in [Tasks -> Owners \cup Nowhere]
      /\ stamp' \in [Tasks -> 0..MaxClock] /\ clock' \in 0..MaxClock
  BY <1>1, ChangesSettle
<1>3. /\ phase \notin {"done", "failed"} /\ UNCHANGED <<phase, own, readerVars, atStart>>
      /\ changes' = (IF phase = "idle" THEN 0 ELSE changes + 1) /\ changes' <= MaxChanges
  BY <1>2 DEF Change
<1>4. ListingTypeOK'
  <2>1. changes' \in 0..MaxChanges
    BY <1>1, <1>3, ListingAssumption DEF ListingTypeOK
  <2>2. /\ UNCHANGED <<phase, cursor, own, got, total, pages, incomplete>>
    BY <1>3 DEF readerVars
  <2>3. QED BY <1>1, <1>2, <2>1, <2>2 DEF ListingTypeOK, Cursors, Entries
<1>5. StampsOK /\ StampsOK' /\ UNCHANGED <<phase, cursor, own, got, incomplete, atStart>>
  BY <1>1, <1>3, <1>4, TypeOfStamps, ListingAssumption DEF readerVars, StampsOK, ListingTypeOK
<1>6. ASSUME NEW t \in atStart.settled
      PROVE  /\ t \in Tasks /\ owner[t] \in Owners /\ stamp[t] > 0
             /\ owner'[t] \in Owners /\ stamp'[t] > 0
  BY <1>2 DEF WalkInv, SettledStays
<1>7. ASSUME NEW t \in atStart.settled \ ToSet(got)
      PROVE  /\ phase = "session" => Awaits(t)'
             /\ phase = "agent" => AwaitsAgent(t)'
  <2>1. t \in Tasks /\ owner[t] \in Owners /\ stamp[t] > 0
    BY <1>6
  <2>2. /\ phase = "session" => Awaits(t)
        /\ phase = "agent" => AwaitsAgent(t) /\ own.tasks \in Seq(Entries)
    BY <1>1 DEF WalkInv, ListingTypeOK
  <2>3. /\ Awaits(t) => Awaits(t)'
        /\ own.tasks \in Seq(Entries) /\ AwaitsAgent(t) => AwaitsAgent(t)'
    BY <1>1, <1>2, <1>5, <2>1, ChangesLeaveAwaited
  <2>4. QED BY <2>2, <2>3
<1>8. /\ phase' = "idle" => cursor' = FirstCursor' /\ atStart'.settled = {}
      /\ phase' = "agent" => Descends(own.tasks)'
  BY <1>5 DEF WalkInv, FirstCursor, NoTotals, Descends
<1>9. (\A t \in atStart.settled \ ToSet(got) :
         /\ phase = "session" => Awaits(t)
         /\ phase = "agent" => AwaitsAgent(t)
         /\ phase = "done" => incomplete)'
  BY <1>3, <1>5, <1>7
<1>10. (\A t \in atStart.settled : t \in Tasks /\ owner[t] \in Owners /\ stamp[t] > 0)'
  BY <1>5, <1>6
<1>11. QED
  BY <1>4, <1>8, <1>9, <1>10 DEF WalkInv

\* The first request has every message of the mailboxes ahead of it.
LEMMA BeginKeeps ==
  ASSUME WalkInv, Begin
  PROVE  WalkInv'
<1>1. /\ phase = "idle" /\ phase' = "session" /\ cursor = FirstCursor
      /\ atStart' = [owner |-> owner, settled |-> {t \in Stored : stamp[t] > 0}]
      /\ UNCHANGED <<mailboxVars, own, readerVars, changes>>
  BY DEF WalkInv, Begin
<1>2. UNCHANGED <<owner, stamp, clock, own, cursor, got, total, pages, incomplete, changes>>
  BY <1>1 DEF mailboxVars, readerVars
<1>3. ListingTypeOK /\ StampsOK
  BY TypeOfStamps DEF WalkInv
<1>4. ListingTypeOK'
  BY <1>1, <1>2, <1>3 DEF ListingTypeOK, Cursors, Entries
<1>5. ASSUME NEW t \in atStart'.settled
      PROVE  t \in Tasks /\ owner[t] \in Owners /\ stamp[t] > 0
  BY <1>1, <1>3 DEF Stored, ListingTypeOK
<1>6. ASSUME NEW t \in atStart'.settled
      PROVE  Awaits(t)'
  <2>1. t \in Tasks /\ owner[t] \in Owners /\ stamp[t] > 0
    BY <1>5
  <2>2. cursor.skip = 0 /\ \A o \in Owners : cursor.tokens[o] = Start
    BY <1>1 DEF FirstCursor
  <2>3. \A o \in Owners : Left(o) = Mailbox(o)
    BY <2>2, ListingAssumption DEF Left, Ahead, Rest
  <2>4. t \in Left(owner[t])
    BY <2>1, <2>3 DEF Mailbox
  <2>5. SettledStays /\ StampsOK'
    BY <1>2, <1>3 DEF SettledStays, StampsOK
  <2>6. Place(t) \in Nat /\ Beside(t) \in Nat
    BY <1>2, <1>3, <2>1, <2>5, PlacesGrow DEF ListingTypeOK
  <2>7. Awaits(t)
    BY <2>2, <2>4, <2>6 DEF Awaits
  <2>8. QED BY <1>2, <1>3, <2>1, <2>5, <2>7, ChangesLeaveAwaited DEF ListingTypeOK
<1>7. (\A t \in atStart.settled \ ToSet(got) :
         /\ phase = "session" => Awaits(t)
         /\ phase = "agent" => AwaitsAgent(t)
         /\ phase = "done" => incomplete)'
  BY <1>1, <1>6
<1>8. (\A t \in atStart.settled : t \in Tasks /\ owner[t] \in Owners /\ stamp[t] > 0)'
  BY <1>2, <1>5
<1>9. QED
  BY <1>1, <1>4, <1>7, <1>8 DEF WalkInv

\* A refused request returns nothing and ends the walk.
LEMMA FailKeeps ==
  ASSUME WalkInv, Fail
  PROVE  WalkInv'
<1>1. phase' = "failed" /\ UNCHANGED <<owner, stamp, clock, cursor, own, got, total, pages, incomplete, atStart, changes>>
  BY DEF Fail, mailboxVars, readerVars
<1>2. phase \in Owners /\ phase # "done"
  BY DEF Fail, Owners
<1>3. ListingTypeOK'
  BY <1>1, <1>2 DEF WalkInv, ListingTypeOK, Cursors, Entries
<1>4. QED
  BY <1>1, <1>3 DEF WalkInv

-----------------------------------------------------------------------------
(* One ListTasks *)

\* Places are numbers.
LEMMA PlacesAreNat ==
  ASSUME NEW t
  PROVE  Place(t) \in Nat /\ Beside(t) \in Nat /\ Place(t)' \in Nat /\ Beside(t)' \in Nat
<1>1. ASSUME NEW A \in SUBSET Tasks, NEW R
      PROVE  Rank(t, A, R) \in Nat /\ Least(PageSize, Cardinality(A)) \in Nat
  <2>1. {y \in A : <<y, t>> \in R} \in SUBSET Tasks
    OBVIOUS
  <2>2. Cardinality(A) \in Nat /\ Cardinality({y \in A : <<y, t>> \in R}) \in Nat
    BY <2>1, TasksAreFinite
  <2>3. QED BY <2>2, ListingAssumption DEF Rank, Least
<1>2. \A o : Left(o) \in SUBSET Tasks /\ Left(o)' \in SUBSET Tasks
  BY DEF Left, Ahead, Rest, Mailbox
<1>3. Place(t) \in Nat /\ Place(t)' \in Nat
  BY <1>1, <1>2 DEF Place
<1>4. /\ Since(Left("agent"), stamp[t] + 1) \in SUBSET Tasks
      /\ Since(Left("agent"), stamp[t] + 1)' \in SUBSET Tasks
      /\ Since(Left("session"), stamp[t]) \in SUBSET Tasks
      /\ Since(Left("session"), stamp[t])' \in SUBSET Tasks
  BY <1>2 DEF Since
<1>5. Beside(t) \in Nat /\ Beside(t)' \in Nat
  BY <1>1, <1>4 DEF Beside
<1>6. QED BY <1>3, <1>5

\* The first half of a ListTasks: what the session's page holds is between the windows already
\* returned and the rest of its mailbox.
LEMMA SessionKeeps ==
  ASSUME WalkInv, ListSession
  PROVE  WalkInv'
<1> DEFINE A == Left("session")
<1>1. /\ phase = "session" /\ phase' = "agent"
      /\ own' = Respond("session", cursor.tokens["session"])
      /\ UNCHANGED <<owner, stamp, clock, cursor, got, total, pages, incomplete, atStart, changes>>
  BY DEF ListSession, mailboxVars, readerVars
<1>2. ListingTypeOK /\ StampsOK /\ cursor \in Cursors
  BY TypeOfStamps DEF WalkInv, ListingTypeOK
<1>3. IsPage(own', A)
  BY <1>1, <1>2, RespondIsPage DEF Left
<1>4. ListingTypeOK'
  <2>1. /\ own'.tasks \in Seq(Entries) /\ Len(own'.tasks) <= PageSize
        /\ own'.next \in Tasks \cup {Start} /\ own'.total \in Nat
    BY <1>3 DEF IsPage
  <2>2. QED BY <1>1, <1>2, <2>1 DEF ListingTypeOK, Cursors, Entries
<1>5. Descends(own'.tasks)
  BY <1>3 DEF IsPage, Descends
<1>6. ASSUME NEW t \in atStart.settled \ ToSet(got)
      PROVE  AwaitsAgent(t)'
  <2>1. Awaits(t) /\ t \in Tasks /\ owner[t] \in Owners /\ stamp[t] \in Nat
    BY <1>1, <1>2 DEF WalkInv, StampsOK
  <2>2. t \in Left(owner[t]) /\ (Place(t) >= PageSize \/ Place(t) + Beside(t) >= cursor.skip)
    BY <2>1 DEF Awaits
  <2>3. (t \in Left(owner[t]))' /\ Place(t)' = Place(t) /\ Beside(t)' = Beside(t)
    BY <1>1, <2>2 DEF Place, Beside, Rank, Left, Ahead, Rest, Mailbox, NewestFirst, Newer, Since
  <2>4. Place(t) \in Nat /\ Beside(t) \in Nat
    BY PlacesAreNat
  <2>5. CASE owner[t] = "agent"
    <3>1. NewerIn(own'.tasks, stamp[t]) = Beside(t)
      BY <1>3, <2>1, <2>5 DEF IsPage, NewerIn, Beside
    <3>2. NewerIn(own.tasks, stamp[t])' = Beside(t)
      BY <1>1, <3>1 DEF NewerIn
    <3>3. QED BY <1>1, <2>2, <2>3, <2>4, <2>5, <3>2 DEF AwaitsAgent
  <2>6. CASE owner[t] # "agent"
    <3>1. t \in A /\ Place(t) = PlaceIn(t, A)
      BY <2>1, <2>2, <2>6 DEF Owners, Place, PlaceIn
    <3>2. IF Place(t) < PageSize
          THEN /\ Place(t) + 1 \in 1..Len(own'.tasks)
               /\ own'.tasks[Place(t) + 1] = [id |-> t, stamp |-> stamp[t]]
          ELSE own'.next \in Tasks /\ (t = own'.next \/ Newer(own'.next, t))
      BY <1>3, <3>1 DEF IsPage
    <3>3. CASE Place(t) < PageSize
      <4>1. PICK i \in 1..Len(own'.tasks) : i = Place(t) + 1 /\ own'.tasks[i] = [id |-> t, stamp |-> stamp[t]]
        BY <3>2, <3>3
      <4>2. i - 1 = Place(t) /\ i - 1 <= Place(t)' /\ i - 1 + Beside(t)' >= cursor.skip
        BY <2>2, <2>3, <2>4, <3>3, <4>1, ListingAssumption
      <4>3. QED BY <1>1, <2>3, <2>6, <4>1, <4>2 DEF AwaitsAgent
    <3>4. CASE ~(Place(t) < PageSize)
      <4>1. Place(t)' >= PageSize /\ own'.next \in Tasks /\ (t = own'.next \/ Newer(own'.next, t))
        BY <2>3, <2>4, <3>2, <3>4, ListingAssumption
      <4>2. t = own'.next \/ Newer(own.next, t)'
        BY <1>1, <4>1 DEF Newer
      <4>3. QED BY <1>1, <2>3, <2>6, <4>1, <4>2 DEF AwaitsAgent
    <3>5. QED BY <3>3, <3>4
  <2>7. QED BY <2>5, <2>6
<1>7. (\A t \in atStart.settled \ ToSet(got) :
         /\ phase = "session" => Awaits(t)
         /\ phase = "agent" => AwaitsAgent(t)
         /\ phase = "done" => incomplete)'
  BY <1>1, <1>6
<1>8. (\A t \in atStart.settled : t \in Tasks /\ owner[t] \in Owners /\ stamp[t] > 0)'
  BY <1>1 DEF WalkInv
<1>9. Descends(own.tasks)'
  BY <1>5 DEF Descends
<1>10. QED
  BY <1>1, <1>4, <1>7, <1>8, <1>9 DEF WalkInv

\* The answers one ListTasks merges.
Answer == [o \in Owners |->
  IF o = "session" THEN own ELSE Respond("agent", cursor.tokens["agent"])]

\* The batch of the two pages, and where in it a message still to be read is.
LEMMA AnswerShape ==
  ASSUME WalkInv, phase = "agent"
  PROVE  LET batch == MergeBatch(Answer)
             totals == [o \in Owners |-> IF cursor.totals[o] = -1 THEN Answer[o].total
                                         ELSE cursor.totals[o]]
         IN  /\ batch \in Seq(Tasks) /\ Len(batch) <= PageSize + PageSize
             /\ totals \in [Owners -> Nat]
             /\ Forward(Answer) \in [Owners -> Tasks \cup {EXHAUSTED}]
             /\ \A o \in Owners : Answer[o].next \in Tasks => Forward(Answer)[o] = Answer[o].next
             /\ \A t \in atStart.settled \ ToSet(got) :
                  \/ \E p \in Nat : /\ p < Len(batch) /\ batch[p + 1] = t
                                    /\ cursor.skip <= p /\ p <= Place(t) + Beside(t)
                  \/ /\ Place(t) >= PageSize /\ Answer[owner[t]].next \in Tasks
                     /\ t = Answer[owner[t]].next \/ Newer(Answer[owner[t]].next, t)
<1> DEFINE b == Respond("agent", cursor.tokens["agent"])
           A == Left("agent")
           batch == MergeBatch(Answer)
<1>1. /\ ListingTypeOK /\ StampsOK /\ cursor \in Cursors /\ PageSize \in Nat /\ PageSize >= 1
      /\ Owners = {"session", "agent"}
  BY TypeOfStamps, ListingAssumption DEF WalkInv, ListingTypeOK, Owners
<1>2. /\ own.tasks \in Seq(Entries) /\ Len(own.tasks) <= PageSize
      /\ own.next \in Tasks \cup {Start} /\ own.total \in Nat /\ Descends(own.tasks)
  BY <1>1 DEF WalkInv, ListingTypeOK
<1>3. IsPage(b, A)
  BY <1>1, RespondIsPage DEF Left
<1>4. /\ b.tasks \in Seq(Entries) /\ Len(b.tasks) <= PageSize
      /\ b.next \in Tasks \cup {Start} /\ b.total \in Nat /\ Descends(b.tasks)
  BY <1>3 DEF IsPage, Descends
<1>5. Answer["session"] = own /\ Answer["agent"] = b /\ \A o \in Owners : Answer[o] = own \/ Answer[o] = b
  BY <1>1 DEF Answer
<1> HIDE DEF b, A
<1>6. /\ batch \in Seq(Tasks) /\ Len(batch) = Len(own.tasks) + Len(b.tasks)
      /\ \A i \in 1..Len(own.tasks) :
           LET place == i - 1 + NewerIn(b.tasks, own.tasks[i].stamp + 1)
           IN  place + 1 \in 1..Len(batch) /\ batch[place + 1] = own.tasks[i].id
      /\ \A j \in 1..Len(b.tasks) :
           LET place == j - 1 + NewerIn(own.tasks, b.tasks[j].stamp)
           IN  place + 1 \in 1..Len(batch) /\ batch[place + 1] = b.tasks[j].id
  <2> DEFINE answer == Answer
  <2>1. /\ answer["session"].tasks = own.tasks /\ answer["agent"].tasks = b.tasks
    BY <1>5
  <2> HIDE DEF answer
  <2>2. LET p == answer["session"].tasks
            q == answer["agent"].tasks
        IN  /\ MergeBatch(answer) \in Seq(Tasks) /\ Len(MergeBatch(answer)) = Len(p) + Len(q)
            /\ \A i \in 1..Len(p) :
                 LET place == i - 1 + NewerIn(q, p[i].stamp + 1)
                 IN  place + 1 \in 1..Len(MergeBatch(answer)) /\ MergeBatch(answer)[place + 1] = p[i].id
            /\ \A j \in 1..Len(q) :
                 LET place == j - 1 + NewerIn(p, q[j].stamp)
                 IN  place + 1 \in 1..Len(MergeBatch(answer)) /\ MergeBatch(answer)[place + 1] = q[j].id
    BY <1>2, <1>4, <2>1, BatchPlaces
  <2>3. QED BY <2>1, <2>2 DEF answer
<1> HIDE DEF batch
<1>7. /\ Len(batch) <= PageSize + PageSize /\ Len(batch) \in Nat
      /\ Len(own.tasks) \in Nat /\ Len(b.tasks) \in Nat
  <2> DEFINE la == Len(own.tasks)
             lb == Len(b.tasks)
             n == Len(batch)
  <2>1. la \in Nat /\ lb \in Nat
    BY <1>2, <1>4
  <2>2. n = la + lb
    BY <1>6
  <2>3. la <= PageSize /\ lb <= PageSize /\ PageSize \in Nat
    BY <1>1, <1>2, <1>4
  <2> HIDE DEF la, lb, n
  <2>4. n <= PageSize + PageSize /\ n \in Nat
    BY <2>1, <2>2, <2>3
  <2>5. QED BY <2>1, <2>4 DEF la, lb, n
<1>8. [o \in Owners |-> IF cursor.totals[o] = -1 THEN Answer[o].total ELSE cursor.totals[o]]
        \in [Owners -> Nat]
  <2>1. \A o \in Owners : Answer[o].total \in Nat /\ cursor.totals[o] \in Nat \cup {-1}
    BY <1>1, <1>2, <1>4, <1>5, CursorShape
  <2>2. QED BY <2>1
<1>9. /\ Forward(Answer) \in [Owners -> Tasks \cup {EXHAUSTED}]
      /\ \A o \in Owners : Answer[o].next \in Tasks => Forward(Answer)[o] = Answer[o].next
  <2>1. \A o \in Owners : Answer[o].next \in Tasks \cup {Start}
    BY <1>2, <1>4, <1>5
  <2>2. Start \notin Tasks
    BY ListingAssumption DEF Tasks
  <2>3. QED BY <2>1, <2>2 DEF Forward
<1>10. ASSUME NEW t \in atStart.settled \ ToSet(got)
       PROVE  \/ \E p \in Nat : /\ p < Len(batch) /\ batch[p + 1] = t
                                /\ cursor.skip <= p /\ p <= Place(t) + Beside(t)
              \/ /\ Place(t) >= PageSize /\ Answer[owner[t]].next \in Tasks
                 /\ t = Answer[owner[t]].next \/ Newer(Answer[owner[t]].next, t)
  <2>1. AwaitsAgent(t) /\ t \in Tasks /\ owner[t] \in Owners /\ stamp[t] \in Nat /\ stamp[t] > 0
    BY <1>1 DEF WalkInv, StampsOK
  <2>2. t \in Left(owner[t])
    BY <2>1 DEF AwaitsAgent
  <2>3. Place(t) \in Nat /\ Beside(t) \in Nat /\ cursor.skip \in Nat
    BY <1>1, CursorShape, PlacesAreNat
  <2>4. CASE owner[t] = "agent"
    <3>1. /\ NewerIn(own.tasks, stamp[t]) <= Beside(t)
          /\ Place(t) >= PageSize \/ Place(t) + NewerIn(own.tasks, stamp[t]) >= cursor.skip
      BY <2>1, <2>4 DEF AwaitsAgent
    <3>2. Place(t) = PlaceIn(t, A) /\ t \in A
      BY <2>2, <2>4 DEF Place, PlaceIn, A
    <3>3. IF Place(t) < PageSize
          THEN /\ Place(t) + 1 \in 1..Len(b.tasks)
               /\ b.tasks[Place(t) + 1] = [id |-> t, stamp |-> stamp[t]]
          ELSE b.next \in Tasks /\ (t = b.next \/ Newer(b.next, t))
      BY <1>3, <3>2 DEF IsPage
    <3>4. CASE Place(t) < PageSize
      <4> DEFINE m == NewerIn(own.tasks, stamp[t])
                 p == Place(t) + m
      <4>1. PICK j \in 1..Len(b.tasks) : j = Place(t) + 1 /\ b.tasks[j] = [id |-> t, stamp |-> stamp[t]]
        BY <3>3, <3>4
      <4>2. m \in Nat
        <5>1. IsFiniteSet(1..Len(own.tasks))
          BY <1>7, IntervalSize
        <5>2. QED BY <5>1, FS_Subset, FS_CardinalityType DEF NewerIn
      <4>3. b.tasks[j].stamp = stamp[t] /\ b.tasks[j].id = t
        BY <4>1
      <4>4. (j - 1 + m) + 1 \in 1..Len(batch) /\ batch[(j - 1 + m) + 1] = t
        BY <1>6, <4>1, <4>3
      <4> HIDE DEF m
      <4>5. p \in Nat /\ p = j - 1 + m /\ p < Len(batch)
        BY <1>7, <2>3, <4>1, <4>2, <4>4
      <4>6. cursor.skip <= p /\ p <= Place(t) + Beside(t)
        BY <1>1, <2>3, <3>1, <3>4, <4>2 DEF m
      <4>7. QED BY <4>4, <4>5, <4>6
    <3>5. CASE ~(Place(t) < PageSize)
      BY <1>1, <1>5, <2>3, <2>4, <3>3, <3>5
    <3>6. QED BY <3>4, <3>5
  <2>5. CASE owner[t] # "agent"
    <3>1. owner[t] = "session" /\ Answer[owner[t]] = own
      BY <1>1, <1>5, <2>1, <2>5
    <3>2. CASE \E i \in 1..Len(own.tasks) :
                 /\ own.tasks[i] = [id |-> t, stamp |-> stamp[t]]
                 /\ i - 1 <= Place(t) /\ i - 1 + Beside(t) >= cursor.skip
      <4>1. PICK i \in 1..Len(own.tasks) :
                 /\ own.tasks[i] = [id |-> t, stamp |-> stamp[t]]
                 /\ i - 1 <= Place(t) /\ i - 1 + Beside(t) >= cursor.skip
        BY <3>2
      <4>2. own.tasks[i].stamp = stamp[t] /\ own.tasks[i].id = t
        BY <4>1
      <4>3. NewerIn(b.tasks, stamp[t] + 1) = Beside(t)
        <5>1. stamp[t] + 1 \in Nat
          BY <2>1
        <5>2. QED BY <1>3, <3>1, <5>1 DEF IsPage, NewerIn, Beside, A
      <4>4. (i - 1 + Beside(t)) + 1 \in 1..Len(batch) /\ batch[(i - 1 + Beside(t)) + 1] = t
        BY <1>6, <4>2, <4>3
      <4>5. PICK p \in Nat : p = i - 1 + Beside(t)
        BY <1>7, <2>3
      <4>6. p < Len(batch) /\ cursor.skip <= p /\ p <= Place(t) + Beside(t)
        BY <1>7, <2>3, <4>1, <4>4, <4>5
      <4>7. QED BY <4>4, <4>5, <4>6
    <3>3. CASE Place(t) >= PageSize /\ own.next \in Tasks /\ (t = own.next \/ Newer(own.next, t))
      BY <3>1, <3>3
    <3>4. QED BY <2>1, <2>5, <3>2, <3>3 DEF AwaitsAgent
  <2>6. QED BY <2>4, <2>5
<1>11. QED
  BY <1>6, <1>7, <1>8, <1>9, <1>10 DEF batch

\* An element of a sequence is in its range.
LEMMA InRange ==
  ASSUME NEW S, NEW s \in Seq(S), NEW i \in 1..Len(s)
  PROVE  s[i] \in ToSet(s)
BY DEF ToSet

\* The second half: the window that is returned, the token that follows it and the client's verdict
\* leave no settled message behind.
LEMMA AgentKeeps ==
  ASSUME WalkInv, ListAgentAndFollow
  PROVE  WalkInv'
<1> DEFINE batch == MergeBatch(Answer)
           totals == [o \in Owners |-> IF cursor.totals[o] = -1 THEN Answer[o].total
                                       ELSE cursor.totals[o]]
           n == Len(batch)
           skip == cursor.skip
           end == IF skip + PageSize < n THEN skip + PageSize ELSE n
           forward == Forward(Answer)
           window == SubSeq(batch, skip + 1, end)
           next == NextCursor(cursor, n, totals, forward)
           last == next = NoCursor
           stop == next \in seen \/ pages + 1 >= MaxPages
           rest == [tokens |-> cursor.tokens, skip |-> skip + PageSize, totals |-> totals]
           further == [tokens |-> forward, skip |-> 0, totals |-> totals]
<1>1. /\ phase = "agent"
      /\ UNCHANGED <<owner, stamp, clock, atStart, changes>>
      /\ pages' = pages + 1
      /\ got' = got \o window
      /\ total' = totals["session"] + totals["agent"]
      /\ incomplete' = (~last /\ stop)
      /\ phase' = IF last \/ stop THEN "done" ELSE "session"
      /\ cursor' = IF last \/ stop THEN cursor ELSE next
  <2>1. MergePages(cursor, Answer) =
          [tasks |-> window, total |-> totals["session"] + totals["agent"], next |-> next]
    BY DEF MergePages
  <2> HIDE DEF window, next
  <2>2. /\ MergePages(cursor, Answer).tasks = window /\ MergePages(cursor, Answer).next = next
        /\ MergePages(cursor, Answer).total = totals["session"] + totals["agent"]
    BY <2>1
  <2> HIDE DEF batch, totals, forward, window, next, end, n
  <2>3. QED BY <2>2 DEF ListAgentAndFollow, Answer, mailboxVars
<1>2. /\ ListingTypeOK /\ StampsOK /\ cursor \in Cursors
      /\ PageSize \in Nat /\ PageSize >= 1 /\ MaxPages \in Nat
      /\ Owners = {"session", "agent"} /\ EXHAUSTED \notin Tasks /\ Start \notin Tasks
  BY TypeOfStamps, ListingAssumption DEF WalkInv, ListingTypeOK, Owners, Tasks
<1>3. /\ batch \in Seq(Tasks) /\ n <= PageSize + PageSize /\ n \in Nat
      /\ totals \in [Owners -> Nat]
      /\ forward \in [Owners -> Tasks \cup {EXHAUSTED}]
      /\ \A o \in Owners : Answer[o].next \in Tasks => forward[o] = Answer[o].next
      /\ \A t \in atStart.settled \ ToSet(got) :
           \/ \E p \in Nat : /\ p < n /\ batch[p + 1] = t
                             /\ skip <= p /\ p <= Place(t) + Beside(t)
           \/ /\ Place(t) >= PageSize /\ Answer[owner[t]].next \in Tasks
              /\ t = Answer[owner[t]].next \/ Newer(Answer[owner[t]].next, t)
  <2> HIDE DEF batch, totals, forward
  <2>1. /\ batch \in Seq(Tasks) /\ n <= PageSize + PageSize
        /\ totals \in [Owners -> Nat]
        /\ forward \in [Owners -> Tasks \cup {EXHAUSTED}]
        /\ \A o \in Owners : Answer[o].next \in Tasks => forward[o] = Answer[o].next
        /\ \A t \in atStart.settled \ ToSet(got) :
             \/ \E p \in Nat : /\ p < n /\ batch[p + 1] = t
                               /\ skip <= p /\ p <= Place(t) + Beside(t)
             \/ /\ Place(t) >= PageSize /\ Answer[owner[t]].next \in Tasks
                /\ t = Answer[owner[t]].next \/ Newer(Answer[owner[t]].next, t)
    BY <1>1, AnswerShape DEF batch, totals, forward
  <2>2. Len(batch) \in Nat
    BY <2>1
  <2>3. QED BY <2>1, <2>2
<1>4. /\ skip \in Nat /\ \A o \in Owners : cursor.tokens[o] \in Tasks \cup {Start, EXHAUSTED}
      /\ cursor.tokens \in [Owners -> Tasks \cup {Start, EXHAUSTED}]
  BY <1>2, CursorShape DEF Cursors
<1> HIDE DEF batch, n, totals, forward
<1>5. next = IF skip + PageSize < n THEN rest
             ELSE IF \E o \in Owners : forward[o] # EXHAUSTED THEN further ELSE NoCursor
  BY DEF NextCursor
<1>6. rest # NoCursor /\ further # NoCursor
  <2>1. rest.skip = skip + PageSize /\ further.skip = 0 /\ NoCursor.skip = -1
    BY DEF NoCursor, FirstCursor
  <2> HIDE DEF rest, further
  <2>2. QED BY <1>2, <1>4, <2>1
<1>7. next # NoCursor => next \in Cursors
  <2>1. totals \in [Owners -> Nat \cup {-1}] /\ forward \in [Owners -> Tasks \cup {Start, EXHAUSTED}]
    BY <1>3
  <2>2. skip + PageSize < n => skip + PageSize \in 0..(2 * PageSize - 1)
    BY <1>2, <1>3, <1>4
  <2>3. 0 \in 0..(2 * PageSize - 1)
    BY <1>2
  <2>4. QED BY <1>4, <1>5, <2>1, <2>2, <2>3 DEF Cursors
<1>8. /\ end \in Nat /\ end <= n
      /\ window \in Seq(Tasks) /\ got' \in Seq(Tasks)
      /\ ToSet(got) \subseteq ToSet(got')
      /\ \A p \in Nat : skip <= p /\ p < end => batch[p + 1] \in ToSet(got')
  <2>1. end \in Nat /\ end <= n
    BY <1>2, <1>3, <1>4
  <2> HIDE DEF end
  <2>2. \A i \in (skip + 1)..end : batch[i] \in Tasks
    BY <1>3, <1>4, <2>1 DEF n
  <2>3. /\ window \in Seq(Tasks)
        /\ Len(window) = IF skip + 1 <= end THEN end - (skip + 1) + 1 ELSE 0
        /\ \A i \in 1..(end - (skip + 1) + 1) : window[i] = batch[(skip + 1) + i - 1]
    <3>1. skip + 1 \in Int /\ end \in Int
      BY <1>4, <2>1
    <3>2. QED BY <2>2, <3>1, SubSeqProperties
  <2> HIDE DEF window
  <2>4. got \in Seq(Tasks) /\ got' = got \o window
    BY <1>1, <1>2 DEF ListingTypeOK
  <2>5. /\ got' \in Seq(Tasks)
        /\ \A x : x \in ToSet(got') <=> x \in ToSet(got) \/ x \in ToSet(window)
    <3>1. got' \in Seq(Tasks) /\ Len(got') = Len(got) + Len(window)
      BY <2>3, <2>4
    <3>2. Len(got) \in Nat /\ Len(window) \in Nat
      BY <2>3, <2>4
    <3>3. \A i \in 1..Len(got) : got'[i] = got[i]
      BY <2>3, <2>4
    <3>4. ASSUME NEW i \in 1..Len(window) PROVE got'[Len(got) + i] = window[i] /\ Len(got) + i \in 1..Len(got')
      BY <2>3, <2>4, <3>1, <3>2
    <3>5. ASSUME NEW x \in ToSet(got) PROVE x \in ToSet(got')
      BY <2>4, <3>1, <3>2, <3>3 DEF ToSet
    <3>6. ASSUME NEW x \in ToSet(window) PROVE x \in ToSet(got')
      <4>1. PICK i \in 1..Len(window) : window[i] = x
        BY <2>3 DEF ToSet
      <4>2. got'[Len(got) + i] = x /\ Len(got) + i \in 1..Len(got')
        BY <3>4, <4>1
      <4>3. QED BY <3>1, <4>2, InRange
    <3>7. ASSUME NEW x \in ToSet(got') PROVE x \in ToSet(got) \/ x \in ToSet(window)
      <4>1. PICK i \in 1..Len(got') : got'[i] = x
        BY <3>1 DEF ToSet
      <4>2. CASE i <= Len(got)
        <5>1. i \in 1..Len(got) /\ got[i] = x
          BY <3>2, <3>3, <4>1, <4>2
        <5>2. QED BY <2>4, <5>1 DEF ToSet
      <4>3. CASE ~(i <= Len(got))
        <5>1. PICK j \in 1..Len(window) : i = Len(got) + j
          <6>1. i - Len(got) \in 1..Len(window) /\ i = Len(got) + (i - Len(got))
            BY <3>1, <3>2, <4>1, <4>3
          <6>2. QED BY <6>1
        <5>2. window[j] = x
          BY <3>4, <4>1, <5>1
        <5>3. QED BY <2>3, <5>2 DEF ToSet
      <4>4. QED BY <4>2, <4>3
    <3>8. QED BY <3>1, <3>5, <3>6, <3>7
  <2>6. ASSUME NEW p \in Nat, skip <= p, p < end
        PROVE  batch[p + 1] \in ToSet(got')
    <3>1. PICK i \in 1..(end - (skip + 1) + 1) : (skip + 1) + i - 1 = p + 1
      <4>1. p - skip + 1 \in 1..(end - (skip + 1) + 1) /\ (skip + 1) + (p - skip + 1) - 1 = p + 1
        BY <1>4, <2>1, <2>6
      <4>2. QED BY <4>1
    <3>2. window[i] = batch[p + 1] /\ i \in 1..Len(window)
      BY <1>4, <2>1, <2>3, <3>1
    <3>3. QED BY <2>3, <2>5, <3>2, InRange
  <2>7. QED BY <2>1, <2>3, <2>5, <2>6
<1>9. ListingTypeOK'
  <2>1. totals["session"] + totals["agent"] \in Nat
    BY <1>2, <1>3
  <2>2. cursor' \in Cursors
    BY <1>1, <1>2, <1>7
  <2>3. pages' \in 0..MaxPages /\ (phase' # "done" => pages' < MaxPages)
    BY <1>1, <1>2 DEF ListingTypeOK
  <2>4. phase' \in {"session", "done"} /\ incomplete' \in BOOLEAN
    BY <1>1
  <2>5. total' \in Nat
    BY <1>1, <2>1
  <2>6. QED
    BY <1>1, <1>2, <1>8, <2>2, <2>3, <2>4, <2>5 DEF ListingTypeOK, Cursors, Entries
<1>10. (\A t \in atStart.settled : t \in Tasks /\ owner[t] \in Owners /\ stamp[t] > 0)'
  BY <1>1 DEF WalkInv
<1> HIDE DEF end, window, next, rest, further
<1>11. ASSUME NEW t \in atStart.settled \ ToSet(got')
       PROVE  /\ ~last
              /\ ~stop => Awaits(t)'
  <2>1. t \in atStart.settled \ ToSet(got) /\ t \in Tasks /\ owner[t] \in Owners /\ stamp[t] \in Nat /\ stamp[t] > 0
    BY <1>1, <1>2, <1>8 DEF WalkInv, StampsOK
  <2>2. t \in Left(owner[t]) /\ t \in Mailbox(owner[t])
    <3>1. t \in Left(owner[t])
      BY <1>1, <2>1 DEF WalkInv, AwaitsAgent
    <3>2. QED BY <3>1 DEF Left, Ahead, Rest
  <2>3. Place(t) \in Nat /\ Beside(t) \in Nat
    BY PlacesAreNat
  <2>4. CASE skip + PageSize < n
    <3>1. next = rest /\ end = skip + PageSize
      BY <1>5, <2>4 DEF end
    <3>2. ~last
      BY <1>6, <3>1
    <3>3. Place(t) >= PageSize \/ Place(t) + Beside(t) >= skip + PageSize
      <4>1. CASE \E p \in Nat : /\ p < n /\ batch[p + 1] = t
                                /\ skip <= p /\ p <= Place(t) + Beside(t)
        <5>1. PICK p \in Nat : /\ p < n /\ batch[p + 1] = t
                               /\ skip <= p /\ p <= Place(t) + Beside(t)
          BY <4>1
        <5>2. ~(p < skip + PageSize)
          BY <1>8, <3>1, <5>1
        <5>3. QED BY <1>2, <1>4, <2>3, <5>1, <5>2
      <4>2. QED BY <1>3, <2>1, <4>1
    <3>4. ASSUME ~stop PROVE Awaits(t)'
      <4>1. cursor' = rest
        BY <1>1, <3>1, <3>2, <3>4
      <4>2. cursor'.tokens = cursor.tokens /\ cursor'.skip = skip + PageSize
        BY <4>1 DEF rest
      <4>3. (t \in Left(owner[t]))' /\ Place(t)' = Place(t) /\ Beside(t)' = Beside(t)
        BY <1>1, <2>2, <4>2 DEF Place, Beside, Rank, Left, Ahead, Rest, Mailbox, NewestFirst, Newer, Since
      <4>4. QED BY <3>3, <4>2, <4>3 DEF Awaits
    <3>5. QED BY <3>2, <3>4
  <2>5. CASE ~(skip + PageSize < n)
    <3>1. end = n
      BY <2>5 DEF end
    <3>2. /\ Answer[owner[t]].next \in Tasks
          /\ t = Answer[owner[t]].next \/ Newer(Answer[owner[t]].next, t)
      <4>1. ~ \E p \in Nat : /\ p < n /\ batch[p + 1] = t
                             /\ skip <= p /\ p <= Place(t) + Beside(t)
        BY <1>8, <3>1
      <4>2. QED BY <1>3, <2>1, <4>1
    <3>3. forward[owner[t]] = Answer[owner[t]].next /\ forward[owner[t]] # EXHAUSTED
      BY <1>2, <1>3, <2>1, <3>2
    <3>4. next = further /\ ~last
      BY <1>5, <1>6, <2>1, <2>5, <3>3
    <3>5. ASSUME ~stop PROVE Awaits(t)'
      <4>1. cursor' = further
        BY <1>1, <3>4, <3>5
      <4>2. cursor'.tokens = forward /\ cursor'.skip = 0
        BY <4>1 DEF further
      <4>3. cursor'.tokens[owner[t]] = Answer[owner[t]].next
        BY <3>3, <4>2
      <4>4. (t \in Left(owner[t]))'
        <5>1. t \in Ahead(owner[t], forward[owner[t]])
          BY <2>2, <3>2, <3>3 DEF Ahead, Rest
        <5>2. QED BY <1>1, <4>2, <5>1 DEF Left, Ahead, Rest, Mailbox, Newer
      <4>5. Place(t)' \in Nat /\ Beside(t)' \in Nat
        BY PlacesAreNat
      <4>6. QED BY <4>2, <4>4, <4>5 DEF Awaits
    <3>6. QED BY <3>4, <3>5
  <2>6. QED BY <2>4, <2>5
<1>12. (\A t \in atStart.settled \ ToSet(got) :
         /\ phase = "session" => Awaits(t)
         /\ phase = "agent" => AwaitsAgent(t)
         /\ phase = "done" => incomplete)'
  <2>1. phase' \in {"session", "done"} /\ atStart' = atStart
    BY <1>1
  <2>2. ASSUME NEW t \in atStart.settled \ ToSet(got')
        PROVE  /\ phase' = "session" => Awaits(t)'
               /\ phase' = "done" => incomplete'
    BY <1>1, <1>11
  <2>3. QED BY <2>1, <2>2
<1>13. QED
  BY <1>1, <1>9, <1>10, <1>12 DEF WalkInv

-----------------------------------------------------------------------------
(* A walk that nothing disturbs *)

\* r holds the first tasks of A and nothing else, and what its token leaves is the rest of A.
IsExactPage(r, A, o) ==
  /\ \A i \in 1..Len(r.tasks) : /\ r.tasks[i].id \in A /\ PlaceIn(r.tasks[i].id, A) = i - 1
                                /\ r.tasks[i].stamp = stamp[r.tasks[i].id]
  /\ IF \E t \in A : PlaceIn(t, A) >= PageSize
     THEN /\ Len(r.tasks) = PageSize /\ r.next \in A /\ PlaceIn(r.next, A) = PageSize
          /\ Ahead(o, r.next) = {t \in A : PlaceIn(t, A) >= PageSize}
     ELSE r.next = Start

\* Newer orders the tasks, and a newer one has no older timestamp.
LEMMA NewerIsTotal ==
  ASSUME StampsOK, NEW s \in Tasks, NEW t \in Tasks
  PROVE  /\ s = t \/ Newer(s, t) \/ Newer(t, s)
         /\ \A u \in Tasks : Newer(s, t) /\ Newer(t, u) => Newer(s, u)
         /\ stamp[s] \in Nat /\ stamp[t] \in Nat
         /\ Newer(s, t) => stamp[s] >= stamp[t]
<1>1. \A u \in Tasks : stamp[u] \in Nat /\ u \in Nat
  BY ListingAssumption DEF StampsOK, Tasks
<1>2. QED BY <1>1 DEF Newer

\* A page of an undisturbed mailbox is its first tasks and its token the one after them.
LEMMA ListOwnerIsExact ==
  ASSUME StampsOK, NEW o \in Owners, NEW k \in {Start} \cup Mailbox(o)
  PROVE  IsExactPage(ListOwner(o, k), Rest(o, k), o)
<1> DEFINE A == Rest(o, k)
           m == Cardinality(A)
           rest == Sorted(A, NewestFirst)
           r == ListOwner(o, k)
           n == Least(PageSize, m)
           page == IF Len(rest) > PageSize THEN SubSeq(rest, 1, PageSize) ELSE rest
<1>1. A \in SUBSET Tasks /\ A \subseteq Mailbox(o) /\ Mailbox(o) \in SUBSET Tasks
  BY DEF Rest, Mailbox
<1>2. /\ IsFiniteSet(A) /\ m \in Nat /\ A \subseteq Nat /\ PageSize \in Nat /\ PageSize >= 1
      /\ n \in Nat /\ n <= m /\ n <= PageSize
  BY <1>1, TasksAreFinite, ListingAssumption DEF Least
<1>3. /\ rest \in [1..m -> A]
      /\ \A t \in A : PlaceIn(t, A) \in 0..(m - 1) /\ rest[PlaceIn(t, A) + 1] = t
      /\ \A i \in 1..m : PlaceIn(rest[i], A) = i - 1
  BY <1>1, <1>2, NewestFirstOrders, SortedByRank DEF PlaceIn
<1>4. r = [tasks |-> [i \in DOMAIN page |-> [id |-> page[i], stamp |-> stamp[page[i]]]],
           next |-> IF Len(rest) > PageSize THEN rest[PageSize + 1] ELSE Start,
           total |-> Cardinality(Mailbox(o))]
  BY DEF ListOwner
<1>15. A = {t \in Mailbox(o) : k = Start \/ k = t \/ Newer(k, t)}
  BY DEF Rest
<1> HIDE DEF A, m, rest, r, n
<1>5. rest \in Seq(A) /\ Len(rest) = m
  BY <1>2, <1>3
<1>6. DOMAIN page = 1..n /\ \A i \in 1..n : page[i] = rest[i]
  BY <1>2, <1>5 DEF n, Least
<1> HIDE DEF page
<1>7. r.tasks = [i \in 1..n |-> [id |-> rest[i], stamp |-> stamp[rest[i]]]] /\ Len(r.tasks) = n
  BY <1>2, <1>4, <1>6
<1>8. ASSUME NEW i \in 1..Len(r.tasks)
      PROVE  /\ r.tasks[i].id \in A /\ PlaceIn(r.tasks[i].id, A) = i - 1
             /\ r.tasks[i].stamp = stamp[r.tasks[i].id]
  <2>1. i \in 1..m /\ i \in 1..n
    BY <1>2, <1>7
  <2>2. r.tasks[i].id = rest[i] /\ r.tasks[i].stamp = stamp[rest[i]]
    BY <1>7, <2>1
  <2>3. QED BY <1>3, <2>1, <2>2
<1>9. CASE \E t \in A : PlaceIn(t, A) >= PageSize
  <2>1. m > PageSize /\ PageSize + 1 \in 1..m
    BY <1>2, <1>3, <1>9
  <2>2. r.next = rest[PageSize + 1] /\ r.next \in A /\ PlaceIn(r.next, A) = PageSize /\ n = PageSize
    BY <1>2, <1>3, <1>4, <1>5, <2>1 DEF n, Least
  <2>3. r.next \in Tasks /\ r.next # EXHAUSTED /\ r.next # Start
    BY <1>1, <2>2, ListingAssumption DEF Tasks
  <2>4. ASSUME NEW t \in A, PlaceIn(t, A) >= PageSize
        PROVE  t \in Ahead(o, r.next)
    <3>1. ~Newer(t, r.next)
      <4>1. PlaceIn(t, A) \in Nat /\ ~(PlaceIn(t, A) < PlaceIn(r.next, A))
        BY <1>2, <1>3, <2>2, <2>4
      <4>2. A \in SUBSET Tasks /\ r.next \in A
        BY <1>1, <2>2
      <4>3. QED BY <4>1, <4>2, NewerIsBefore
    <3>2. t = r.next \/ Newer(r.next, t)
      BY <1>1, <2>3, <3>1, NewerIsTotal
    <3>3. QED BY <1>1, <2>3, <3>2 DEF Ahead, Rest
  <2>5. ASSUME NEW t \in Ahead(o, r.next)
        PROVE  t \in A /\ PlaceIn(t, A) >= PageSize
    <3>1. t \in Mailbox(o) /\ (r.next = t \/ Newer(r.next, t))
      BY <2>3 DEF Ahead, Rest
    <3>2. r.next \in Mailbox(o) /\ (k = Start \/ k = r.next \/ Newer(k, r.next))
      BY <1>15, <2>2
    <3>3. k = Start \/ k = t \/ Newer(k, t)
      <4>1. CASE k # Start
        <5>1. k \in Tasks /\ t \in Tasks
          BY <1>1, <3>1, <4>1
        <5>2. \A x \in Tasks : Newer(k, r.next) /\ Newer(r.next, x) => Newer(k, x)
          BY <2>3, <5>1, NewerIsTotal
        <5>3. QED BY <3>1, <3>2, <5>1, <5>2
      <4>2. QED BY <4>1
    <3>4. t \in A
      BY <1>15, <3>1, <3>3
    <3>5. r.next = t \/ PlaceIn(r.next, A) < PlaceIn(t, A)
      BY <1>1, <2>2, <3>1, <3>4, NewerIsBefore
    <3>6. QED BY <1>2, <1>3, <2>2, <3>4, <3>5
  <2>6. Ahead(o, r.next) = {t \in A : PlaceIn(t, A) >= PageSize}
    BY <2>4, <2>5
  <2>7. QED BY <1>7, <1>8, <1>9, <2>2, <2>6 DEF IsExactPage, r, A
<1>10. CASE ~\E t \in A : PlaceIn(t, A) >= PageSize
  <2>1. ~(m > PageSize)
    <3>1. SUFFICES ASSUME m > PageSize PROVE FALSE
      OBVIOUS
    <3>2. PageSize + 1 \in 1..m
      BY <1>2, <3>1
    <3>3. rest[PageSize + 1] \in A /\ PlaceIn(rest[PageSize + 1], A) = PageSize
      BY <1>2, <1>3, <3>2
    <3>4. PlaceIn(rest[PageSize + 1], A) >= PageSize
      BY <1>2, <3>3
    <3>5. QED BY <1>10, <3>3, <3>4
  <2>2. r.next = Start
    BY <1>4, <1>5, <2>1
  <2>3. QED BY <1>8, <1>10, <2>2 DEF IsExactPage, r, A
<1>11. QED
  BY <1>9, <1>10

\* So is the answer for a mailbox, an empty one when it has been read to the end.
LEMMA RespondIsExact ==
  ASSUME StampsOK, NEW o \in Owners, NEW k \in {Start, EXHAUSTED} \cup Mailbox(o)
  PROVE  IsExactPage(Respond(o, k), Ahead(o, k), o)
<1>1. CASE k # EXHAUSTED
  BY <1>1, ListOwnerIsExact DEF Respond, Ahead
<1>2. CASE k = EXHAUSTED
  <2> DEFINE r == [tasks |-> <<>>, next |-> Start, total |-> 0]
  <2>1. Respond(o, k) = r /\ Ahead(o, k) = {}
    BY <1>2 DEF Respond, Ahead
  <2>2. r.tasks = <<>> /\ r.next = Start
    OBVIOUS
  <2>3. \A i \in 1..Len(r.tasks) : FALSE
    BY <2>2
  <2> HIDE DEF r
  <2>4. QED BY <2>1, <2>2, <2>3 DEF IsExactPage
<1>3. QED
  BY <1>1, <1>2

\* Each token names a task of its mailbox.
ValidTokens(c) == \A o \in Owners : c.tokens[o] \in {Start, EXHAUSTED} \cup Mailbox(o)

\* What the mailboxes answer to a cursor.
Pages(c) == [o \in Owners |-> Respond(o, c.tokens[o])]

\* A batch holds the first of each mailbox once, newest first, and forward names the others,
\* which are no newer than the first page of the batch.
LEMMA QuietBatch ==
  ASSUME StampsOK, NEW c, ValidTokens(c)
  PROVE  LET batch == BatchAt(c)
             n == Len(batch)
             forward == Forward(Pages(c))
         IN  /\ batch \in Seq(Tasks) /\ n \in Nat /\ n <= PageSize + PageSize
             /\ \A i, j \in 1..n : i < j =>
                  batch[i] # batch[j] /\ stamp[batch[i]] >= stamp[batch[j]]
             /\ \A i \in 1..n : \E o \in Owners : batch[i] \in Ahead(o, c.tokens[o])
             /\ \A o \in Owners :
                  /\ forward[o] \in {EXHAUSTED} \cup Mailbox(o)
                  /\ forward[o] # EXHAUSTED => forward[o] \in Ahead(o, forward[o])
                  /\ \A t \in Ahead(o, c.tokens[o]) :
                       \/ \E i \in 1..n : batch[i] = t
                       \/ /\ t \in Ahead(o, forward[o]) /\ n >= PageSize
                          /\ \A i \in 1..n : i <= PageSize => stamp[batch[i]] >= stamp[t]
                  /\ \A t \in Ahead(o, forward[o]) :
                       t \in Ahead(o, c.tokens[o]) /\ \A i \in 1..n : batch[i] # t
<1> DEFINE batch == BatchAt(c)
           n == Len(batch)
           forward == Forward(Pages(c))
           A(o) == Ahead(o, c.tokens[o])
           r(o) == Respond(o, c.tokens[o])
           a == r("session").tasks
           b == r("agent").tasks
           na == Len(a)
           nb == Len(b)
<1>1. /\ PageSize \in Nat /\ PageSize >= 1 /\ EXHAUSTED \notin Tasks /\ Start \notin Tasks
      /\ Start # EXHAUSTED /\ Owners = {"session", "agent"}
  BY ListingAssumption DEF Tasks, Owners
<1>2. ASSUME NEW o \in Owners
      PROVE  /\ A(o) \subseteq Mailbox(o) /\ A(o) \in SUBSET Tasks /\ Mailbox(o) \in SUBSET Tasks
             /\ IsPage(r(o), A(o)) /\ IsExactPage(r(o), A(o), o)
  BY RespondIsPage, RespondIsExact DEF ValidTokens, Ahead, Rest, Mailbox
<1>3. A("session") \cap A("agent") = {}
  BY <1>1, <1>2 DEF Mailbox
<1>4. /\ BatchAt(c) = MergeBatch(Pages(c))
      /\ \A o \in Owners : Pages(c)[o] = r(o)
  BY DEF BatchAt, Pages
<1>5. \A o \in Owners : forward[o] = IF r(o).next = Start THEN EXHAUSTED ELSE r(o).next
  BY <1>4 DEF Forward
<1> HIDE DEF batch, forward, A, r
<1>6. /\ a \in Seq(Entries) /\ Descends(a) /\ b \in Seq(Entries) /\ Descends(b)
      /\ na <= PageSize /\ nb <= PageSize
  BY <1>1, <1>2 DEF IsPage, Descends
<1> HIDE DEF a, b
<1>7. na \in Nat /\ nb \in Nat
  BY <1>6
<1>8. /\ batch \in Seq(Tasks) /\ Len(batch) = na + nb
      /\ \A i \in 1..na : LET place == i - 1 + NewerIn(b, a[i].stamp + 1)
                          IN  place + 1 \in 1..Len(batch) /\ batch[place + 1] = a[i].id
      /\ \A j \in 1..nb : LET place == j - 1 + NewerIn(a, b[j].stamp)
                          IN  place + 1 \in 1..Len(batch) /\ batch[place + 1] = b[j].id
      /\ \E order \in [1..Len(batch) -> 1..Len(batch)] :
           /\ \A i \in 1..Len(batch) : batch[i] = (a \o b)[order[i]].id
           /\ \A i, j \in 1..Len(batch) : i < j =>
                /\ order[i] # order[j]
                /\ (a \o b)[order[i]].stamp >= (a \o b)[order[j]].stamp
  <2> DEFINE answer == Pages(c)
  <2>1. answer["session"].tasks = a /\ answer["agent"].tasks = b /\ batch = MergeBatch(answer)
    BY <1>1, <1>4 DEF a, b, batch
  <2> HIDE DEF answer
  <2>2. LET p == answer["session"].tasks
            q == answer["agent"].tasks
        IN  /\ MergeBatch(answer) \in Seq(Tasks) /\ Len(MergeBatch(answer)) = Len(p) + Len(q)
            /\ \A i \in 1..Len(p) :
                 LET place == i - 1 + NewerIn(q, p[i].stamp + 1)
                 IN  /\ place + 1 \in 1..Len(MergeBatch(answer))
                     /\ MergeBatch(answer)[place + 1] = p[i].id
            /\ \A j \in 1..Len(q) :
                 LET place == j - 1 + NewerIn(p, q[j].stamp)
                 IN  /\ place + 1 \in 1..Len(MergeBatch(answer))
                     /\ MergeBatch(answer)[place + 1] = q[j].id
            /\ \E order \in [1..Len(MergeBatch(answer)) -> 1..Len(MergeBatch(answer))] :
                 /\ \A i \in 1..Len(MergeBatch(answer)) : MergeBatch(answer)[i] = (p \o q)[order[i]].id
                 /\ \A i, j \in 1..Len(MergeBatch(answer)) : i < j =>
                      /\ order[i] # order[j]
                      /\ (p \o q)[order[i]].stamp >= (p \o q)[order[j]].stamp
    BY <1>6, <2>1, BatchPlaces
  <2>3. batch \in Seq(Tasks) /\ Len(batch) = Len(a) + Len(b)
    BY <2>1, <2>2
  <2>4. \A i \in 1..Len(a) : LET place == i - 1 + NewerIn(b, a[i].stamp + 1)
                             IN  place + 1 \in 1..Len(batch) /\ batch[place + 1] = a[i].id
    BY <2>1, <2>2
  <2>5. \A j \in 1..Len(b) : LET place == j - 1 + NewerIn(a, b[j].stamp)
                             IN  place + 1 \in 1..Len(batch) /\ batch[place + 1] = b[j].id
    BY <2>1, <2>2
  <2>6. \E order \in [1..Len(batch) -> 1..Len(batch)] :
           /\ \A i \in 1..Len(batch) : batch[i] = (a \o b)[order[i]].id
           /\ \A i, j \in 1..Len(batch) : i < j =>
                /\ order[i] # order[j]
                /\ (a \o b)[order[i]].stamp >= (a \o b)[order[j]].stamp
    <3> DEFINE all == answer["session"].tasks \o answer["agent"].tasks
               merged == MergeBatch(answer)
               both == a \o b
    <3>1. all = both /\ merged = batch
      BY <2>1
    <3>2. \E order \in [1..Len(merged) -> 1..Len(merged)] :
             /\ \A i \in 1..Len(merged) : merged[i] = all[order[i]].id
             /\ \A i, j \in 1..Len(merged) : i < j =>
                  /\ order[i] # order[j]
                  /\ all[order[i]].stamp >= all[order[j]].stamp
      BY <2>2
    <3> HIDE DEF all, merged, both
    <3>3. \E order \in [1..Len(batch) -> 1..Len(batch)] :
             /\ \A i \in 1..Len(batch) : batch[i] = both[order[i]].id
             /\ \A i, j \in 1..Len(batch) : i < j =>
                  /\ order[i] # order[j]
                  /\ both[order[i]].stamp >= both[order[j]].stamp
      BY <3>1, <3>2
    <3>4. QED BY <3>3 DEF both
  <2>7. QED BY <2>3, <2>4, <2>5, <2>6
<1>9. n \in Nat /\ n = na + nb /\ n <= PageSize + PageSize
  BY <1>1, <1>6, <1>7, <1>8
<1> HIDE DEF na, nb, n
<1>10. ASSUME NEW p \in 1..n
       PROVE  \/ p \in 1..na /\ (a \o b)[p] = a[p]
              \/ p - na \in 1..nb /\ (a \o b)[p] = b[p - na]
  BY <1>6, <1>7, <1>9 DEF na, nb
<1>11. /\ \A i \in 1..na : /\ a[i].id \in A("session") /\ PlaceIn(a[i].id, A("session")) = i - 1
                           /\ a[i].stamp = stamp[a[i].id]
       /\ \A j \in 1..nb : /\ b[j].id \in A("agent") /\ PlaceIn(b[j].id, A("agent")) = j - 1
                           /\ b[j].stamp = stamp[b[j].id]
  BY <1>1, <1>2 DEF IsExactPage, a, b, na, nb
<1>12. ASSUME NEW p \in 1..n
       PROVE  /\ \E o \in Owners : (a \o b)[p].id \in A(o)
              /\ (a \o b)[p].stamp = stamp[(a \o b)[p].id]
  BY <1>1, <1>10, <1>11
<1>13. ASSUME NEW p \in 1..n, NEW q \in 1..n, (a \o b)[p].id = (a \o b)[q].id
       PROVE  p = q
  <2> DEFINE x == (a \o b)[p].id
             y == (a \o b)[q].id
  <2>1. \/ p \in 1..na /\ x \in A("session") /\ PlaceIn(x, A("session")) = p - 1
        \/ p - na \in 1..nb /\ x \in A("agent") /\ PlaceIn(x, A("agent")) = p - na - 1
    BY <1>10, <1>11
  <2>2. \/ q \in 1..na /\ y \in A("session") /\ PlaceIn(y, A("session")) = q - 1
        \/ q - na \in 1..nb /\ y \in A("agent") /\ PlaceIn(y, A("agent")) = q - na - 1
    BY <1>10, <1>11
  <2>3. x = y
    BY <1>13
  <2> HIDE DEF x, y
  <2>4. p \in Int /\ q \in Int /\ na \in Int
    BY <1>7, <1>9
  <2>5. p - 1 = q - 1 \/ p - na - 1 = q - na - 1
    BY <1>3, <2>1, <2>2, <2>3
  <2>6. QED BY <2>4, <2>5
<1>14. PICK order \in [1..n -> 1..n] :
           /\ \A i \in 1..n : batch[i] = (a \o b)[order[i]].id
           /\ \A i, j \in 1..n : i < j =>
                /\ order[i] # order[j]
                /\ (a \o b)[order[i]].stamp >= (a \o b)[order[j]].stamp
  BY <1>8 DEF n
<1>15. ASSUME NEW i \in 1..n, NEW j \in 1..n, i < j
       PROVE  batch[i] # batch[j] /\ stamp[batch[i]] >= stamp[batch[j]]
  <2>1. order[i] \in 1..n /\ order[j] \in 1..n
    BY <1>14
  <2>2. batch[i] = (a \o b)[order[i]].id /\ batch[j] = (a \o b)[order[j]].id
    BY <1>14
  <2>3. order[i] # order[j] /\ (a \o b)[order[i]].stamp >= (a \o b)[order[j]].stamp
    BY <1>14, <1>15
  <2>4. (a \o b)[order[i]].stamp = stamp[batch[i]] /\ (a \o b)[order[j]].stamp = stamp[batch[j]]
    BY <1>12, <2>1, <2>2
  <2>5. batch[i] # batch[j]
    BY <1>13, <2>1, <2>2, <2>3
  <2>6. QED BY <2>3, <2>4, <2>5
<1>16. ASSUME NEW i \in 1..n
       PROVE  \E o \in Owners : batch[i] \in A(o)
  <2>1. order[i] \in 1..n /\ batch[i] = (a \o b)[order[i]].id
    BY <1>14
  <2>2. QED BY <1>12, <2>1
<1>17. ASSUME NEW o \in Owners, NEW i \in 1..Len(r(o).tasks)
       PROVE  \E q \in 1..n : q >= i /\ batch[q] = r(o).tasks[i].id
  <2>1. ASSUME NEW x, NEW d \in Nat
        PROVE  NewerIn(a, d) \in Nat /\ NewerIn(b, d) \in Nat
    <3>1. IsFiniteSet(1..na) /\ IsFiniteSet(1..nb)
      BY <1>7, IntervalSize
    <3>2. {k \in 1..na : a[k].stamp >= d} \subseteq 1..na /\ {k \in 1..nb : b[k].stamp >= d} \subseteq 1..nb
      OBVIOUS
    <3>3. IsFiniteSet({k \in 1..na : a[k].stamp >= d}) /\ IsFiniteSet({k \in 1..nb : b[k].stamp >= d})
      BY <3>1, <3>2, FS_Subset
    <3>4. QED BY <3>3, FS_CardinalityType DEF NewerIn, na, nb
  <2>2. CASE o = "session"
    <3>1. i \in 1..na /\ r(o).tasks[i] = a[i]
      BY <2>2 DEF a, na
    <3>2. a[i].stamp + 1 \in Nat
      <4>1. a[i] \in Entries
        BY <1>6, <3>1 DEF na
      <4>2. QED BY <4>1 DEF Entries
    <3>3. PICK m \in Nat : m = NewerIn(b, a[i].stamp + 1)
      BY <2>1, <3>2
    <3>4. (i - 1 + m) + 1 \in 1..n /\ batch[(i - 1 + m) + 1] = a[i].id
      BY <1>8, <3>1, <3>3 DEF n
    <3>5. (i - 1 + m) + 1 >= i
      BY <1>7, <3>1
    <3>6. QED BY <3>1, <3>4, <3>5
  <2>3. CASE o = "agent"
    <3>1. i \in 1..nb /\ r(o).tasks[i] = b[i]
      BY <2>3 DEF b, nb
    <3>2. b[i].stamp \in Nat
      <4>1. b[i] \in Entries
        BY <1>6, <3>1 DEF nb
      <4>2. QED BY <4>1 DEF Entries
    <3>3. PICK m \in Nat : m = NewerIn(a, b[i].stamp)
      BY <2>1, <3>2
    <3>4. (i - 1 + m) + 1 \in 1..n /\ batch[(i - 1 + m) + 1] = b[i].id
      BY <1>8, <3>1, <3>3 DEF n
    <3>5. (i - 1 + m) + 1 >= i
      BY <1>7, <3>1
    <3>6. QED BY <3>1, <3>4, <3>5
  <2>4. QED BY <1>1, <2>2, <2>3
<1>18. ASSUME NEW o \in Owners
       PROVE  /\ forward[o] \in {EXHAUSTED} \cup Mailbox(o)
              /\ forward[o] # EXHAUSTED => forward[o] \in Ahead(o, forward[o])
              /\ Ahead(o, forward[o]) = {t \in A(o) : PlaceIn(t, A(o)) >= PageSize}
  <2>1. CASE \E t \in A(o) : PlaceIn(t, A(o)) >= PageSize
    <3>1. /\ r(o).next \in A(o) /\ PlaceIn(r(o).next, A(o)) = PageSize
          /\ Ahead(o, r(o).next) = {t \in A(o) : PlaceIn(t, A(o)) >= PageSize}
      BY <1>2, <2>1 DEF IsExactPage
    <3>2. forward[o] = r(o).next /\ r(o).next \in Mailbox(o)
      BY <1>1, <1>2, <1>5, <3>1
    <3>3. QED BY <1>1, <3>1, <3>2
  <2>2. CASE ~\E t \in A(o) : PlaceIn(t, A(o)) >= PageSize
    <3>1. r(o).next = Start
      BY <1>2, <2>2 DEF IsExactPage
    <3>2. forward[o] = EXHAUSTED /\ Ahead(o, forward[o]) = {}
      BY <1>5, <3>1 DEF Ahead
    <3>3. QED BY <2>2, <3>2
  <2>3. QED BY <2>1, <2>2
<1>19. ASSUME NEW o \in Owners, NEW t \in A(o)
       PROVE  \/ \E i \in 1..n : batch[i] = t
              \/ /\ t \in Ahead(o, forward[o]) /\ n >= PageSize
                 /\ \A i \in 1..n : i <= PageSize => stamp[batch[i]] >= stamp[t]
  <2>1. CASE PlaceIn(t, A(o)) < PageSize
    <3>1. PICK i \in 1..Len(r(o).tasks) : r(o).tasks[i] = [id |-> t, stamp |-> stamp[t]]
      BY <1>2, <2>1 DEF IsPage
    <3>2. PICK q \in 1..n : batch[q] = r(o).tasks[i].id
      BY <1>17
    <3>3. QED BY <3>1, <3>2
  <2>2. CASE ~(PlaceIn(t, A(o)) < PageSize)
    <3>1. PlaceIn(t, A(o)) \in Nat
      <4>1. {y \in A(o) : <<y, t>> \in NewestFirst} \in SUBSET Tasks
        BY <1>2
      <4>2. QED BY <4>1, TasksAreFinite DEF PlaceIn, Rank
    <3>2. PlaceIn(t, A(o)) >= PageSize
      BY <1>1, <2>2, <3>1
    <3>3. Len(r(o).tasks) = PageSize
      BY <1>2, <3>2 DEF IsExactPage
    <3>4. PageSize \in 1..Len(r(o).tasks)
      BY <1>1, <3>3
    <3>5. PICK q \in 1..n : q >= PageSize /\ batch[q] = r(o).tasks[PageSize].id
      BY <1>17, <3>4
    <3>6. batch[q] \in A(o) /\ PlaceIn(batch[q], A(o)) = PageSize - 1
      BY <1>2, <3>4, <3>5 DEF IsExactPage
    <3>7. ~Newer(t, batch[q])
      <4>1. ~(PlaceIn(t, A(o)) < PlaceIn(batch[q], A(o)))
        BY <1>1, <3>1, <3>2, <3>6
      <4>2. QED BY <1>2, <3>6, <4>1, NewerIsBefore
    <3>8. stamp[batch[q]] >= stamp[t] /\ stamp[batch[q]] \in Nat /\ stamp[t] \in Nat
      <4>1. t \in Tasks /\ batch[q] \in Tasks
        BY <1>2, <3>6
      <4>2. QED BY <3>7, <4>1, NewerIsTotal
    <3>9. n >= PageSize
      BY <1>1, <1>9, <3>5
    <3>10. ASSUME NEW i \in 1..n, i <= PageSize
           PROVE  stamp[batch[i]] >= stamp[t]
      <4>1. i = q \/ i < q
        BY <1>1, <1>9, <3>5, <3>10
      <4>2. CASE i < q
        <5>1. stamp[batch[i]] >= stamp[batch[q]]
          BY <1>15, <4>2
        <5>2. stamp[batch[i]] \in Nat
          <6>1. \E x \in Owners : batch[i] \in A(x)
            BY <1>16
          <6>2. batch[i] \in Tasks
            BY <1>2, <6>1
          <6>3. QED BY <6>2 DEF StampsOK
        <5>3. QED BY <3>8, <5>1, <5>2
      <4>3. QED BY <3>8, <4>1, <4>2
    <3>11. QED BY <1>18, <3>2, <3>9, <3>10
  <2>3. QED BY <2>1, <2>2
<1>20. ASSUME NEW o \in Owners, NEW t \in Ahead(o, forward[o])
       PROVE  t \in A(o) /\ \A i \in 1..n : batch[i] # t
  <2>1. t \in A(o) /\ PlaceIn(t, A(o)) >= PageSize
    BY <1>18
  <2>2. ASSUME NEW i \in 1..n, batch[i] = t
        PROVE  FALSE
    <3>1. order[i] \in 1..n /\ t = (a \o b)[order[i]].id
      BY <1>14, <2>2
    <3>2. \/ \E x \in 1..na : t = a[x].id
          \/ \E x \in 1..nb : t = b[x].id
      BY <1>10, <3>1
    <3>3. \/ t \in A("session") /\ \E x \in 1..na : PlaceIn(t, A("session")) = x - 1
          \/ t \in A("agent") /\ \E x \in 1..nb : PlaceIn(t, A("agent")) = x - 1
      BY <1>11, <3>2
    <3>4. \/ o = "session" /\ \E x \in 1..na : PlaceIn(t, A(o)) = x - 1
          \/ o = "agent" /\ \E x \in 1..nb : PlaceIn(t, A(o)) = x - 1
      BY <1>1, <1>3, <2>1, <3>3
    <3>5. na <= PageSize /\ nb <= PageSize
      BY <1>6 DEF na, nb
    <3>6. QED BY <1>1, <1>7, <2>1, <3>4, <3>5
  <2>3. QED BY <2>1, <2>2
<1>21. batch \in Seq(Tasks)
  BY <1>8
<1>22. QED
  BY <1>9, <1>15, <1>16, <1>18, <1>19, <1>20, <1>21 DEF batch, n, forward, A

\* A window of a batch behind the messages returned before.
LEMMA Windowed ==
  ASSUME NEW g \in Seq(Tasks), NEW batch \in Seq(Tasks), NEW skip \in Nat, NEW end \in Nat,
         end <= Len(batch)
  PROVE  LET h == g \o SubSeq(batch, skip + 1, end)
         IN  /\ h \in Seq(Tasks) /\ Len(g) \in Nat
             /\ Len(h) = Len(g) + (IF skip < end THEN end - skip ELSE 0)
             /\ \A i \in 1..Len(g) : h[i] = g[i]
             /\ \A i \in 1..Len(h) : i > Len(g) =>
                  /\ i - Len(g) + skip \in (skip + 1)..end /\ h[i] = batch[i - Len(g) + skip]
             /\ \A p \in (skip + 1)..end :
                  /\ p - skip + Len(g) \in 1..Len(h) /\ h[p - skip + Len(g)] = batch[p]
<1> DEFINE w == SubSeq(batch, skip + 1, end)
           h == g \o w
           k == IF skip < end THEN end - skip ELSE 0
           n == Len(g)
<1>1. \A i \in (skip + 1)..end : batch[i] \in Tasks
  OBVIOUS
<1>2. /\ w \in Seq(Tasks)
      /\ Len(w) = IF skip + 1 <= end THEN end - (skip + 1) + 1 ELSE 0
      /\ \A i \in 1..(end - (skip + 1) + 1) : w[i] = batch[(skip + 1) + i - 1]
  <2>1. skip + 1 \in Int /\ end \in Int
    OBVIOUS
  <2>2. QED BY <1>1, <2>1, SubSeqProperties
<1> HIDE DEF w
<1>3. k \in Nat /\ Len(w) = k /\ \A i \in 1..k : w[i] = batch[i + skip]
  <2>1. k \in Nat /\ Len(w) = k
    BY <1>2
  <2>2. ASSUME NEW i \in 1..k PROVE w[i] = batch[i + skip]
    <3>1. i \in 1..(end - (skip + 1) + 1) /\ (skip + 1) + i - 1 = i + skip
      BY <2>1
    <3>2. QED BY <1>2, <3>1
  <2>3. QED BY <2>1, <2>2
<1>4. n \in Nat /\ Len(g) = n
  OBVIOUS
<1>5. h \in Seq(Tasks) /\ Len(h) = n + k
  <2>1. h \in Seq(Tasks) /\ Len(h) = Len(g) + Len(w)
    BY <1>2
  <2>2. QED BY <1>3, <2>1
<1>6. \A i \in 1..n : h[i] = g[i]
  BY <1>2, <1>4
<1>7. \A i \in 1..k : h[n + i] = w[i]
  BY <1>2, <1>3, <1>4
<1> HIDE DEF h, n
<1>8. ASSUME NEW i \in 1..Len(h), i > n
      PROVE  i - n + skip \in (skip + 1)..end /\ h[i] = batch[i - n + skip]
  <2>1. i - n \in 1..k /\ n + (i - n) = i
    BY <1>3, <1>4, <1>5, <1>8
  <2>2. h[i] = w[i - n]
    BY <1>7, <2>1
  <2>3. i - n + skip \in (skip + 1)..end
    BY <2>1
  <2>4. QED BY <1>3, <2>1, <2>2, <2>3
<1>9. ASSUME NEW p \in (skip + 1)..end
      PROVE  p - skip + n \in 1..Len(h) /\ h[p - skip + n] = batch[p]
  <2>1. p - skip \in 1..k /\ (p - skip) + skip = p /\ p - skip + n = n + (p - skip)
    BY <1>4
  <2>2. h[n + (p - skip)] = w[p - skip] /\ w[p - skip] = batch[(p - skip) + skip]
    BY <1>3, <1>7, <2>1
  <2>3. p - skip + n \in 1..(n + k)
    BY <1>3, <1>4, <2>1
  <2>4. QED BY <1>5, <2>1, <2>2, <2>3
<1>10. QED
  BY <1>4, <1>5, <1>6, <1>8, <1>9 DEF h, n, w

\* A sequence without repetition is as long as its range is large.
LEMMA InjectiveSize ==
  ASSUME NEW S, NEW s \in Seq(S), IsInjective(s)
  PROVE  IsFiniteSet(ToSet(s)) /\ Cardinality(ToSet(s)) = Len(s)
<1>1. Len(s) \in Nat /\ DOMAIN s = 1..Len(s)
  OBVIOUS
<1>2. s \in [1..Len(s) -> ToSet(s)]
  BY <1>1 DEF ToSet
<1>3. \A x \in ToSet(s) : \E i \in 1..Len(s) : s[i] = x
  BY <1>1 DEF ToSet
<1>4. s \in Bijection(1..Len(s), ToSet(s))
  BY <1>1, <1>2, <1>3 DEF Bijection, Injection, Surjection, IsInjective
<1>5. ExistsBijection(1..Len(s), ToSet(s))
  BY <1>4 DEF ExistsBijection
<1>6. IsFiniteSet(1..Len(s)) /\ Cardinality(1..Len(s)) = Len(s)
  BY <1>1, IntervalSize
<1>7. QED BY <1>5, <1>6, FS_Bijection

\* What is in a sequence.
LEMMA RangeIs ==
  ASSUME NEW S, NEW s \in Seq(S), NEW x
  PROVE  x \in ToSet(s) <=> \E i \in 1..Len(s) : s[i] = x
BY DEF ToSet

-----------------------------------------------------------------------------

\* At the start nothing was returned.
LEMMA QuietInit == Init => QuietInv
BY DEF Init, QuietInv

\* A change before the walk is no change during it, and one during it ends the claim.
LEMMA QuietChange ==
  ASSUME ListingTypeOK, QuietInv, ChangeSteps
  PROVE  QuietInv'
<1>1. /\ UNCHANGED <<phase, got, pages, seen>>
      /\ changes' = (IF phase = "idle" THEN 0 ELSE changes + 1)
  BY ChangesSettle DEF Change, readerVars
<1>2. changes' = 0 => phase' = "idle"
  BY <1>1 DEF ListingTypeOK
<1>3. QED
  BY <1>1, <1>2 DEF QuietInv

\* What the invariant says of the mailboxes and what was returned, they alone decide.
LEMMA QuietFrame ==
  ASSUME UNCHANGED <<owner, stamp>>
  PROVE  /\ Stored' = Stored /\ \A o : Mailbox(o)' = Mailbox(o)
         /\ \A o, k : Ahead(o, k)' = Ahead(o, k) /\ Respond(o, k)' = Respond(o, k)
         /\ \A c : BatchAt(c)' = BatchAt(c) /\ Passed(c)' = Passed(c)
<1>1. /\ Stored' = Stored /\ \A o : Mailbox(o)' = Mailbox(o)
      /\ \A o, k : Ahead(o, k)' = Ahead(o, k)
  BY DEF Stored, Mailbox, Ahead, Rest, Newer
<1>2. NewestFirst' = NewestFirst /\ \A o, k : Rest(o, k)' = Rest(o, k)
  BY DEF NewestFirst, Newer, Rest, Mailbox
<1>3. ASSUME NEW o, NEW k PROVE ListOwner(o, k)' = ListOwner(o, k)
  <2>1. Sorted(Rest(o, k), NewestFirst)' = Sorted(Rest(o, k), NewestFirst)
    <3>1. Rest(o, k)' = Rest(o, k) /\ NewestFirst' = NewestFirst
      BY <1>2
    <3>2. Sorted(Rest(o, k), NewestFirst)' = Sorted(Rest(o, k)', NewestFirst')
      BY DEF Sorted, Rank
    <3>3. QED BY <3>1, <3>2
  <2>2. Mailbox(o)' = Mailbox(o) /\ stamp' = stamp
    BY <1>1
  <2>3. QED BY <2>1, <2>2 DEF ListOwner
<1>4. \A o, k : Respond(o, k)' = Respond(o, k)
  BY <1>3 DEF Respond
<1>5. \A c : BatchAt(c)' = BatchAt(c)
  BY <1>4 DEF BatchAt
<1>6. \A c : Passed(c)' = Passed(c)
  BY <1>1, <1>5 DEF Passed
<1>7. QED BY <1>1, <1>4, <1>5, <1>6

\* A step that changes nothing keeps the claim.
LEMMA QuietStutter ==
  ASSUME QuietInv, UNCHANGED vars
  PROVE  QuietInv'
<1>1. UNCHANGED <<owner, stamp, phase, cursor, own, got, total, pages, seen, incomplete, changes>>
  BY DEF vars
<1>2. /\ Stored' = Stored /\ \A o : Mailbox(o)' = Mailbox(o)
      /\ \A o, k : Respond(o, k)' = Respond(o, k)
      /\ \A c : BatchAt(c)' = BatchAt(c) /\ Passed(c)' = Passed(c)
  BY <1>1, QuietFrame
<1>3. NewestCameFirst' = NewestCameFirst
  BY <1>1, <1>2 DEF NewestCameFirst
<1>4. QED
  BY <1>1, <1>2, <1>3 DEF QuietInv, FirstCursor, NoTotals

\* The first cursor has passed nothing.
LEMMA QuietBegin ==
  ASSUME WalkInv, QuietInv, Begin
  PROVE  QuietInv'
<1>1. /\ phase = "idle" /\ phase' = "session" /\ cursor = FirstCursor
      /\ got = <<>> /\ pages = 0 /\ seen = {}
      /\ UNCHANGED <<owner, stamp, cursor, got, pages, seen>>
  BY DEF WalkInv, QuietInv, Begin, mailboxVars, readerVars
<1>2. cursor.skip = 0 /\ \A o \in Owners : cursor.tokens[o] = Start
  BY <1>1 DEF FirstCursor
<1>3. Len(got) = 0 /\ DOMAIN got = {} /\ ToSet(got) = {}
  BY <1>1 DEF ToSet
<1>4. Passed(cursor) = {}
  <2>1. \A t \in Stored : owner[t] \in Owners /\ t \in Tasks
    BY DEF Stored, WalkInv, ListingTypeOK
  <2>2. \A t \in Stored : t \in Ahead(owner[t], cursor.tokens[owner[t]])
    BY <1>2, <2>1, ListingAssumption DEF Ahead, Rest, Mailbox
  <2>3. \A i \in 1..cursor.skip : FALSE
    BY <1>2
  <2>4. QED BY <2>2, <2>3 DEF Passed
<1>5. Passed(cursor)' = {}
  BY <1>1, <1>4, QuietFrame
<1>6. IsInjective(got) /\ NewestCameFirst
  BY <1>3 DEF IsInjective, NewestCameFirst
<1>7. IsInjective(got') /\ NewestCameFirst'
  BY <1>1, <1>3 DEF IsInjective, NewestCameFirst
<1>8. \A o \in Owners : cursor'.tokens[o] \in {Start, EXHAUSTED} \cup Mailbox(o)'
  BY <1>1, <1>2
<1>9. pages' <= Len(got') /\ ToSet(got') = Passed(cursor)' /\ cursor' = FirstCursor' /\ pages' = 0
  <2>1. Len(got') = 0 /\ ToSet(got') = {} /\ pages' = 0
    BY <1>1, <1>3, Zenon
  <2>2. cursor' = FirstCursor'
    BY <1>1 DEF FirstCursor, NoTotals
  <2>3. QED BY <1>5, <2>1, <2>2
<1>10. QED
  BY <1>1, <1>7, <1>8, <1>9 DEF QuietInv

\* The session's answer is the one its token asks for.
LEMMA QuietSession ==
  ASSUME QuietInv, ListSession
  PROVE  QuietInv'
<1>1. /\ phase = "session" /\ phase' = "agent"
      /\ own' = Respond("session", cursor.tokens["session"])
      /\ UNCHANGED <<owner, stamp, cursor, got, pages, seen, changes>>
  BY DEF ListSession, mailboxVars, readerVars
<1>2. /\ Stored' = Stored /\ \A o : Mailbox(o)' = Mailbox(o)
      /\ \A o, k : Respond(o, k)' = Respond(o, k)
      /\ \A c : BatchAt(c)' = BatchAt(c) /\ Passed(c)' = Passed(c)
  BY <1>1, QuietFrame
<1>3. NewestCameFirst' = NewestCameFirst
  BY <1>1, <1>2 DEF NewestCameFirst
<1>4. QED
  BY <1>1, <1>2, <1>3 DEF QuietInv, FirstCursor, NoTotals

\* A token of an undisturbed walk names a task that is where it was.
LEMMA QuietFail ==
  ASSUME QuietInv, Fail
  PROVE  QuietInv'
<1>1. /\ phase \in Owners /\ ~Valid(phase) /\ phase' = "failed"
      /\ UNCHANGED <<owner, stamp, changes>>
  BY DEF Fail, mailboxVars
<1>2. phase # "done" /\ phase # "idle"
  BY <1>1 DEF Owners
<1>3. changes # 0
  BY <1>1, <1>2 DEF QuietInv, Valid, Mailbox
<1>4. QED
  BY <1>1, <1>3 DEF QuietInv

\* A page returns what the next cursor has passed besides, so that no token comes twice, and the
\* last one leaves nothing.
LEMMA QuietFollow ==
  ASSUME WalkInv, QuietInv, ListAgentAndFollow
  PROVE  QuietInv'
<1> DEFINE batch == BatchAt(cursor)
           n == Len(batch)
           forward == Forward(Pages(cursor))
           totals == [o \in Owners |-> IF cursor.totals[o] = -1 THEN Pages(cursor)[o].total
                                       ELSE cursor.totals[o]]
           skip == cursor.skip
           end == IF skip + PageSize < n THEN skip + PageSize ELSE n
           next == NextCursor(cursor, n, totals, forward)
           last == next = NoCursor
           stop == next \in seen \/ pages + 1 >= MaxPages
           rest == [tokens |-> cursor.tokens, skip |-> skip + PageSize, totals |-> totals]
           further == [tokens |-> forward, skip |-> 0, totals |-> totals]
           A(o) == Ahead(o, cursor.tokens[o])
           m == Len(got)
<1>1. phase = "agent" /\ phase' \in {"session", "done"} /\ UNCHANGED <<owner, stamp, changes>>
  BY DEF ListAgentAndFollow, mailboxVars
<1> SUFFICES ASSUME changes = 0 PROVE QuietInv'
  BY <1>1 DEF QuietInv
<1>2. /\ own = Respond("session", cursor.tokens["session"])
      /\ IsInjective(got) /\ NewestCameFirst
      /\ ToSet(got) = Passed(cursor) /\ pages <= Len(got) /\ ValidTokens(cursor)
      /\ \A c \in seen : Passed(c) \subseteq ToSet(got)
      /\ IF pages = 0 THEN cursor = FirstCursor
         ELSE /\ m >= PageSize /\ skip < n
              /\ cursor.totals = [o \in Owners |-> Cardinality(Mailbox(o))]
  BY <1>1 DEF QuietInv, ValidTokens
<1>3. Answer = Pages(cursor) /\ MergeBatch(Answer) = batch
  <2>1. Answer = Pages(cursor)
    BY <1>2 DEF Answer, Pages, Owners
  <2>2. QED BY <2>1 DEF BatchAt, Pages
<1>4. /\ pages' = pages + 1
      /\ got' = got \o SubSeq(batch, skip + 1, end)
      /\ total' = totals["session"] + totals["agent"]
      /\ incomplete' = (~last /\ stop)
      /\ phase' = IF last \/ stop THEN "done" ELSE "session"
      /\ cursor' = IF last \/ stop THEN cursor ELSE next
      /\ seen' = IF last \/ stop THEN seen ELSE seen \cup {next}
  <2> DEFINE window == SubSeq(batch, skip + 1, end)
  <2>1. MergePages(cursor, Answer) =
          [tasks |-> window, total |-> totals["session"] + totals["agent"], next |-> next]
    BY <1>3 DEF MergePages
  <2> HIDE DEF window, next
  <2>2. /\ MergePages(cursor, Answer).tasks = window /\ MergePages(cursor, Answer).next = next
        /\ MergePages(cursor, Answer).total = totals["session"] + totals["agent"]
    BY <2>1
  <2> HIDE DEF batch, totals, forward, end, n
  <2>3. QED BY <2>2 DEF ListAgentAndFollow, Answer, mailboxVars, window
<1>5. /\ ListingTypeOK /\ StampsOK /\ cursor \in Cursors /\ got \in Seq(Tasks) /\ pages \in Nat
      /\ PageSize \in Nat /\ PageSize >= 1 /\ MaxPages \in Nat /\ MaxTasks \in Nat
      /\ Owners = {"session", "agent"} /\ EXHAUSTED \notin Tasks /\ Start \notin Tasks
      /\ \A t \in Stored : t \in Tasks /\ owner[t] \in Owners
      /\ Start # EXHAUSTED
  BY TypeOfStamps, ListingAssumption DEF WalkInv, ListingTypeOK, Owners, Tasks, Stored
<1>6. /\ skip \in Nat /\ m \in Nat
      /\ \A o \in Owners : A(o) \subseteq Mailbox(o) /\ A(o) \subseteq Stored
  BY <1>5, CursorShape DEF Ahead, Rest, Mailbox, Stored, Nowhere
<1>7. /\ batch \in Seq(Tasks) /\ n \in Nat /\ n <= PageSize + PageSize
      /\ \A i, j \in 1..n : i < j => batch[i] # batch[j] /\ stamp[batch[i]] >= stamp[batch[j]]
      /\ \A i \in 1..n : \E o \in Owners : batch[i] \in A(o)
      /\ \A o \in Owners :
           /\ forward[o] \in {EXHAUSTED} \cup Mailbox(o)
           /\ forward[o] # EXHAUSTED => forward[o] \in Ahead(o, forward[o])
           /\ \A t \in A(o) :
                \/ \E i \in 1..n : batch[i] = t
                \/ /\ t \in Ahead(o, forward[o]) /\ n >= PageSize
                   /\ \A i \in 1..n : i <= PageSize => stamp[batch[i]] >= stamp[t]
           /\ \A t \in Ahead(o, forward[o]) : t \in A(o) /\ \A i \in 1..n : batch[i] # t
  BY <1>2, <1>5, QuietBatch
<1>8. pages = 0 => /\ skip = 0 /\ m = 0 /\ cursor.totals = NoTotals
                   /\ \A o \in Owners : cursor.tokens[o] = Start
                   /\ \A t \in Stored : t \in A(owner[t])
  <2> SUFFICES ASSUME pages = 0
               PROVE  /\ skip = 0 /\ m = 0 /\ cursor.totals = NoTotals
                      /\ \A o \in Owners : cursor.tokens[o] = Start
                      /\ \A t \in Stored : t \in A(owner[t])
    OBVIOUS
  <2>1. skip = 0 /\ cursor.totals = NoTotals /\ \A o \in Owners : cursor.tokens[o] = Start
    BY <1>2 DEF FirstCursor
  <2>2. \A t \in Stored : t \in A(owner[t])
    BY <1>5, <2>1 DEF Ahead, Rest, Mailbox, Stored
  <2>3. Passed(cursor) = {}
    BY <2>1, <2>2 DEF Passed
  <2>4. m = 0
    <3>1. SUFFICES ASSUME m >= 1 PROVE FALSE
      BY <1>6
    <3>2. got[1] \in ToSet(got)
      BY <1>5, <1>6, <3>1, InRange
    <3>3. QED BY <1>2, <2>3, <3>2
  <2>5. QED BY <2>1, <2>2, <2>4
<1>9. Passed(cursor) = {t \in Stored : t \notin A(owner[t])} \cup {batch[i] : i \in 1..skip}
  BY DEF Passed
<1>10. next = IF skip + PageSize < n THEN rest
              ELSE IF \E o \in Owners : forward[o] # EXHAUSTED THEN further ELSE NoCursor
  BY DEF NextCursor
<1>11. /\ rest # NoCursor /\ further # NoCursor
       /\ rest.tokens = cursor.tokens /\ rest.skip = skip + PageSize /\ rest.totals = totals
       /\ further.tokens = forward /\ further.skip = 0 /\ further.totals = totals
  <2>1. rest.skip = skip + PageSize /\ further.skip = 0 /\ NoCursor.skip = -1
    BY DEF NoCursor, FirstCursor
  <2>2. /\ rest.tokens = cursor.tokens /\ rest.totals = totals
        /\ further.tokens = forward /\ further.totals = totals
    OBVIOUS
  <2> HIDE DEF rest, further, totals, forward
  <2>3. QED BY <1>5, <1>6, <2>1, <2>2
<1>12. totals = [o \in Owners |-> Cardinality(Mailbox(o))]
  <2>1. \A o \in Owners : Cardinality(Mailbox(o)) \in Nat
    BY TasksAreFinite DEF Mailbox
  <2>2. CASE pages = 0
    <3>1. \A o \in Owners : cursor.totals[o] = -1
      BY <1>8, <2>2 DEF NoTotals
    <3>2. ASSUME NEW o \in Owners PROVE Pages(cursor)[o].total = Cardinality(Mailbox(o))
      <4>1. Pages(cursor)[o] = ListOwner(o, Start)
        BY <1>5, <1>8, <2>2 DEF Pages, Respond
      <4>2. ListOwner(o, Start).total = Cardinality(Mailbox(o))
        BY DEF ListOwner
      <4>3. QED BY <4>1, <4>2
    <3>3. QED BY <3>1, <3>2
  <2>3. CASE pages # 0
    <3>1. \A o \in Owners : cursor.totals[o] = Cardinality(Mailbox(o)) /\ cursor.totals[o] # -1
      BY <1>2, <2>1, <2>3
    <3>2. QED BY <3>1
  <2>4. QED BY <2>2, <2>3
<1> HIDE DEF batch, n, forward, totals, rest, further, A, m, next
<1>13. end \in Nat /\ end <= n /\ end = IF skip + PageSize < n THEN skip + PageSize ELSE n
  BY <1>5, <1>6, <1>7
<1> HIDE DEF end, skip
<1>14. /\ got' \in Seq(Tasks)
       /\ Len(got') = m + (IF skip < end THEN end - skip ELSE 0)
       /\ \A i \in 1..m : got'[i] = got[i]
       /\ \A i \in 1..Len(got') : i > m =>
            i - m + skip \in (skip + 1)..end /\ got'[i] = batch[i - m + skip]
       /\ \A p \in (skip + 1)..end :
            p - skip + m \in 1..Len(got') /\ got'[p - skip + m] = batch[p]
  <2> DEFINE h == got \o SubSeq(batch, skip + 1, end)
  <2>1. /\ h \in Seq(Tasks)
        /\ Len(h) = m + (IF skip < end THEN end - skip ELSE 0)
        /\ \A i \in 1..m : h[i] = got[i]
        /\ \A i \in 1..Len(h) : i > m =>
             i - m + skip \in (skip + 1)..end /\ h[i] = batch[i - m + skip]
        /\ \A p \in (skip + 1)..end :
             p - skip + m \in 1..Len(h) /\ h[p - skip + m] = batch[p]
    BY <1>5, <1>6, <1>7, <1>13, Windowed DEF m, n
  <2>2. got' = h
    BY <1>4
  <2> HIDE DEF h
  <2>3. QED BY <2>1, <2>2
<1>15. skip < n \/ (skip = 0 /\ pages = 0)
  BY <1>2, <1>8 DEF n, skip, m
<1>16. skip \in Nat /\ m \in Nat /\ end \in Nat /\ n \in Nat /\ end <= n /\ PageSize \in Nat /\ PageSize >= 1
  BY <1>5, <1>6, <1>7, <1>13
<1>17. ASSUME NEW x
       PROVE  x \in ToSet(got') <=> x \in ToSet(got) \/ \E p \in (skip + 1)..end : batch[p] = x
  <2>1. /\ x \in ToSet(got) <=> \E i \in 1..m : got[i] = x
        /\ x \in ToSet(got') <=> \E i \in 1..Len(got') : got'[i] = x
    BY <1>5, <1>14, RangeIs DEF m
  <2>2. \A i \in 1..m : i \in 1..Len(got')
    BY <1>14, <1>16
  <2>3. \A i \in 1..Len(got') : i \in 1..m \/ i > m
    BY <1>14, <1>16
  <2>4. QED BY <1>14, <2>1, <2>2, <2>3
<1>18. ASSUME NEW p \in 1..n, p > skip
       PROVE  batch[p] \notin ToSet(got) /\ batch[p] \in Stored /\ batch[p] \in A(owner[batch[p]])
  <2>1. PICK o \in Owners : batch[p] \in A(o)
    BY <1>7
  <2>2. owner[batch[p]] = o /\ batch[p] \in Stored
    BY <1>6, <2>1 DEF Mailbox
  <2>3. ASSUME NEW k \in 1..skip PROVE batch[k] # batch[p]
    <3>1. k \in 1..n /\ k < p
      BY <1>16, <1>18
    <3>2. QED BY <1>7, <3>1
  <2>4. QED BY <1>2, <1>9, <2>1, <2>2, <2>3
<1>19. IsInjective(got')
  <2>1. DOMAIN got' = 1..Len(got') /\ DOMAIN got = 1..m
    BY <1>5, <1>14 DEF m
  <2>2. ASSUME NEW i \in 1..Len(got'), NEW j \in 1..Len(got'), i < j
        PROVE  got'[i] # got'[j]
    <3>1. CASE j <= m
      <4>1. i \in 1..m /\ j \in 1..m /\ i # j
        BY <1>14, <1>16, <2>2, <3>1
      <4>2. QED BY <1>2, <1>14, <2>1, <4>1 DEF IsInjective
    <3>2. CASE i <= m /\ ~(j <= m)
      <4>1. i \in 1..m /\ j > m
        BY <1>14, <1>16, <2>2, <3>2
      <4>2. PICK p \in (skip + 1)..end : got'[j] = batch[p]
        BY <1>14, <4>1
      <4>3. p \in 1..n /\ p > skip
        BY <1>16
      <4>4. got'[i] \in ToSet(got)
        BY <1>5, <1>14, <4>1, InRange DEF m
      <4>5. QED BY <1>18, <4>2, <4>3, <4>4
    <3>3. CASE ~(i <= m)
      <4>1. i > m /\ j > m
        BY <1>14, <1>16, <2>2, <3>3
      <4>2. /\ i - m + skip \in (skip + 1)..end /\ got'[i] = batch[i - m + skip]
            /\ j - m + skip \in (skip + 1)..end /\ got'[j] = batch[j - m + skip]
        BY <1>14, <4>1
      <4>3. i - m + skip \in 1..n /\ j - m + skip \in 1..n /\ i - m + skip < j - m + skip
        BY <1>16, <2>2, <4>1, <4>2
      <4>4. QED BY <1>7, <4>2, <4>3
    <3>4. QED BY <3>1, <3>2, <3>3
  <2>3. ASSUME NEW i \in 1..Len(got'), NEW j \in 1..Len(got'), got'[i] = got'[j]
        PROVE  i = j
    <3>1. ~(i < j) /\ ~(j < i)
      BY <2>2, <2>3
    <3>2. QED BY <3>1
  <2>4. QED BY <2>1, <2>3 DEF IsInjective
<1>20. ASSUME NEW i \in 1..Len(got'), i <= PageSize
       PROVE  /\ \A j \in 1..Len(got') : i < j => stamp[got'[i]] >= stamp[got'[j]]
              /\ \A t \in Stored \ ToSet(got') : stamp[got'[i]] >= stamp[t]
  <2>1. CASE pages = 0
    <3>1. skip = 0 /\ m = 0 /\ \A t \in Stored : t \in A(owner[t])
      BY <1>8, <2>1 DEF m, skip, A
    <3>2. ASSUME NEW j \in 1..Len(got') PROVE j \in 1..n /\ j \in 1..end /\ got'[j] = batch[j]
      <4>1. j > m /\ j - m + skip = j
        BY <3>1
      <4>2. j \in (skip + 1)..end /\ got'[j] = batch[j]
        BY <1>14, <4>1
      <4>3. QED BY <1>16, <3>1, <4>2
    <3>3. ASSUME NEW j \in 1..Len(got'), i < j PROVE stamp[got'[i]] >= stamp[got'[j]]
      BY <1>7, <3>2, <3>3
    <3>4. ASSUME NEW t \in Stored \ ToSet(got') PROVE stamp[got'[i]] >= stamp[t]
      <4>1. owner[t] \in Owners /\ t \in A(owner[t])
        BY <1>5, <3>1
      <4>2. CASE \E k \in 1..n : batch[k] = t
        <5>1. PICK k \in 1..n : batch[k] = t
          BY <4>2
        <5>2. k \notin (skip + 1)..end
          BY <1>17, <3>4, <5>1
        <5>3. k > end
          BY <1>16, <3>1, <5>2
        <5>4. i \in 1..n /\ i < k
          BY <1>16, <3>2, <5>3
        <5>5. QED BY <1>7, <3>2, <5>1, <5>4
      <4>3. CASE ~\E k \in 1..n : batch[k] = t
        <5>1. \A k \in 1..n : k <= PageSize => stamp[batch[k]] >= stamp[t]
          BY <1>7, <4>1, <4>3
        <5>2. QED BY <1>20, <3>2, <5>1
      <4>4. QED BY <4>2, <4>3
    <3>5. QED BY <3>3, <3>4
  <2>2. CASE pages # 0
    <3>1. i \in 1..m /\ got'[i] = got[i]
      <4>1. m >= PageSize
        BY <1>2, <2>2 DEF m
      <4>2. i \in 1..m
        BY <1>16, <1>20, <4>1
      <4>3. QED BY <1>14, <4>2
    <3>2. /\ \A j \in 1..m : i < j => stamp[got[i]] >= stamp[got[j]]
          /\ \A t \in Stored \ ToSet(got) : stamp[got[i]] >= stamp[t]
      BY <1>2, <1>20, <3>1 DEF NewestCameFirst, m
    <3>3. ASSUME NEW j \in 1..Len(got'), i < j PROVE stamp[got'[i]] >= stamp[got'[j]]
      <4>1. CASE j <= m
        <5>1. j \in 1..m /\ got'[j] = got[j]
          BY <1>14, <1>16, <4>1
        <5>2. QED BY <3>1, <3>2, <3>3, <5>1
      <4>2. CASE ~(j <= m)
        <5>1. j > m
          BY <1>16, <4>2
        <5>2. PICK p \in (skip + 1)..end : got'[j] = batch[p]
          BY <1>14, <5>1
        <5>3. p \in 1..n /\ p > skip
          BY <1>16
        <5>4. batch[p] \in Stored \ ToSet(got)
          BY <1>18, <5>3
        <5>5. QED BY <3>1, <3>2, <5>2, <5>4
      <4>3. QED BY <4>1, <4>2
    <3>4. ASSUME NEW t \in Stored \ ToSet(got') PROVE stamp[got'[i]] >= stamp[t]
      <4>1. t \notin ToSet(got)
        BY <1>17, <3>4
      <4>2. QED BY <3>1, <3>2, <4>1
    <3>5. QED BY <3>3, <3>4
  <2>3. QED BY <2>1, <2>2
<1>21. NewestCameFirst'
  <2>1. Stored' = Stored /\ stamp' = stamp
    BY <1>1, QuietFrame
  <2>2. QED BY <1>20, <2>1 DEF NewestCameFirst
<1>22. ASSUME NEW x
       PROVE  x \in ToSet(got') <=> \/ x \in Stored /\ x \notin A(owner[x])
                                    \/ \E p \in 1..n : p <= end /\ batch[p] = x
  <2>1. x \in ToSet(got) <=> \/ x \in Stored /\ x \notin A(owner[x])
                             \/ \E p \in 1..skip : batch[p] = x
    BY <1>2, <1>9
  <2>2. (skip <= end /\ end <= n) \/ (skip = 0 /\ end = 0)
    BY <1>13, <1>15, <1>16
  <2>3. \A p : p \in 1..n /\ p <= end <=> p \in 1..skip \/ p \in (skip + 1)..end
    BY <1>16, <2>2
  <2>4. QED BY <1>17, <2>1, <2>3
<1>23. ASSUME NEW x, x \in A(owner[x]), owner[x] \in Owners
       PROVE  x \in Ahead(owner[x], forward[owner[x]]) <=> ~\E p \in 1..n : batch[p] = x
  BY <1>7, <1>23
<1>24. ASSUME next # NoCursor
       PROVE  /\ end > skip /\ Len(got') >= PageSize /\ ToSet(got') = Passed(next)
              /\ ValidTokens(next) /\ next.skip < Len(BatchAt(next))
              /\ next.totals = [o \in Owners |-> Cardinality(Mailbox(o))]
  <2>1. CASE skip + PageSize < n
    <3>1. next = rest /\ end = skip + PageSize
      BY <1>10, <1>13, <2>1
    <3>2. BatchAt(rest) = batch /\ Len(BatchAt(rest)) = n
      BY <1>11 DEF BatchAt, batch, n
    <3>3. Passed(rest) = {t \in Stored : t \notin A(owner[t])} \cup {batch[i] : i \in 1..(skip + PageSize)}
      BY <1>11, <3>2 DEF Passed, A, skip
    <3>4. \A p : p \in 1..n /\ p <= end <=> p \in 1..(skip + PageSize)
      BY <1>16, <2>1, <3>1
    <3>5. ASSUME NEW x PROVE x \in ToSet(got') <=> x \in Passed(rest)
      BY <1>22, <3>3, <3>4
    <3>6. ToSet(got') = Passed(rest)
      BY <3>5
    <3>7. end > skip /\ Len(got') >= PageSize
      BY <1>14, <1>16, <3>1
    <3>8. ValidTokens(rest)
      BY <1>2, <1>11 DEF ValidTokens
    <3>9. rest.skip < Len(BatchAt(rest))
      BY <1>11, <2>1, <3>2 DEF skip
    <3>10. QED BY <1>11, <1>12, <3>1, <3>6, <3>7, <3>8, <3>9
  <2>2. CASE ~(skip + PageSize < n)
    <3>1. next = further /\ end = n
      BY <1>10, <1>13, <1>24, <2>2
    <3>2. PICK o \in Owners : forward[o] # EXHAUSTED
      BY <1>10, <1>24, <2>2
    <3>3. n >= PageSize
      <4>1. forward[o] \in Ahead(o, forward[o])
        BY <1>7, <3>2
      <4>2. forward[o] \in A(o) /\ ~\E i \in 1..n : batch[i] = forward[o]
        BY <1>7, <4>1
      <4>3. QED BY <1>7, <4>2
    <3>4. end > skip /\ Len(got') >= PageSize
      <4>1. end > skip
        BY <1>15, <1>16, <3>1, <3>3
      <4>2. pages = 0 => skip = 0 /\ m = 0
        BY <1>8 DEF skip, m
      <4>3. pages # 0 => m >= PageSize
        BY <1>2 DEF m
      <4>4. QED BY <1>14, <1>16, <3>1, <3>3, <4>1, <4>2, <4>3
    <3>5. ValidTokens(further)
      BY <1>7, <1>11 DEF ValidTokens
    <3>6. Passed(further) = {t \in Stored : t \notin Ahead(owner[t], forward[owner[t]])}
      <4>1. \A i \in 1..further.skip : FALSE
        BY <1>11
      <4>2. QED BY <1>11, <4>1 DEF Passed
    <3>7. ASSUME NEW x PROVE x \in ToSet(got') <=> x \in Passed(further)
      <4>1. x \in ToSet(got') <=> \/ x \in Stored /\ x \notin A(owner[x])
                                  \/ \E p \in 1..n : batch[p] = x
        BY <1>16, <1>22, <3>1
      <4>2. ASSUME NEW p \in 1..n, batch[p] = x PROVE x \in Stored /\ x \in A(owner[x])
        <5>1. PICK w \in Owners : batch[p] \in A(w)
          BY <1>7
        <5>2. QED BY <1>6, <4>2, <5>1 DEF Mailbox
      <4>3. ASSUME x \in Stored, x \in A(owner[x])
            PROVE  x \in Ahead(owner[x], forward[owner[x]]) <=> ~\E p \in 1..n : batch[p] = x
        BY <1>5, <1>23, <4>3
      <4>4. ASSUME x \in Stored, x \notin A(owner[x])
            PROVE  x \notin Ahead(owner[x], forward[owner[x]])
        BY <1>5, <1>7, <4>4
      <4>5. QED BY <3>6, <4>1, <4>2, <4>3, <4>4
    <3>8. ToSet(got') = Passed(further)
      BY <3>7
    <3>9. further.skip < Len(BatchAt(further))
      <4>1. forward[o] \in Ahead(o, further.tokens[o])
        BY <1>7, <1>11, <3>2
      <4>2. /\ Len(BatchAt(further)) \in Nat
            /\ (\E i \in 1..Len(BatchAt(further)) : TRUE) \/ Len(BatchAt(further)) >= PageSize
        BY <1>5, <3>5, <4>1, QuietBatch
      <4>3. Len(BatchAt(further)) > 0
        BY <1>16, <4>2
      <4>4. QED BY <1>11, <4>3
    <3>10. QED BY <1>11, <1>12, <3>1, <3>4, <3>5, <3>8, <3>9
  <2>3. QED BY <2>1, <2>2
<1>25. ASSUME next = NoCursor
       PROVE  ToSet(got') = Stored
  <2>1. ~(skip + PageSize < n) /\ \A o \in Owners : forward[o] = EXHAUSTED
    BY <1>10, <1>11, <1>25
  <2>2. end = n /\ \A o \in Owners : Ahead(o, forward[o]) = {}
    BY <1>13, <2>1 DEF Ahead
  <2>3. ASSUME NEW x PROVE x \in ToSet(got') <=> x \in Stored
    <3>1. x \in ToSet(got') <=> \/ x \in Stored /\ x \notin A(owner[x])
                                \/ \E p \in 1..n : batch[p] = x
      BY <1>16, <1>22, <2>2
    <3>2. ASSUME NEW p \in 1..n, batch[p] = x PROVE x \in Stored
      <4>1. PICK w \in Owners : batch[p] \in A(w)
        BY <1>7
      <4>2. QED BY <1>6, <3>2, <4>1
    <3>3. ASSUME x \in Stored, x \in A(owner[x]) PROVE \E p \in 1..n : batch[p] = x
      BY <1>5, <1>23, <2>2, <3>3
    <3>4. QED BY <3>1, <3>2, <3>3
  <2>4. QED BY <2>3
<1>26. /\ Len(got') \in Nat /\ Len(got') <= MaxTasks
       /\ Len(got') = Cardinality(ToSet(got'))
  <2>1. Len(got') = Cardinality(ToSet(got')) /\ Len(got') \in Nat
    BY <1>14, <1>19, InjectiveSize
  <2>2. ToSet(got') \in SUBSET Tasks
    <3>1. \A x \in ToSet(got') : \E i \in 1..Len(got') : got'[i] = x
      BY <1>14, RangeIs
    <3>2. \A i \in 1..Len(got') : got'[i] \in Tasks
      BY <1>14
    <3>3. QED BY <3>1, <3>2
  <2>3. Cardinality(Tasks) = MaxTasks
    BY <1>5, IntervalSize DEF Tasks
  <2>4. Tasks \in SUBSET Tasks
    OBVIOUS
  <2>5. Cardinality(ToSet(got')) <= Cardinality(Tasks)
    BY <2>2, <2>4, TasksAreFinite
  <2>6. QED BY <2>1, <2>3, <2>5
<1>27. total' = Cardinality(Stored)
  <2>1. total' = Cardinality(Mailbox("session")) + Cardinality(Mailbox("agent"))
    BY <1>4, <1>5, <1>12 DEF totals
  <2>2. Stored = Mailbox("session") \cup Mailbox("agent") /\ Mailbox("session") \cap Mailbox("agent") = {}
    BY <1>5 DEF Stored, Mailbox, Nowhere
  <2>3. Mailbox("session") \in SUBSET Tasks /\ Mailbox("agent") \in SUBSET Tasks
    BY DEF Mailbox
  <2>4. /\ IsFiniteSet(Mailbox("session")) /\ Cardinality(Mailbox("session")) \in Nat
        /\ IsFiniteSet(Mailbox("agent")) /\ Cardinality(Mailbox("agent")) \in Nat
    BY <2>3, TasksAreFinite
  <2>5. Cardinality(Stored) = Cardinality(Mailbox("session")) + Cardinality(Mailbox("agent"))
                                - Cardinality({})
    BY <2>2, <2>4, FS_Union
  <2>6. QED BY <2>1, <2>4, <2>5, FS_EmptySet
<1>28. ASSUME next # NoCursor
       PROVE  next \notin seen /\ pages + 1 <= Len(got')
  <2>1. skip + 1 \in 1..n /\ skip + 1 > skip /\ skip + 1 \in (skip + 1)..end
    BY <1>16, <1>24, <1>28
  <2>2. batch[skip + 1] \in ToSet(got') /\ batch[skip + 1] \notin ToSet(got)
    BY <1>17, <1>18, <2>1
  <2>3. ~(Passed(next) \subseteq ToSet(got))
    BY <1>24, <1>28, <2>2
  <2>4. next \notin seen
    BY <1>2, <2>3
  <2>5. Len(got') >= m + 1
    BY <1>14, <1>16, <1>24, <1>28
  <2>6. pages <= m
    BY <1>2 DEF m
  <2>7. QED BY <1>5, <1>16, <1>26, <2>4, <2>5, <2>6
<1>29. ASSUME phase' = "done", MaxPages > MaxTasks
       PROVE  ~incomplete' /\ ToSet(got') = Stored' /\ Len(got') = total'
  <2>1. last
    <3>1. SUFFICES ASSUME ~last PROVE FALSE
      OBVIOUS
    <3>2. stop
      BY <1>4, <1>29, <3>1
    <3>3. next # NoCursor /\ next \notin seen /\ pages + 1 <= Len(got')
      BY <1>28, <3>1
    <3>4. QED BY <1>5, <1>26, <1>29, <3>2, <3>3
  <2>2. ToSet(got') = Stored
    BY <1>25, <2>1
  <2>3. Stored' = Stored
    BY <1>1, QuietFrame
  <2>4. QED BY <1>4, <1>26, <1>27, <2>1, <2>2, <2>3
<1>30. ASSUME phase' # "done"
       PROVE  /\ ToSet(got') = Passed(cursor)' /\ pages' <= Len(got')
              /\ \A o \in Owners : cursor'.tokens[o] \in {Start, EXHAUSTED} \cup Mailbox(o)'
              /\ \A c \in seen' : Passed(c)' \subseteq ToSet(got')
              /\ pages' # 0 /\ Len(got') >= PageSize /\ cursor'.skip < Len(BatchAt(cursor))'
              /\ cursor'.totals = [o \in Owners |-> Cardinality(Mailbox(o))']
  <2>1. ~last /\ ~stop /\ cursor' = next /\ seen' = seen \cup {next} /\ next # NoCursor
    BY <1>4, <1>30
  <2>2. /\ Stored' = Stored /\ \A o : Mailbox(o)' = Mailbox(o)
        /\ \A c : BatchAt(c)' = BatchAt(c) /\ Passed(c)' = Passed(c)
    BY <1>1, QuietFrame
  <2>3. Passed(cursor)' = Passed(next) /\ BatchAt(cursor)' = BatchAt(next)
    <3>1. \A c : c = cursor' => Passed(cursor)' = Passed(c)' /\ BatchAt(cursor)' = BatchAt(c)'
      BY DEF Passed, BatchAt, Respond, ListOwner, Ahead, Rest, Stored
    <3>2. QED BY <2>1, <2>2, <3>1
  <2>4. \A c \in seen' : Passed(c)' \subseteq ToSet(got')
    <3>1. ASSUME NEW c \in seen PROVE Passed(c) \subseteq ToSet(got')
      <4>1. ToSet(got) \subseteq ToSet(got')
        BY <1>17
      <4>2. Passed(c) \subseteq ToSet(got)
        BY <1>2
      <4>3. QED BY <4>1, <4>2
    <3>2. Passed(next) \subseteq ToSet(got')
      BY <1>24, <2>1
    <3>3. QED BY <2>1, <2>2, <3>1, <3>2
  <2>5. \A o \in Owners : cursor'.tokens[o] \in {Start, EXHAUSTED} \cup Mailbox(o)'
    BY <1>24, <2>1, <2>2 DEF ValidTokens
  <2>6. [o \in Owners |-> Cardinality(Mailbox(o))'] = [o \in Owners |-> Cardinality(Mailbox(o))]
    BY <2>2
  <2>7. pages' <= Len(got') /\ pages' # 0
    <3>1. pages' = pages + 1
      BY <1>4
    <3>2. pages + 1 <= Len(got')
      BY <1>28, <2>1
    <3>3. QED BY <1>5, <3>1, <3>2
  <2>8. Len(got') >= PageSize /\ cursor'.skip < Len(BatchAt(cursor))' /\ ToSet(got') = Passed(cursor)'
    BY <1>24, <2>1, <2>3
  <2>9. cursor'.totals = [o \in Owners |-> Cardinality(Mailbox(o))']
    BY <1>24, <2>1, <2>6
  <2>10. QED BY <2>4, <2>5, <2>7, <2>8, <2>9
<1>31. /\ phase' \notin {"idle", "failed", "agent"} /\ (phase' = "done" \/ phase' # "done")
       /\ changes' = 0
  BY <1>1
<1>32. QED
  BY <1>19, <1>21, <1>29, <1>30, <1>31 DEF QuietInv

-----------------------------------------------------------------------------
(* A token that names settled mail *)

\* The token of a page is that of a task of the mailbox it is a page of.
LEMMA TokenIsOfItsMailbox ==
  ASSUME StampsOK, NEW o, NEW k
  PROVE  Respond(o, k).next \in {Start} \cup Mailbox(o)
<1> DEFINE A == Rest(o, k)
           rest == Sorted(A, NewestFirst)
           m == Cardinality(A)
<1>1. /\ A \in SUBSET Tasks /\ A \subseteq Mailbox(o) /\ IsFiniteSet(A) /\ m \in Nat
      /\ PageSize \in Nat
  BY TasksAreFinite, ListingAssumption DEF Rest, Mailbox
<1>2. rest \in [1..m -> A]
  BY <1>1, NewestFirstOrders, SortedByRank
<1> HIDE DEF A, m, rest
<1>3. Len(rest) = m
  BY <1>1, <1>2
<1>4. Len(rest) > PageSize => rest[PageSize + 1] \in Mailbox(o)
  BY <1>1, <1>2, <1>3
<1>5. ListOwner(o, k).next = IF Len(rest) > PageSize THEN rest[PageSize + 1] ELSE Start
  BY DEF ListOwner, rest, A
<1>6. CASE k = EXHAUSTED
  BY <1>6 DEF Respond
<1>7. CASE k # EXHAUSTED
  <2>1. Respond(o, k) = ListOwner(o, k)
    BY <1>7 DEF Respond
  <2>2. QED BY <1>4, <1>5, <2>1
<1>8. QED
  BY <1>6, <1>7

\* A change leaves the settled where a token has them.
LEMMA TokensChange ==
  ASSUME WalkInv, TokensHold, ChangeSteps
  PROVE  TokensHold'
<1>1. SettledStays /\ Change
  BY ChangesSettle DEF WalkInv
<1>2. /\ phase \notin {"done", "failed"} /\ UNCHANGED <<phase, cursor, own, atStart>>
  BY <1>1 DEF Change, readerVars
<1>3. \A t \in atStart.settled : owner'[t] = owner[t]
  BY <1>1 DEF SettledStays, WalkInv
<1>4. (\A o \in Owners : cursor.tokens[o] \in atStart.settled => owner[cursor.tokens[o]] = o)'
  BY <1>2, <1>3 DEF TokensHold
<1>5. (phase = "agent" /\ own.next \in atStart.settled => owner[own.next] = "session")'
  BY <1>2, <1>3 DEF TokensHold
<1>6. RefusedOnlyForUnsettled'
  BY <1>2 DEF RefusedOnlyForUnsettled
<1>7. QED
  BY <1>4, <1>5, <1>6 DEF TokensHold

\* The first tokens name no task.
LEMMA TokensBegin ==
  ASSUME WalkInv, Begin
  PROVE  TokensHold'
<1>1. /\ phase' = "session" /\ UNCHANGED cursor
      /\ atStart'.settled \subseteq Tasks
      /\ \A o \in Owners : cursor.tokens[o] = Start
  BY DEF Begin, WalkInv, readerVars, FirstCursor, Stored
<1>2. QED
  BY <1>1, ListingAssumption DEF TokensHold, RefusedOnlyForUnsettled, Tasks

\* The session's answer names a task of the session's mailbox.
LEMMA TokensSession ==
  ASSUME WalkInv, TokensHold, ListSession
  PROVE  TokensHold'
<1>1. /\ phase' = "agent" /\ UNCHANGED <<owner, cursor, atStart>>
      /\ own' = Respond("session", cursor.tokens["session"])
  BY DEF ListSession, mailboxVars, readerVars
<1>2. own'.next \in {Start} \cup Mailbox("session")
  BY <1>1, TokenIsOfItsMailbox, TypeOfStamps DEF WalkInv
<1>3. Start \notin atStart.settled
  BY ListingAssumption DEF WalkInv, Tasks
<1>4. own'.next \in atStart.settled => owner[own'.next] = "session"
  BY <1>2, <1>3 DEF Mailbox
<1>5. QED
  BY <1>1, <1>4 DEF TokensHold, RefusedOnlyForUnsettled

\* The next cursor has the same tokens, or those the two answers name.
LEMMA TokensFollow ==
  ASSUME WalkInv, TokensHold, ListAgentAndFollow
  PROVE  TokensHold'
<1> DEFINE page == MergePages(cursor, Answer)
           forward == Forward(Answer)
<1>1. /\ phase = "agent" /\ phase' \in {"session", "done"} /\ UNCHANGED <<owner, atStart>>
      /\ cursor' \in {cursor, page.next} /\ (cursor' # cursor => page.next # NoCursor)
  BY DEF ListAgentAndFollow, Answer, mailboxVars
<1>2. Start \notin atStart.settled /\ EXHAUSTED \notin atStart.settled
  BY ListingAssumption DEF WalkInv, Tasks
<1>3. /\ Answer["session"].next = own.next
      /\ Answer["agent"].next \in {Start} \cup Mailbox("agent")
  <2>1. Answer["session"] = own /\ Answer["agent"] = Respond("agent", cursor.tokens["agent"])
    BY DEF Answer, Owners
  <2>2. QED BY <2>1, TokenIsOfItsMailbox, TypeOfStamps DEF WalkInv
<1>4. \A o \in Owners : forward[o] = IF Answer[o].next = Start THEN EXHAUSTED ELSE Answer[o].next
  BY DEF Forward
<1>5. page.next = NoCursor \/ page.next.tokens = cursor.tokens \/ page.next.tokens = forward
  <2>1. PICK n, totals : page.next = NextCursor(cursor, n, totals, forward)
    BY DEF MergePages
  <2> HIDE DEF page, forward
  <2>2. QED BY <2>1 DEF NextCursor
<1> HIDE DEF page, forward
<1>6. cursor'.tokens = cursor.tokens \/ cursor'.tokens = forward
  BY <1>1, <1>5
<1>7. ASSUME NEW o \in Owners, forward[o] \in atStart.settled
      PROVE  owner[forward[o]] = o
  BY <1>1, <1>2, <1>3, <1>4, <1>7 DEF Owners, TokensHold, Mailbox
<1>8. (\A o \in Owners : cursor.tokens[o] \in atStart.settled => owner[cursor.tokens[o]] = o)'
  BY <1>1, <1>6, <1>7 DEF TokensHold
<1>9. QED
  BY <1>1, <1>8 DEF TokensHold, RefusedOnlyForUnsettled

\* What is refused is a token whose task is elsewhere: it had not settled.
LEMMA TokensFail ==
  ASSUME WalkInv, TokensHold, Fail
  PROVE  TokensHold'
<1>1. /\ phase \in Owners /\ ~Valid(phase) /\ phase' = "failed"
      /\ UNCHANGED <<owner, cursor, own, atStart>>
  BY DEF Fail, mailboxVars, readerVars
<1>2. cursor.tokens[phase] \in Tasks \cup {Start, EXHAUSTED}
  BY <1>1, CursorShape DEF WalkInv, ListingTypeOK
<1>3. cursor.tokens[phase] \in Tasks /\ owner[cursor.tokens[phase]] # phase
  BY <1>1, <1>2 DEF Valid
<1>4. cursor.tokens[phase] \notin atStart.settled
  BY <1>1, <1>3 DEF TokensHold
<1>5. RefusedOnlyForUnsettled'
  BY <1>1, <1>3, <1>4 DEF RefusedOnlyForUnsettled
<1>6. QED
  BY <1>1, <1>5 DEF TokensHold

\* What does not change keeps its tokens.
LEMMA TokensStutter ==
  ASSUME TokensHold, UNCHANGED vars
  PROVE  TokensHold'
BY DEF TokensHold, RefusedOnlyForUnsettled, vars

-----------------------------------------------------------------------------
(* The walk *)

\* A walk that has not begun has nothing to miss.
LEMMA InitInv == Init => WalkInv
<1> SUFFICES ASSUME Init PROVE WalkInv
  OBVIOUS
<1>1. PageSize \in Nat /\ PageSize >= 1 /\ MaxPages \in Nat /\ MaxPages >= 1 /\ MaxClock \in Nat /\ MaxChanges \in Nat
  BY ListingAssumption
<1>2. cursor \in Cursors
  <2>1. 0 \in 0..(2 * PageSize - 1) /\ -1 \in Nat \cup {-1}
    BY <1>1
  <2>2. QED BY <2>1 DEF Init, FirstCursor, NoTotals, Cursors
<1>3. ListingTypeOK
  <2>1. owner \in [Tasks -> Owners \cup Nowhere] /\ stamp \in [Tasks -> 0..MaxClock] /\ clock \in 0..MaxClock
    BY <1>1 DEF Init, Nowhere
  <2>2. got \in Seq(Tasks) /\ total \in Nat
    BY DEF Init
  <2>3. phase = "idle" /\ pages \in 0..MaxPages /\ pages < MaxPages /\ changes \in 0..MaxChanges
    BY <1>1 DEF Init
  <2>4. incomplete \in BOOLEAN
    BY DEF Init
  <2>5. QED BY <1>2, <2>1, <2>2, <2>3, <2>4 DEF ListingTypeOK
<1>4. atStart.settled = {} /\ phase = "idle" /\ cursor = FirstCursor
  BY DEF Init
<1>5. QED
  BY <1>3, <1>4 DEF WalkInv

\* A step that changes nothing keeps the invariant.
LEMMA StutterKeeps == WalkInv /\ UNCHANGED vars => WalkInv'
<1> SUFFICES ASSUME WalkInv, UNCHANGED vars PROVE WalkInv'
  OBVIOUS
<1>1. UNCHANGED <<owner, stamp, clock, phase, cursor, own, got, total, pages, seen,
                  incomplete, atStart, changes>>
  BY DEF vars
<1>2. \A t : Awaits(t)' = Awaits(t) /\ AwaitsAgent(t)' = AwaitsAgent(t)
  BY <1>1 DEF Awaits, AwaitsAgent, Place, Beside, NewerIn, Rank, Left, Ahead, Rest, Mailbox, NewestFirst, Newer, Since
<1>3. ListingTypeOK'
  BY <1>1 DEF WalkInv, ListingTypeOK, Cursors, Entries
<1>4. (\A t \in atStart.settled \ ToSet(got) :
         /\ phase = "session" => Awaits(t)
         /\ phase = "agent" => AwaitsAgent(t)
         /\ phase = "done" => incomplete)'
  <2>1. \A t \in atStart.settled \ ToSet(got) :
         /\ phase = "session" => Awaits(t)
         /\ phase = "agent" => AwaitsAgent(t)
         /\ phase = "done" => incomplete
    BY DEF WalkInv
  <2>2. QED BY <1>1, <1>2, <2>1
<1>5. (/\ phase = "idle" => cursor = FirstCursor /\ atStart.settled = {}
       /\ phase = "agent" => Descends(own.tasks)
       /\ \A t \in atStart.settled : t \in Tasks /\ owner[t] \in Owners /\ stamp[t] > 0)'
  BY <1>1 DEF WalkInv, Descends
<1>6. QED
  BY <1>3, <1>4, <1>5 DEF WalkInv

\* Every reachable state of a walk over changing mailboxes satisfies ListingInv, for every
\* number of tasks, page size and bound on pages (HubTaskStore.list and list_all_tasks).
THEOREM ListingInvariant == Spec => []ListingInv
<1>1. Init => ListingInv
  <2>1. Init => TokensHold
    BY DEF Init, TokensHold, RefusedOnlyForUnsettled
  <2>2. QED BY <2>1, InitInv, QuietInit DEF ListingInv
<1>2. ASSUME ListingInv, [Next]_vars
      PROVE  ListingInv'
  <2>1. WalkInv /\ QuietInv /\ TokensHold /\ ListingTypeOK
    BY <1>2 DEF ListingInv, WalkInv
  <2>2. CASE ChangeSteps
    BY <2>1, <2>2, ChangesKeep, QuietChange, TokensChange DEF ListingInv
  <2>3. CASE Begin
    BY <2>1, <2>3, BeginKeeps, QuietBegin, TokensBegin DEF ListingInv
  <2>4. CASE ListSession
    BY <2>1, <2>4, SessionKeeps, QuietSession, TokensSession DEF ListingInv
  <2>5. CASE ListAgentAndFollow
    BY <2>1, <2>5, AgentKeeps, QuietFollow, TokensFollow DEF ListingInv
  <2>6. CASE Fail
    BY <2>1, <2>6, FailKeeps, QuietFail, TokensFail DEF ListingInv
  <2>7. CASE UNCHANGED vars
    BY <2>1, <2>7, StutterKeeps, QuietStutter, TokensStutter DEF ListingInv
  <2>8. QED
    BY <1>2, <2>2, <2>3, <2>4, <2>5, <2>6, <2>7 DEF Next, ChangeSteps
<1>3. QED
  BY <1>1, <1>2, PTL DEF Spec

\* Page tokens, pages and counts have their types; the offset of a token stays below two pages.
THEOREM ListingTypeTheorem == Spec => []ListingTypeOK
<1>1. ListingInv => ListingTypeOK
  BY DEF ListingInv, WalkInv
<1>2. QED
  BY <1>1, ListingInvariant, PTL

\* A walk that reached the last token returned every message settled when it began, whatever
\* arrived, moved or settled between its requests.
THEOREM MissedTheorem == Spec => []NothingSettledIsMissed
<1>1. ListingInv => NothingSettledIsMissed
  BY DEF ListingInv, WalkInv, NothingSettledIsMissed, Finished
<1>2. QED
  BY <1>1, ListingInvariant, PTL

\* The request that ends a walk in an error is for a token whose task had not settled when the
\* walk began and has left its mailbox since: settled mail alone is never refused (the requests
\* of list_all_tasks).
THEOREM TokenTheorem == Spec => []RefusedOnlyForUnsettled
<1>1. ListingInv => RefusedOnlyForUnsettled
  BY DEF ListingInv, TokensHold
<1>2. QED
  BY <1>1, ListingInvariant, PTL

\* A walk during which no mailbox changes reaches its last token, having returned every message
\* once, as many as totalSize says, none newer than one of the first page after it.
THEOREM ExactTheorem == Spec => []QuietWalkIsExact
<1>1. ASSUME ListingInv, phase \in {"done", "failed"}, changes = 0, MaxPages > MaxTasks
      PROVE  /\ Complete /\ ToSet(got) = Stored /\ IsInjective(got)
             /\ \A i, j \in DOMAIN got : i <= PageSize /\ i < j => stamp[got[i]] >= stamp[got[j]]
  <2>1. QuietInv /\ got \in Seq(Tasks)
    BY <1>1 DEF ListingInv, WalkInv, ListingTypeOK
  <2>2. phase = "done" /\ IsInjective(got) /\ NewestCameFirst
    BY <1>1, <2>1 DEF QuietInv
  <2>3. ~incomplete /\ ToSet(got) = Stored /\ Len(got) = total
    BY <1>1, <2>1, <2>2 DEF QuietInv
  <2>4. DOMAIN got = 1..Len(got)
    BY <2>1
  <2>5. QED
    BY <2>2, <2>3, <2>4 DEF Complete, Finished, NewestCameFirst
<1>2. ListingInv => QuietWalkIsExact
  BY <1>1 DEF QuietWalkIsExact
<1>3. QED
  BY <1>2, ListingInvariant, PTL
=============================================================================
