-------------------------- MODULE ClientStoreProofs --------------------------
(***************************************************************************)
(* The web client's store, for any models, any size of the pages and any   *)
(* number of queries: a list fetched over several pages is complete, and   *)
(* only callers subscribe.                                                 *)
(***************************************************************************)
EXTENDS ClientStore, LedgerLemmas

\* An entry of an answer, and a query with what it has fetched.
Entry == [key : Key, rev : Nat]

Running ==
  [query : Query, subscribe : BOOLEAN, entries : Seq(Entry), next : Nat,
   done : BOOLEAN, asked : BOOLEAN, stayed : SUBSET Key, seen : SUBSET Key]

AllModels == [key |-> List, all |-> TRUE]

\* A list in the making has all that stayed on the ledger below the key of the
\* next page, and nothing else; when it is done, all that stayed.
Listing(q) ==
  /\ Keys(q.entries) \subseteq q.seen
  /\ InKeyOrder(q.entries)
  /\ \A k \in q.stayed : k \in Keys(q.entries) \/ (~q.done /\ k >= q.next)
  /\ ~q.done => \A k \in Keys(q.entries) : k < q.next

\* What holds of every query that runs while the models present are on the
\* ledger.
Fetched(q, present) ==
  /\ q.subscribe => q.asked
  /\ ~q.done => q.stayed \subseteq present /\ present \subseteq q.seen
  /\ q.query = AllModels => Listing(q)

AllFetched(list, present) ==
  /\ list \in Seq(Running)
  /\ \A i \in DOMAIN list : Fetched(list[i], present)

StoreInv ==
  /\ IsStore(ledger, Key, Nat) /\ changes \in Nat
  /\ subscriptions \subseteq Query /\ IsFiniteSet(subscriptions)
  /\ AllFetched(inFlight, DOMAIN ledger)

\* A query that starts has fetched nothing and knows all models there are.
LEMMA StartFetched ==
  ASSUME DOMAIN ledger \subseteq Key, NEW query \in Query,
         NEW subscribe \in BOOLEAN, NEW asked \in BOOLEAN, subscribe => asked
  PROVE  /\ Start(query, subscribe, asked) \in Running
         /\ Fetched(Start(query, subscribe, asked), DOMAIN ledger)
<1>1. PICK q : q = Start(query, subscribe, asked)
  BY Zenon
<1>2. /\ q.query = query /\ q.subscribe = subscribe /\ q.entries = <<>> /\ q.next = 0
      /\ q.done = FALSE /\ q.asked = asked
      /\ q.stayed = DOMAIN ledger /\ q.seen = DOMAIN ledger
  BY <1>1 DEF Start, List
<1>3. q \in Running
  <2>1. <<>> \in Seq(Entry)
    OBVIOUS
  <2>2. 0 \in Nat
    OBVIOUS
  <2>3. QED
    BY <1>1, <2>1, <2>2 DEF Start, List, Running
<1>4. Keys(q.entries) = {} /\ InKeyOrder(q.entries)
  BY <1>2 DEF Keys, InKeyOrder
<1>5. \A k \in q.stayed : k >= q.next
  BY <1>2, KeyAssumption DEF List
<1>6. Listing(q)
  BY <1>2, <1>4, <1>5, Zenon DEF Listing
<1>7. QED
  BY <1>1, <1>2, <1>3, <1>6, Zenon DEF Fetched

\* A change of the ledger under a query that is not done: what left did not
\* stay, what came was seen.
LEMMA ChangeFetched ==
  ASSUME NEW present, NEW after \in SUBSET Key, NEW q \in Running, Fetched(q, present),
         NEW r, r = IF q.done THEN q
                    ELSE [q EXCEPT !.stayed = @ \cap after, !.seen = @ \cup after]
  PROVE  r \in Running /\ Fetched(r, after)
<1>1. CASE q.done
  BY <1>1, Zenon DEF Fetched
<1>2. CASE ~q.done
  <2>1. /\ r \in Running
        /\ r.query = q.query /\ r.subscribe = q.subscribe /\ r.asked = q.asked
        /\ r.entries = q.entries /\ r.next = q.next /\ r.done = q.done
        /\ r.stayed = q.stayed \cap after /\ r.seen = q.seen \cup after
    BY <1>2, Zenon DEF Running
  <2>2. Listing(q) => Listing(r)
    BY <2>1, Zenon DEF Listing
  <2>3. r.stayed \subseteq after /\ after \subseteq r.seen
    BY <2>1, Zenon
  <2>4. QED
    BY <2>1, <2>2, <2>3, Zenon DEF Fetched
<1>3. QED
  BY <1>1, <1>2, Zenon

\* A list joined with one whose keys are higher (mergeResults).
LEMMA JoinedLists ==
  ASSUME NEW a \in Seq(Entry), NEW b \in Seq(Entry), NEW bound \in Nat,
         InKeyOrder(a), InKeyOrder(b),
         \A k \in Keys(a) : k < bound, \A k \in Keys(b) : k >= bound
  PROVE  InKeyOrder(a \o b) /\ Keys(a \o b) = Keys(a) \cup Keys(b)
<1>1. PICK c : c = a \o b
  BY Zenon
<1>2. /\ DOMAIN c = 1..(Len(a) + Len(b)) /\ Len(a) \in Nat /\ Len(b) \in Nat
      /\ DOMAIN a = 1..Len(a) /\ DOMAIN b = 1..Len(b)
      /\ \A i \in 1..Len(a) : c[i] = a[i]
      /\ \A i \in (Len(a) + 1)..(Len(a) + Len(b)) : c[i] = b[i - Len(a)]
  BY <1>1, ConcatPlaces
<1>3. \A k \in Key : k \in Nat
  BY KeyAssumption
<1>4. ASSUME NEW i \in DOMAIN c, i <= Len(a)
      PROVE  i \in DOMAIN a /\ c[i] = a[i]
  BY <1>2, <1>4
<1>5. ASSUME NEW i \in DOMAIN c, ~(i <= Len(a))
      PROVE  i - Len(a) \in DOMAIN b /\ c[i] = b[i - Len(a)]
  <2>1. i \in (Len(a) + 1)..(Len(a) + Len(b)) /\ i - Len(a) \in 1..Len(b)
    BY <1>2, <1>5
  <2>2. QED
    BY <1>2, <2>1, Zenon
<1>6. /\ \A i \in DOMAIN a : a[i].key \in Keys(a) /\ a[i].key \in Nat
      /\ \A i \in DOMAIN b : b[i].key \in Keys(b) /\ b[i].key \in Nat
  <2>1. (\A i \in DOMAIN a : a[i] \in Entry) /\ (\A i \in DOMAIN b : b[i] \in Entry)
    OBVIOUS
  <2>2. \A e \in Entry : e.key \in Key
    BY DEF Entry
  <2>3. QED
    BY <1>3, <2>1, <2>2, Zenon DEF Keys
<1>7. ASSUME NEW m \in DOMAIN c, NEW n \in DOMAIN c, m < n
      PROVE  c[m].key < c[n].key
  <2>1. m \in Nat /\ n \in Nat
    BY <1>2
  <2>2. CASE n <= Len(a)
    <3>1. m <= Len(a)
      BY <1>2, <1>7, <2>1, <2>2
    <3>2. m \in DOMAIN a /\ n \in DOMAIN a /\ c[m] = a[m] /\ c[n] = a[n]
      BY <1>4, <2>2, <3>1, Zenon
    <3>3. QED
      BY <1>7, <3>2, Zenon DEF InKeyOrder
  <2>3. CASE ~(m <= Len(a))
    <3>1. ~(n <= Len(a))
      BY <1>2, <1>7, <2>1, <2>3
    <3>2. /\ m - Len(a) \in DOMAIN b /\ c[m] = b[m - Len(a)]
          /\ n - Len(a) \in DOMAIN b /\ c[n] = b[n - Len(a)]
      BY <1>5, <2>3, <3>1, Zenon
    <3>3. m - Len(a) < n - Len(a)
      BY <1>2, <1>7, <2>1
    <3>4. QED
      BY <3>2, <3>3, Zenon DEF InKeyOrder
  <2>4. CASE m <= Len(a) /\ ~(n <= Len(a))
    <3>1. c[m].key \in Keys(a) /\ c[m].key \in Nat /\ c[n].key \in Keys(b) /\ c[n].key \in Nat
      BY <1>4, <1>5, <1>6, <2>4, Zenon
    <3>2. c[m].key < bound /\ c[n].key >= bound
      BY <3>1, Zenon
    <3>3. QED
      BY <3>1, <3>2
  <2>5. QED
    BY <2>2, <2>3, <2>4, Zenon
<1>8. Keys(c) \subseteq Keys(a) \cup Keys(b)
  BY <1>4, <1>5, Zenon DEF Keys
<1>9. ASSUME NEW i \in DOMAIN b
      PROVE  Len(a) + i \in DOMAIN c /\ c[Len(a) + i] = b[i]
  <2>1. /\ Len(a) + i \in 1..(Len(a) + Len(b)) /\ (Len(a) + i) - Len(a) = i
        /\ Len(a) + i \in (Len(a) + 1)..(Len(a) + Len(b))
    BY <1>2
  <2>2. c[Len(a) + i] = b[(Len(a) + i) - Len(a)]
    BY <1>2, <2>1, Zenon
  <2>3. QED
    BY <1>2, <2>1, <2>2, Zenon
<1>10. ASSUME NEW i \in DOMAIN a
       PROVE  i \in DOMAIN c /\ c[i] = a[i]
  <2>1. i \in 1..Len(a) /\ i \in 1..(Len(a) + Len(b))
    BY <1>2
  <2>2. QED
    BY <1>2, <2>1, Zenon
<1>11. Keys(a) \cup Keys(b) \subseteq Keys(c)
  <2>1. ASSUME NEW k \in Keys(a) PROVE k \in Keys(c)
    BY <1>10, <2>1, Zenon DEF Keys
  <2>2. ASSUME NEW k \in Keys(b) PROVE k \in Keys(c)
    <3>1. PICK i \in DOMAIN b : k = b[i].key
      BY <2>2, Zenon DEF Keys
    <3>2. PICK j : j \in DOMAIN c /\ c[j] = b[i]
      BY <1>9, Zenon
    <3>3. QED
      BY <3>1, <3>2, Zenon DEF Keys
  <2>3. QED
    BY <2>1, <2>2, Zenon
<1>12. QED
  BY <1>1, <1>7, <1>8, <1>11, Zenon DEF InKeyOrder

\* The parts of a page.
LEMMA PageParts ==
  ASSUME IsStore(ledger, Key, Nat), NEW key, NEW page \in Pages(key)
  PROVE  /\ page.entries \in Seq(Entry) /\ page.next \in Nat
         /\ IsPart(page.entries, key, page.next)
         /\ page.next # List => Keys(page.entries) # {}
<1>1. /\ page.entries \in BoundedSeq([key : DOMAIN ledger, rev : Range(ledger)], PageSize)
      /\ page.next \in DOMAIN ledger \cup {List}
      /\ IsPart(page.entries, key, page.next)
      /\ page.next # List => Len(page.entries) = PageSize
  BY DEF Pages, IsPage
<1>2. PICK m \in 0..PageSize :
        page.entries \in [1..m -> [key : DOMAIN ledger, rev : Range(ledger)]]
  BY <1>1 DEF BoundedSeq, SeqOf
<1>3. DOMAIN ledger \subseteq Key /\ Range(ledger) \subseteq Nat
  BY DEF IsStore, Range
<1>4. page.entries \in [1..m -> Entry]
  <2>1. [key : DOMAIN ledger, rev : Range(ledger)] \subseteq Entry
    BY <1>3 DEF Entry
  <2>2. QED
    BY <1>2, <2>1
<1>5. page.entries \in Seq(Entry)
  BY <1>4, PageAssumption
<1>6. page.next \in Nat
  <2>1. List \in Nat /\ DOMAIN ledger \subseteq Nat
    BY <1>3, KeyAssumption, Zenon DEF List
  <2>2. QED
    BY <1>1, <2>1, Zenon
<1>7. ASSUME page.next # List
      PROVE  Keys(page.entries) # {}
  <2>1. 1 \in DOMAIN page.entries
    BY <1>1, <1>5, <1>7, PageAssumption
  <2>2. QED
    BY <2>1, Zenon DEF Keys
<1>8. QED
  BY <1>1, <1>5, <1>6, <1>7, Zenon

\* A page is added to a list that is being fetched: nothing between the key it
\* was asked from and the key of the next one is left out, and nothing below
\* comes twice.
LEMMA PageFetched ==
  ASSUME IsStore(ledger, Key, Nat), NEW q \in Running, Fetched(q, DOMAIN ledger),
         q.query.key = List, ~q.done, NEW page \in Pages(q.next),
         NEW r, r = [q EXCEPT !.entries = mergeResults(@, page.entries),
                              !.next    = page.next,
                              !.done    = ~q.query.all \/ page.next = List]
  PROVE  r \in Running /\ Fetched(r, DOMAIN ledger)
<1>1. /\ page.entries \in Seq(Entry) /\ page.next \in Nat
      /\ IsPart(page.entries, q.next, page.next)
      /\ page.next # List => Keys(page.entries) # {}
  BY PageParts, Zenon
<1>2. q.entries \in Seq(Entry) /\ q.next \in Nat
  BY DEF Running
<1>3. q.entries \o page.entries \in Seq(Entry)
  BY <1>1, <1>2
<1>4. /\ r \in Running
      /\ r.query = q.query /\ r.subscribe = q.subscribe /\ r.asked = q.asked
      /\ r.entries = q.entries \o page.entries /\ r.next = page.next
      /\ r.done <=> ~q.query.all \/ page.next = List
      /\ r.stayed = q.stayed /\ r.seen = q.seen
  BY <1>1, <1>3, Zenon DEF Running, mergeResults
<1>5. ASSUME q.query = AllModels
      PROVE  Listing(r)
  <2>0. q.query.all = TRUE
    BY <1>5 DEF AllModels
  <2>1. Listing(q) /\ q.query.all = TRUE
    BY <1>5, <2>0, Zenon DEF Fetched
  <2>2. /\ InKeyOrder(q.entries) /\ InKeyOrder(page.entries)
        /\ \A k \in Keys(q.entries) : k < q.next
        /\ Keys(page.entries) = {k \in DOMAIN ledger : k >= q.next /\ (page.next = List \/ k < page.next)}
    BY <1>1, <2>1, Zenon DEF Listing, IsPart
  <2>3. \A k \in Keys(page.entries) : k >= q.next
    BY <2>2, Zenon
  <2>4. InKeyOrder(r.entries) /\ Keys(r.entries) = Keys(q.entries) \cup Keys(page.entries)
    BY <1>1, <1>2, <1>4, <2>2, <2>3, JoinedLists, Zenon
  <2>5. r.done <=> page.next = List
    BY <1>4, <2>1, Zenon
  <2>6. q.stayed \subseteq DOMAIN ledger /\ DOMAIN ledger \subseteq q.seen
    BY Zenon DEF Fetched
  <2>7. \A k \in DOMAIN ledger : k \in Nat
    BY KeyAssumption DEF IsStore
  <2>8. Keys(r.entries) \subseteq r.seen
    BY <1>4, <2>1, <2>2, <2>4, <2>6, Zenon DEF Listing
  <2>9. ASSUME NEW k \in r.stayed
        PROVE  k \in Keys(r.entries) \/ (~r.done /\ k >= r.next)
    <3>1. k \in Keys(q.entries) \/ k >= q.next
      BY <1>4, <2>1, Zenon DEF Listing
    <3>2. k \in DOMAIN ledger /\ k \in Nat
      BY <1>4, <2>6, <2>7, Zenon
    <3>3. k < page.next \/ k >= page.next
      BY <1>1, <3>2
    <3>4. QED
      BY <1>4, <2>2, <2>4, <2>5, <3>1, <3>2, <3>3, Zenon
  <2>10. ASSUME ~r.done, NEW k \in Keys(r.entries)
         PROVE  k < r.next
    <3>1. CASE k \in Keys(page.entries)
      BY <1>4, <2>2, <2>5, <2>10, <3>1, Zenon
    <3>2. CASE k \in Keys(q.entries)
      <4>1. PICK j \in Keys(page.entries) : TRUE
        BY <1>1, <2>5, <2>10, Zenon
      <4>2. j \in Nat /\ j >= q.next /\ j < page.next /\ k < q.next
        BY <2>2, <2>5, <2>7, <2>10, <3>2, Zenon
      <4>3. k \in Nat
        <5>1. r.seen \subseteq Key
          BY <1>4 DEF Running
        <5>2. QED
          BY <2>8, <2>10, <5>1, KeyAssumption, Zenon
      <4>4. QED
        BY <1>1, <1>2, <1>4, <4>2, <4>3
    <3>3. QED
      BY <2>4, <2>10, <3>1, <3>2, Zenon
  <2>11. QED
    BY <2>4, <2>8, <2>9, <2>10, Zenon DEF Listing
<1>6. QED
  BY <1>4, <1>5, Zenon DEF Fetched

\* The answer to QueryModel; a query for one key is not one for the list.
LEMMA OneFetched ==
  ASSUME IsStore(ledger, Key, Nat), NEW q \in Running, Fetched(q, DOMAIN ledger),
         q.query.key # List, q.query.key \in DOMAIN ledger,
         NEW r, r = [q EXCEPT !.done = TRUE,
                       !.entries = <<[key |-> q.query.key, rev |-> ledger[q.query.key]]>>]
  PROVE  r \in Running /\ Fetched(r, DOMAIN ledger)
<1>1. PICK e : e = [key |-> q.query.key, rev |-> ledger[q.query.key]]
  BY Zenon
<1>2. e \in Entry
  BY <1>1 DEF IsStore, Entry
<1>3. <<e>> \in Seq(Entry)
  BY <1>2
<1>4. /\ r \in Running /\ r.done = TRUE
      /\ r.query = q.query /\ r.subscribe = q.subscribe /\ r.asked = q.asked
  BY <1>1, <1>3, Zenon DEF Running
<1>5. r.query # AllModels
  BY <1>4 DEF AllModels
<1>6. QED
  BY <1>4, <1>5, Zenon DEF Fetched

\* One query changes in the list of those that run.
LEMMA OneChanges ==
  ASSUME NEW list, NEW present, AllFetched(list, present), NEW i \in DOMAIN list,
         NEW r \in Running, Fetched(r, present)
  PROVE  AllFetched([list EXCEPT ![i] = r], present)
<1>1. PICK after : after = [list EXCEPT ![i] = r]
  BY Zenon
<1>2. /\ after \in Seq(Running) /\ DOMAIN after = DOMAIN list
      /\ \A j \in DOMAIN list : after[j] = IF j = i THEN r ELSE list[j]
  BY <1>1 DEF AllFetched
<1>3. QED
  BY <1>1, <1>2, Zenon DEF AllFetched

\* A query ends: the others stay.
LEMMA OneEnds ==
  ASSUME NEW list, NEW present, AllFetched(list, present), NEW i \in DOMAIN list
  PROVE  AllFetched(Without(list, i), present)
<1>1. PICK after : after = Without(list, i)
  BY Zenon
<1>2. list \in Seq(Running) /\ i \in 1..Len(list) /\ Len(list) \in Nat /\ DOMAIN list = 1..Len(list)
  BY DEF AllFetched
<1>3. after \in Seq(Running) /\ CutFrom(after, list, i)
  BY <1>1, <1>2, CutPlaces, Zenon DEF Without
<1>4. ASSUME NEW j \in DOMAIN after
      PROVE  \E k \in DOMAIN list : after[j] = list[k]
  <2>1. Len(after) = Len(list) - 1 /\ after[j] = IF j < i THEN list[j] ELSE list[j + 1]
    BY <1>3, Zenon DEF CutFrom
  <2>2. j \in DOMAIN list /\ j + 1 \in DOMAIN list
    BY <1>2, <1>3, <2>1
  <2>3. QED
    BY <2>1, <2>2, Zenon
<1>5. QED
  BY <1>1, <1>3, <1>4, Zenon DEF AllFetched

\* Queries start behind the ones that run.
LEMMA MoreStart ==
  ASSUME NEW list, NEW more, NEW present, AllFetched(list, present), AllFetched(more, present)
  PROVE  AllFetched(list \o more, present)
<1>1. PICK after : after = list \o more
  BY Zenon
<1>2. list \in Seq(Running) /\ more \in Seq(Running)
  BY Zenon DEF AllFetched
<1>3. /\ after \in Seq(Running) /\ DOMAIN after = 1..(Len(list) + Len(more))
      /\ Len(list) \in Nat /\ Len(more) \in Nat
      /\ DOMAIN list = 1..Len(list) /\ DOMAIN more = 1..Len(more)
      /\ \A i \in 1..Len(list) : after[i] = list[i]
      /\ \A i \in (Len(list) + 1)..(Len(list) + Len(more)) : after[i] = more[i - Len(list)]
  BY <1>1, <1>2, ConcatPlaces
<1>4. ASSUME NEW i \in DOMAIN after
      PROVE  \/ i \in DOMAIN list /\ after[i] = list[i]
             \/ i - Len(list) \in DOMAIN more /\ after[i] = more[i - Len(list)]
  <2>1. \/ i \in 1..Len(list)
        \/ i \in (Len(list) + 1)..(Len(list) + Len(more)) /\ i - Len(list) \in 1..Len(more)
    BY <1>3
  <2>2. QED
    BY <1>3, <2>1, Zenon
<1>5. QED
  BY <1>1, <1>3, <1>4, Zenon DEF AllFetched

-----------------------------------------------------------------------------
(* The steps. *)

\* The models change while queries run.
LEMMA ChangeKeeps ==
  ASSUME StoreInv, NEW key \in Key, Change(key)
  PROVE  StoreInv'
<1>1. IsStore(ledger', Key, Nat) /\ changes' \in Nat
  <2>1. changes' \in Nat
    <3>1. changes \in Nat /\ changes' = changes + 1
      BY Zenon DEF StoreInv, Change
    <3>2. QED
      BY <3>1
  <2>2. CASE ledger' = Put(ledger, key, changes')
    BY <2>1, <2>2, PutIsStore, Zenon DEF StoreInv
  <2>3. CASE ledger' = Delete(ledger, key)
    BY <2>1, <2>3, DeleteIsStore, Zenon DEF StoreInv
  <2>4. QED
    BY <2>1, <2>2, <2>3, Zenon DEF Change
<1>2. DOMAIN ledger' \in SUBSET Key
  BY <1>1, Zenon DEF IsStore
<1>3. inFlight \in Seq(Running) /\ \A i \in DOMAIN inFlight : Fetched(inFlight[i], DOMAIN ledger)
  BY Zenon DEF StoreInv, AllFetched
<1>4. /\ DOMAIN inFlight' = DOMAIN inFlight
      /\ \A i \in DOMAIN inFlight : inFlight'[i] =
           IF inFlight[i].done THEN inFlight[i]
           ELSE [inFlight[i] EXCEPT !.stayed = @ \cap DOMAIN ledger',
                                    !.seen = @ \cup DOMAIN ledger']
  BY Zenon DEF Change
<1>5. ASSUME NEW i \in DOMAIN inFlight
      PROVE  inFlight'[i] \in Running /\ Fetched(inFlight'[i], DOMAIN ledger')
  <2>1. inFlight[i] \in Running
    BY <1>3
  <2>2. QED
    BY <1>2, <1>3, <1>4, <2>1, ChangeFetched, Zenon
<1>6. inFlight' \in Seq(Running)
  <2>1. inFlight' = [i \in DOMAIN inFlight |-> inFlight'[i]]
    BY Zenon DEF Change
  <2>2. QED
    BY <1>3, <1>5, <2>1
<1>7. AllFetched(inFlight', DOMAIN ledger')
  BY <1>4, <1>5, <1>6, Zenon DEF AllFetched
<1>8. QED
  BY <1>1, <1>7, Zenon DEF StoreInv, Change

\* A caller starts a query.
LEMMA DispatchKeeps ==
  ASSUME StoreInv, NEW query \in Query, NEW subscribe \in BOOLEAN, Dispatch(query, subscribe)
  PROVE  StoreInv'
<1>1. PICK q : q = Start(query, subscribe, subscribe)
  BY Zenon
<1>2. q \in Running /\ Fetched(q, DOMAIN ledger)
  BY <1>1, StartFetched, Zenon DEF StoreInv, IsStore
<1>3. inFlight \in Seq(Running)
  BY Zenon DEF StoreInv, AllFetched
<1>4. inFlight' = inFlight \o <<q>>
  BY <1>1, <1>2, <1>3 DEF Dispatch
<1>5. AllFetched(<<q>>, DOMAIN ledger)
  BY <1>2 DEF AllFetched
<1>6. AllFetched(inFlight', DOMAIN ledger)
  BY <1>4, <1>5, MoreStart, Zenon DEF StoreInv
<1>7. QED
  BY <1>6, Zenon DEF StoreInv, Dispatch

\* The order in which the subscriptions are dispatched again has each of them.
LEMMA OrderOfSubscriptions ==
  ASSUME IsFiniteSet(subscriptions)
  PROVE  SetToSeq(subscriptions) \in Seq(subscriptions)
<1>1. PICK n : n = Cardinality(subscriptions)
  BY Zenon
<1>2. n \in Nat /\ ExistsBijection(1..n, subscriptions)
  BY <1>1, FS_CardinalityType, Zenon
<1>3. \E f \in [1..n -> subscriptions] : IsInjective(f)
  BY <1>2 DEF ExistsBijection, Bijection, Injection, IsInjective
<1>4. SetToSeq(subscriptions) \in [1..n -> subscriptions]
  BY <1>1, <1>3, Zenon DEF SetToSeq
<1>5. QED
  BY <1>2, <1>4

\* A new block dispatches the subscriptions again, none of them to subscribe.
LEMMA UpdateKeeps ==
  ASSUME StoreInv, StoreUpdate
  PROVE  StoreInv'
<1>1. PICK subs : subs = SetToSeq(subscriptions)
  BY Zenon
<1>2. subs \in Seq(subscriptions) /\ subscriptions \subseteq Query
  BY <1>1, OrderOfSubscriptions, Zenon DEF StoreInv
<1>3. PICK more : more = [i \in DOMAIN subs |-> Refresh(subs[i])]
  BY Zenon
<1>4. ASSUME NEW i \in DOMAIN subs
      PROVE  Refresh(subs[i]) \in Running /\ Fetched(Refresh(subs[i]), DOMAIN ledger)
  <2>1. subs[i] \in Query
    BY <1>2
  <2>2. QED
    BY <2>1, StartFetched, Zenon DEF StoreInv, IsStore, Refresh
<1>5. more \in Seq(Running) /\ DOMAIN more = DOMAIN subs
  <2>1. \A i \in DOMAIN subs : Refresh(subs[i]) \in Running
    BY <1>4, Zenon
  <2>2. DOMAIN subs = 1..Len(subs) /\ Len(subs) \in Nat
    BY <1>2
  <2>3. more \in [1..Len(subs) -> Running]
    BY <1>3, <2>1, <2>2, Zenon
  <2>4. QED
    BY <1>3, <2>2, <2>3
<1>6. AllFetched(more, DOMAIN ledger)
  BY <1>3, <1>4, <1>5, Zenon DEF AllFetched
<1>7. AllFetched(inFlight', DOMAIN ledger)
  <2>1. inFlight' = inFlight \o more
    BY <1>1, <1>3, Zenon DEF StoreUpdate
  <2>2. QED
    BY <1>6, <2>1, MoreStart, Zenon DEF StoreInv
<1>8. QED
  BY <1>7, Zenon DEF StoreInv, StoreUpdate

\* The node answers, the call fails, or the answer is committed.
LEMMA AnswerKeeps ==
  ASSUME StoreInv, NEW i \in DOMAIN inFlight, Answer(i) \/ Fail(i)
  PROVE  StoreInv'
<1>1. /\ IsStore(ledger, Key, Nat) /\ AllFetched(inFlight, DOMAIN ledger)
      /\ inFlight[i] \in Running /\ Fetched(inFlight[i], DOMAIN ledger)
  <2>1. IsStore(ledger, Key, Nat) /\ AllFetched(inFlight, DOMAIN ledger)
    BY Zenon DEF StoreInv
  <2>2. inFlight \in Seq(Running) /\ Fetched(inFlight[i], DOMAIN ledger)
    BY <2>1, Zenon DEF AllFetched
  <2>3. inFlight[i] \in Running
    BY <2>2
  <2>4. QED
    BY <2>1, <2>2, <2>3, Zenon
<1>2. AllFetched(Without(inFlight, i), DOMAIN ledger)
  BY <1>1, OneEnds, Zenon
<1>3. ASSUME AllFetched(inFlight', DOMAIN ledger), UNCHANGED <<ledger, subscriptions, changes>>
      PROVE  StoreInv'
  BY <1>3, Zenon DEF StoreInv
<1>4. CASE FetchPage(i)
  <2>1. /\ inFlight[i].query.key = List /\ ~inFlight[i].done
        /\ UNCHANGED <<ledger, subscriptions, changes>>
    BY <1>4, Zenon DEF FetchPage
  <2>2. PICK page \in Pages(inFlight[i].next) :
          inFlight' = [inFlight EXCEPT
            ![i].entries = mergeResults(@, page.entries),
            ![i].next    = page.next,
            ![i].done    = ~inFlight[i].query.all \/ page.next = List]
    BY <1>4, Zenon DEF FetchPage
  <2>3. PICK r : r = [inFlight[i] EXCEPT
                        !.entries = mergeResults(@, page.entries),
                        !.next    = page.next,
                        !.done    = ~inFlight[i].query.all \/ page.next = List]
    BY Zenon
  <2>4. r \in Running /\ Fetched(r, DOMAIN ledger)
    BY <1>1, <2>1, <2>3, PageFetched, Zenon
  <2>5. inFlight' = [inFlight EXCEPT ![i] = r]
    BY <2>2, <2>3, Zenon
  <2>6. AllFetched(inFlight', DOMAIN ledger)
    BY <1>1, <2>4, <2>5, OneChanges, Zenon
  <2>7. QED
    BY <1>3, <2>1, <2>6, Zenon
<1>5. CASE FetchOne(i)
  <2>1. inFlight[i].query.key # List /\ UNCHANGED <<ledger, subscriptions, changes>>
    BY <1>5, Zenon DEF FetchOne
  <2>2. CASE inFlight[i].query.key \in DOMAIN ledger
    <3>1. PICK e : e = <<[key |-> inFlight[i].query.key, rev |-> ledger[inFlight[i].query.key]]>>
      BY Zenon
    <3>2. PICK r : r = [inFlight[i] EXCEPT !.done = TRUE, !.entries = e]
      BY Zenon
    <3>3. r \in Running /\ Fetched(r, DOMAIN ledger)
      BY <1>1, <2>1, <2>2, <3>1, <3>2, OneFetched, Zenon
    <3>4. inFlight' = [inFlight EXCEPT ![i].done = TRUE, ![i].entries = e]
      BY <1>5, <2>2, <3>1, Zenon DEF FetchOne
    <3>5. inFlight' = [inFlight EXCEPT ![i] = r]
      BY <3>2, <3>4, Zenon
    <3>6. AllFetched(inFlight', DOMAIN ledger)
      BY <1>1, <3>3, <3>5, OneChanges, Zenon
    <3>7. QED
      BY <1>3, <2>1, <3>6, Zenon
  <2>3. CASE inFlight[i].query.key \notin DOMAIN ledger
    <3>1. inFlight' = Without(inFlight, i)
      BY <1>5, <2>3, Zenon DEF FetchOne
    <3>2. QED
      BY <1>2, <1>3, <2>1, <3>1, Zenon
  <2>4. QED
    BY <2>2, <2>3, Zenon
<1>6. CASE Commit(i)
  <2>1. inFlight' = Without(inFlight, i) /\ UNCHANGED <<ledger, changes>>
    BY <1>6, Zenon DEF Commit
  <2>2. inFlight[i].query \in Query
    BY <1>1 DEF Running
  <2>3. subscriptions' = subscriptions \cup {inFlight[i].query} \/ subscriptions' = subscriptions
    BY <1>6, Zenon DEF Commit
  <2>4. subscriptions' \subseteq Query /\ IsFiniteSet(subscriptions')
    <3>1. IsFiniteSet(subscriptions) /\ subscriptions \subseteq Query
      BY Zenon DEF StoreInv
    <3>2. IsFiniteSet(subscriptions \cup {inFlight[i].query})
      BY <3>1, FS_AddElement, Zenon
    <3>3. QED
      BY <2>2, <2>3, <3>1, <3>2, Zenon
  <2>5. QED
    BY <1>1, <1>2, <2>1, <2>4, Zenon DEF StoreInv
<1>7. CASE Fail(i)
  <2>1. inFlight' = Without(inFlight, i) /\ UNCHANGED <<ledger, subscriptions, changes>>
    BY <1>7, Zenon DEF Fail
  <2>2. QED
    BY <1>2, <1>3, <2>1, Zenon
<1>8. QED
  BY <1>4, <1>5, <1>6, <1>7, Zenon DEF Answer

\* The invariant is kept by every step of the store and of the ledger.
LEMMA StoreStep == StoreInv /\ [Next]_vars => StoreInv'
<1> SUFFICES ASSUME StoreInv, [Next]_vars
             PROVE  StoreInv'
  OBVIOUS
<1>1. ASSUME NEW query \in subscriptions, unsubscribe(query)
      PROVE  StoreInv'
  <2>1. /\ subscriptions' = subscriptions \ {query}
        /\ UNCHANGED <<ledger, inFlight, changes>>
    BY <1>1, Zenon DEF unsubscribe
  <2>2. IsFiniteSet(subscriptions \ {query}) /\ subscriptions \ {query} \subseteq Query
    BY FS_RemoveElement, Zenon DEF StoreInv
  <2>3. QED
    BY <2>1, <2>2, Zenon DEF StoreInv
<1>2. CASE resetState
  <2>1. subscriptions' = {} /\ UNCHANGED <<ledger, inFlight, changes>>
    BY <1>2, Zenon DEF resetState
  <2>2. QED
    BY <2>1, FS_EmptySet, Zenon DEF StoreInv
<1>3. CASE UNCHANGED vars
  BY <1>3, Zenon DEF StoreInv, vars
<1>4. QED
  BY <1>1, <1>2, <1>3, ChangeKeeps, DispatchKeeps, AnswerKeeps, UpdateKeeps, Zenon DEF Next

\* It holds at first, and always.
LEMMA StoreInvariant == Spec => []StoreInv
<1>1. Init => StoreInv
  <2> SUFFICES ASSUME Init PROVE StoreInv
    OBVIOUS
  <2>1. PICK present \in Initially : ledger = [k \in present |-> 0]
    BY Zenon DEF Init
  <2>2. present \subseteq Key
    BY InitiallyAssumption, Zenon
  <2>3. IsStore(ledger, Key, Nat)
    BY <2>1, <2>2 DEF IsStore
  <2>4. inFlight = <<>> /\ subscriptions = {} /\ changes = 0
    BY Zenon DEF Init
  <2>5. AllFetched(inFlight, DOMAIN ledger) /\ changes \in Nat
    BY <2>4 DEF AllFetched
  <2>6. QED
    BY <2>3, <2>4, <2>5, FS_EmptySet, Zenon DEF StoreInv
<1>2. QED
  BY <1>1, StoreStep, PTL DEF Spec

\* A list fetched with the option all has every model that stayed on the
\* ledger meanwhile, none that was never on it and none twice, for every size
\* of the pages and whatever changes between them (QueryModelAll, mergeResults).
THEOREM ListsCorrect == Spec => []ListsAreComplete
<1>1. StoreInv => ListsAreComplete
  <2> SUFFICES ASSUME StoreInv, NEW i \in DOMAIN inFlight,
                      inFlight[i].done, inFlight[i].query = AllModels
               PROVE  /\ inFlight[i].stayed \subseteq Keys(inFlight[i].entries)
                      /\ Keys(inFlight[i].entries) \subseteq inFlight[i].seen
                      /\ InKeyOrder(inFlight[i].entries)
    BY Zenon DEF ListsAreComplete, AllModels
  <2>1. Listing(inFlight[i])
    BY Zenon DEF StoreInv, AllFetched, Fetched
  <2>2. QED
    BY <2>1, Zenon DEF Listing
<1>2. QED
  BY <1>1, StoreInvariant, PTL

\* What a step may do to the subscriptions.
SubscribeStep ==
  \A query \in subscriptions' \ subscriptions :
    \E i \in DOMAIN inFlight : inFlight[i].query = query /\ inFlight[i].asked

\* A subscription is added only by the query of a caller that asked for it,
\* although refreshes run while subscriptions are cancelled and the store is
\* reset (StoreUpdate, SUBSCRIBE).
THEOREM RefreshCorrect == Spec => RefreshesDoNotSubscribe
<1>1. StoreInv /\ [Next]_vars => SubscribeStep
  <2> SUFFICES ASSUME StoreInv, [Next]_vars,
                      NEW query \in subscriptions', query \notin subscriptions
               PROVE  \E i \in DOMAIN inFlight : inFlight[i].query = query /\ inFlight[i].asked
    BY Zenon DEF SubscribeStep
  <2>1. PICK i \in DOMAIN inFlight : Commit(i)
    BY Zenon DEF Next, Change, Dispatch, Answer, FetchPage, FetchOne, Fail, StoreUpdate,
                 unsubscribe, resetState, vars
  <2>2. inFlight[i].subscribe /\ query = inFlight[i].query
    BY <2>1, Zenon DEF Commit
  <2>3. inFlight[i].asked
    BY <2>2, Zenon DEF StoreInv, AllFetched, Fetched
  <2>4. QED
    BY <2>2, <2>3, Zenon
<1>2. QED
  BY <1>1, StoreInvariant, PTL DEF Spec, RefreshesDoNotSubscribe, SubscribeStep
=============================================================================
