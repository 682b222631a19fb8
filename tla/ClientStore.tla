----------------------------- MODULE ClientStore -----------------------------
(***************************************************************************)
(* The web client's store of the model module (a Vuex module; the stores   *)
(* of the other ledger modules are generated from the same template).  It  *)
(* keeps the last answer to each query and refreshes the answers that      *)
(* callers subscribed to on every new block.  A query is asynchronous: the *)
(* ledger, the subscriptions and other queries move on while it waits, and *)
(* a list is fetched page by page, each page from another ledger state.    *)
(***************************************************************************)
EXTENDS Integers, Sequences, SequencesExt, FiniteSets, KVStore

CONSTANTS
  Key,             \* the keys of the models, in the order of the node's store
  Initially,       \* the sets of keys the ledger may have at first
  PageSize,        \* entries the node puts on a page
  MaxChanges,      \* bound: changes of the ledger
  MaxQueries,      \* bound: queries started by callers
  MaxFailures,     \* bound: queries that fail on the network
  MaxInFlight      \* bound: queries waiting at once

VARIABLES
  ledger,          \* the models on the ledger: key -> revision
  shown,           \* state.Model and state.ModelAll: cache key -> entries
  subscriptions,   \* state._Subscriptions
  inFlight,        \* the running QueryModel and QueryModelAll, oldest first
  changes, queries, failures   \* how much of each bound is used

vars == <<ledger, shown, subscriptions, inFlight, changes, queries, failures>>

\* QueryModelAll asks for the list, QueryModel for one key.
List == 0
Query == [key : {List}, all : BOOLEAN] \cup [key : Key, all : {FALSE}]

ASSUME KeyAssumption == Key \subseteq Nat \ {List} /\ IsFiniteSet(Key)
ASSUME InitiallyAssumption == Initially \subseteq SUBSET Key
ASSUME PageAssumption == PageSize \in Nat \ {0}

\* An action starts with nothing fetched.  The last three fields are history:
\* whether a caller asked for the subscription, the keys that stayed on the
\* ledger while the list was fetched, and those that were ever on it then.
Start(query, subscribe, asked) ==
  [query |-> query, subscribe |-> subscribe, entries |-> <<>>, next |-> List,
   done |-> FALSE, asked |-> asked,
   stayed |-> DOMAIN ledger, seen |-> DOMAIN ledger]

Without(s, i) == SubSeq(s, 1, i - 1) \o SubSeq(s, i + 1, Len(s))

\* The keys of a list of entries.
Keys(entries) == {entries[i].key : i \in DOMAIN entries}

InKeyOrder(entries) ==
  \A m, n \in DOMAIN entries : m < n => entries[m].key < entries[n].key
-----------------------------------------------------------------------------
(* The node *)

\* query.Paginate: the entries from a key on and before another (List is the
\* end), in key order.
IsPart(entries, key, next) ==
  /\ Keys(entries) = {k \in DOMAIN ledger : k >= key /\ (next = List \/ k < next)}
  /\ \A i \in DOMAIN entries : entries[i].rev = ledger[entries[i].key]
  /\ InKeyOrder(entries)

\* Its answer: at most PageSize entries, and next_key, the first key left.
IsPage(page, key) ==
  /\ Len(page.entries) <= PageSize
  /\ IsPart(page.entries, key, page.next)
  /\ page.next # List => Len(page.entries) = PageSize

Pages(key) ==
  {page \in [entries : BoundedSeq([key : DOMAIN ledger, rev : Range(ledger)], PageSize),
             next : DOMAIN ledger \cup {List}] : IsPage(page, key)}

\* A model is created, updated or deleted.
Change(key) ==
  /\ changes < MaxChanges
  /\ changes' = changes + 1
  /\ \/ ledger' = Put(ledger, key, changes')
     \/ key \in DOMAIN ledger /\ ledger' = Delete(ledger, key)
  /\ inFlight' = [i \in DOMAIN inFlight |->
       IF inFlight[i].done THEN inFlight[i]
       ELSE [inFlight[i] EXCEPT !.stayed = @ \cap DOMAIN ledger',
                                !.seen = @ \cup DOMAIN ledger']]
  /\ UNCHANGED <<shown, subscriptions, queries, failures>>
-----------------------------------------------------------------------------
(* The queries *)

\* A caller dispatches a query.
Dispatch(query, subscribe) ==
  /\ queries < MaxQueries /\ Len(inFlight) < MaxInFlight
  /\ queries' = queries + 1
  /\ inFlight' = Append(inFlight, Start(query, subscribe, subscribe))
  /\ UNCHANGED <<ledger, shown, subscriptions, changes, failures>>

\* Mutated form: a later page replaces the earlier ones.
mergeResults_LastPage(value, next_values) == next_values

\* The arrays of the two answers are joined.
mergeResults(value, next_values) == value \o next_values

\* The node answers QueryModelAll with the page asked for; only a query with
\* the option all goes on to the next page.
FetchPage(i) ==
  LET q == inFlight[i]
  IN  /\ q.query.key = List /\ ~q.done
      /\ \E page \in Pages(q.next) :
           inFlight' = [inFlight EXCEPT
             ![i].entries = mergeResults(@, page.entries),
             ![i].next    = page.next,
             ![i].done    = ~q.query.all \/ page.next = List]
      /\ UNCHANGED <<ledger, shown, subscriptions, changes, queries, failures>>

\* The node answers QueryModel.  A missing model is an error answer, which
\* ends the query before it commits anything.
FetchOne(i) ==
  LET q == inFlight[i]
      k == q.query.key
  IN  /\ k # List /\ ~q.done
      /\ inFlight' =
           IF k \in DOMAIN ledger
           THEN [inFlight EXCEPT ![i].done = TRUE,
                   ![i].entries = <<[key |-> k, rev |-> ledger[k]]>>]
           ELSE Without(inFlight, i)
      /\ UNCHANGED <<ledger, shown, subscriptions, changes, queries, failures>>

\* Mutated form: an answer does not replace the one that is there.
QUERY_KeepsFirst(key, value) ==
  shown' = IF key \in DOMAIN shown THEN shown ELSE Put(shown, key, value)

\* The cache key is made of params and query: the option all is not in it.
QUERY(key, value) == shown' = Put(shown, key, value)

\* The last answer arrives: commit QUERY and, if asked to, SUBSCRIBE.
Commit(i) ==
  LET q == inFlight[i]
  IN  /\ q.done
      /\ QUERY(q.query.key, q.entries)
      /\ subscriptions' =
           IF q.subscribe THEN subscriptions \cup {q.query} ELSE subscriptions
      /\ inFlight' = Without(inFlight, i)
      /\ UNCHANGED <<ledger, changes, queries, failures>>

\* The call fails (API Node Unavailable): the action throws.
Fail(i) ==
  /\ failures < MaxFailures
  /\ failures' = failures + 1
  /\ inFlight' = Without(inFlight, i)
  /\ UNCHANGED <<ledger, shown, subscriptions, changes, queries>>
-----------------------------------------------------------------------------
(* The store *)

\* Mutated form: the refresh subscribes again.
Refresh_Subscribes(query) == Start(query, TRUE, FALSE)

\* The payload of a subscription has the option all and not subscribe.
Refresh(query) == Start(query, FALSE, FALSE)

\* The event newblock: every subscription is dispatched again.
StoreUpdate ==
  LET subs == SetToSeq(subscriptions)
  IN  /\ subs # <<>> /\ Len(inFlight) + Len(subs) <= MaxInFlight
      /\ inFlight' = inFlight \o [i \in DOMAIN subs |-> Refresh(subs[i])]
      /\ UNCHANGED <<ledger, shown, subscriptions, changes, queries, failures>>

unsubscribe(query) ==
  /\ query \in subscriptions
  /\ subscriptions' = subscriptions \ {query}
  /\ UNCHANGED <<ledger, shown, inFlight, changes, queries, failures>>

\* RESET_STATE leaves the queries that are waiting to commit later.
resetState ==
  /\ shown' = EmptyStore /\ subscriptions' = {}
  /\ UNCHANGED <<ledger, inFlight, changes, queries, failures>>
-----------------------------------------------------------------------------
Init ==
  /\ \E present \in Initially : ledger = [k \in present |-> 0]
  /\ shown = EmptyStore /\ subscriptions = {} /\ inFlight = <<>>
  /\ changes = 0 /\ queries = 0 /\ failures = 0

\* The progress of one query.
Answer(i) == i \in DOMAIN inFlight /\ (FetchPage(i) \/ FetchOne(i) \/ Commit(i))

Next ==
  \/ \E key \in Key : Change(key)
  \/ \E query \in Query, subscribe \in BOOLEAN : Dispatch(query, subscribe)
  \/ \E i \in DOMAIN inFlight : Answer(i) \/ Fail(i)
  \/ StoreUpdate
  \/ \E query \in subscriptions : unsubscribe(query)
  \/ resetState

\* The oldest query is not left waiting for ever, hence none is; and blocks
\* keep coming.
Spec == Init /\ [][Next]_vars /\ WF_vars(Answer(1)) /\ WF_vars(StoreUpdate)
-----------------------------------------------------------------------------
(* Properties *)

\* A list fetched with the option all, over however many pages and whatever
\* changed between them, has every model that stayed on the ledger meanwhile,
\* none that was never on it, and none twice (next_key and mergeResults).
ListsAreComplete ==
  \A i \in DOMAIN inFlight :
    LET q == inFlight[i]
    IN  q.done /\ q.query = [key |-> List, all |-> TRUE] =>
          /\ q.stayed \subseteq Keys(q.entries)
          /\ Keys(q.entries) \subseteq q.seen
          /\ InKeyOrder(q.entries)

\* A subscription comes only from a query whose caller asked for it: a refresh
\* that was waiting when its subscription was cancelled, or the store reset,
\* does not bring it back (StoreUpdate dispatches without subscribe).
RefreshesDoNotSubscribe ==
  [][\A query \in subscriptions' \ subscriptions :
       \E i \in DOMAIN inFlight : inFlight[i].query = query /\ inFlight[i].asked]_vars

\* What the store shows of a subscription is what the ledger has; a list
\* subscribed to with and without the option all has one cache key for both,
\* and a model that is gone leaves its last answer shown.
Current(query) ==
  IF query.key = List
  THEN \/ [query EXCEPT !.all = ~@] \in subscriptions
       \/ query.all /\ IsPart(shown[List], List, List)
       \/ ~query.all /\ \E page \in Pages(List) : shown[List] = page.entries
  ELSE query.key \in DOMAIN ledger =>
         shown[query.key] = <<[key |-> query.key, rev |-> ledger[query.key]]>>

\* Once the ledger and the callers rest, every subscription shows the ledger
\* and keeps doing so, although answers arrive in any order and a late one
\* overwrites a newer one (QUERY, StoreUpdate).
StoreConverges ==
  <>[](\A query \in subscriptions : query.key \in DOMAIN shown /\ Current(query))
=============================================================================
