------------------------------- MODULE KVStore -------------------------------
(***************************************************************************)
(* The key-value stores in which every module of the ledger keeps its      *)
(* state (prefix.NewStore(ctx.KVStore(storeKey), prefix)).  A store is a   *)
(* function whose domain is the set of keys that are present, so Get is    *)
(* application and IsPresent is membership in the domain.                  *)
(***************************************************************************)

\* f is a store with keys in K and values in V.
IsStore(f, K, V) == DOMAIN f \subseteq K /\ f \in [DOMAIN f -> V]

\* A store with nothing in it.
EmptyStore == [k \in {} |-> k]

\* store.Set: adds the key, or overwrites the value it has.
Put(f, k, v) == [x \in DOMAIN f \cup {k} |-> IF x = k THEN v ELSE f[x]]

\* store.Delete: removes the key; does nothing when the key is absent.
Delete(f, k) == [x \in DOMAIN f \ {k} |-> f[x]]
=============================================================================
