-------------------------------- MODULE LRU --------------------------------
(***************************************************************************)
(* lruCache of internal/explorer/cache.go, as operators on its order list: *)
(* a sequence of entries [key, val], most recently used first.  Every      *)
(* method runs under the cache's mutex, so each is one step of its caller. *)
(***************************************************************************)
EXTENDS Integers, SequencesExt

Entry(key, val) == [key |-> key, val |-> val]

Has(cache, key) == \E i \in DOMAIN cache : cache[i].key = key

At(cache, key) == CHOOSE i \in DOMAIN cache : cache[i].key = key

\* What get returns for a key the cache has.
Value(cache, key) == cache[At(cache, key)].val

\* get: an entry that is found becomes the most recently used.
Touch(cache, key) ==
    IF Has(cache, key)
    THEN <<cache[At(cache, key)]>> \o RemoveAt(cache, At(cache, key))
    ELSE cache

\* put: an entry replaces its key's, or pushes out the one used longest ago.
Put(cache, cap, key, val) ==
    LET others == IF Has(cache, key) THEN RemoveAt(cache, At(cache, key))
                  ELSE cache
        all == <<Entry(key, val)>> \o others
    IN  IF Len(all) > cap THEN Front(all) ELSE all
=============================================================================
