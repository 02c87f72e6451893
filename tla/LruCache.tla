------------------------------ MODULE LruCache ------------------------------
(***************************************************************************)
(* cache.c: the entries of a uthash table in insertion order, the order in *)
(* which HASH_ITER visits them, as a sequence of [key, data] records, the  *)
(* least recently used entry first.                                        *)
(***************************************************************************)
EXTENDS Naturals, Sequences

Keys(c) == {c[i].key : i \in DOMAIN c}

Data(c) == {c[i].data : i \in DOMAIN c}

\* HASH_FIND: the position of an entry with the key, 0 if there is none.
Find(c, k) ==
  IF k \in Keys(c) THEN CHOOSE i \in DOMAIN c : c[i].key = k ELSE 0

\* HASH_DELETE of the entry at position i.
Delete(c, i) == [j \in 1..(Len(c) - 1) |-> IF j < i THEN c[j] ELSE c[j + 1]]

cache_lookup_fifo(c, k) == c

\* cache_lookup and cache_key_exist: a hit becomes the newest entry.
cache_lookup(c, k) ==
  LET i == Find(c, k) IN IF i = 0 THEN c ELSE Append(Delete(c, i), c[i])

\* cache_remove.
cache_remove(c, k) ==
  LET i == Find(c, k) IN IF i = 0 THEN c ELSE Delete(c, i)

\* cache_insert adds without a look for the key, and only then compares the
\* count with max_entries.
cache_added(c, k, d) == Append(c, [key |-> k, data |-> d])

cache_full(c, max) == Len(c) >= max

cache_insert(c, k, d, max) ==
  IF cache_full(cache_added(c, k, d), max)
    THEN Tail(cache_added(c, k, d))
    ELSE cache_added(c, k, d)

\* What an operation that turned c into e has given to free_cb.
FreedBy(c, e) == Data(c) \ Data(e)
=============================================================================
