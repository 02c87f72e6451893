--------------------------- MODULE UdpRelayProof ---------------------------
(***************************************************************************)
(* Proofs about UdpRelay for every number of clients, hosts, sockets and   *)
(* queries and every capacity of the cache.  The cache operations are      *)
(* first described by what they do to the set of entries, Range(cache);    *)
(* the steps are then reasoned about on that set.                          *)
(***************************************************************************)
EXTENDS UdpRelay, SequenceTheorems, FiniteSetTheorems, TLAPS

Distinct(c) == \A i, j \in DOMAIN c : c[i].key = c[j].key => i = j

(* The sockets of a set of entries. *)
Sockets(T) == {t.data : t \in T}

-----------------------------------------------------------------------------
(* cache.c *)

LEMMA DataIsSockets ==
    ASSUME NEW c PROVE Data(c) = Sockets(Range(c))
  BY DEF Data, Sockets, Range

LEMMA KeysOfEntries ==
    ASSUME NEW c
    PROVE  Keys(c) = {t.key : t \in Range(c)}
  BY DEF Keys, Range

(* HASH_FIND finds an entry with the key if there is one. *)
LEMMA FindPosition ==
    ASSUME NEW S, NEW c \in Seq(S), NEW k
    PROVE  /\ k \in Keys(c) => Find(c, k) \in 1..Len(c) /\ c[Find(c, k)].key = k
           /\ k \notin Keys(c) => Find(c, k) = 0
<1>1. DOMAIN c = 1..Len(c)
  BY LenProperties
<1>2. ASSUME k \in Keys(c) PROVE \E i \in DOMAIN c : c[i].key = k
  BY <1>2 DEF Keys
<1> QED
  BY <1>1, <1>2 DEF Find

(* HASH_DELETE closes the gap. *)
LEMMA DeleteProperties ==
    ASSUME NEW S, NEW c \in Seq(S), NEW i \in 1..Len(c)
    PROVE  /\ Delete(c, i) \in Seq(S)
           /\ Len(Delete(c, i)) = Len(c) - 1
           /\ \A j \in 1..(Len(c) - 1) : Delete(c, i)[j] = IF j < i THEN c[j] ELSE c[j + 1]
<1> DEFINE n == Len(c) - 1
           e == Delete(c, i)
<1>1. Len(c) \in Nat /\ n \in Nat
  BY LenProperties
<1>2. \A j \in 1..n : j \in 1..Len(c) /\ j + 1 \in 1..Len(c)
  BY <1>1
<1>3. \A j \in 1..n : c[j] \in S /\ c[j + 1] \in S
  BY <1>2, ElementOfSeq
<1>4. e \in [1..n -> S]
  BY <1>3 DEF Delete
<1>5. e \in Seq(S)
  BY <1>1, <1>4, SeqDef
<1>6. Len(e) = n
  BY <1>1, <1>4, <1>5, LenProperties
<1> QED
  BY <1>5, <1>6 DEF Delete

(* Where the entries come from when the gap at i is closed, and when the   *)
(* entry at i moves to the end of n.                                       *)
Closed(i, j) == IF j < i THEN j ELSE j + 1
Moved(n, i, j) == IF j = n THEN i ELSE Closed(i, j)

LEMMA ClosedOnto ==
    ASSUME NEW n \in Nat, NEW i \in 1..n
    PROVE  /\ \A j \in 1..(n - 1) : Closed(i, j) \in 1..n /\ Closed(i, j) # i
           /\ \A j, l \in 1..(n - 1) : Closed(i, j) = Closed(i, l) => j = l
           /\ \A j \in 1..n : j # i => \E l \in 1..(n - 1) : Closed(i, l) = j
<1>1. \A j \in 1..(n - 1) : Closed(i, j) \in 1..n /\ Closed(i, j) # i
  BY DEF Closed
<1>2. \A j, l \in 1..(n - 1) : Closed(i, j) = Closed(i, l) => j = l
  BY DEF Closed
<1>3. ASSUME NEW j \in 1..n, j # i PROVE \E l \in 1..(n - 1) : Closed(i, l) = j
  <2>1. CASE j < i
    <3>1. j \in 1..(n - 1) /\ Closed(i, j) = j
      BY <2>1 DEF Closed
    <3> QED
      BY <3>1
  <2>2. CASE j > i
    <3>1. j - 1 \in 1..(n - 1) /\ Closed(i, j - 1) = j
      BY <2>2 DEF Closed
    <3> QED
      BY <3>1
  <2> QED
    BY <1>3, <2>1, <2>2
<1> QED
  BY <1>1, <1>2, <1>3

LEMMA MovedOnto ==
    ASSUME NEW n \in Nat, NEW i \in 1..n
    PROVE  /\ \A j \in 1..n : Moved(n, i, j) \in 1..n
           /\ \A j, l \in 1..n : Moved(n, i, j) = Moved(n, i, l) => j = l
           /\ \A j \in 1..n : \E l \in 1..n : Moved(n, i, l) = j
<1>1. \A j \in 1..n : j = n \/ j \in 1..(n - 1)
  OBVIOUS
<1>2. \A j \in 1..(n - 1) : j \in 1..n /\ j # n
  OBVIOUS
<1>3. Moved(n, i, n) = i /\ n \in 1..n
  BY DEF Moved
<1>4. \A j \in 1..(n - 1) : Moved(n, i, j) = Closed(i, j)
  BY <1>2 DEF Moved
<1>c. \A j \in 1..(n - 1) : Closed(i, j) \in 1..n /\ Closed(i, j) # i
  BY ClosedOnto
<1>5. ASSUME NEW j \in 1..n PROVE Moved(n, i, j) \in 1..n
  <2>1. CASE j = n
    BY <1>3, <2>1
  <2>2. CASE j \in 1..(n - 1)
    BY <1>4, <1>c, <2>2
  <2> QED
    BY <1>1, <2>1, <2>2
<1>6. ASSUME NEW j \in 1..n, NEW l \in 1..n, Moved(n, i, j) = Moved(n, i, l)
      PROVE  j = l
  <2>1. CASE j = n
    <3>1. CASE l \in 1..(n - 1)
      <4>1. Moved(n, i, j) = i /\ Moved(n, i, l) # i
        BY <1>3, <1>4, <1>c, <2>1, <3>1, Zenon
      <4> QED
        BY <1>6, <4>1, Zenon
    <3> QED
      BY <1>1, <2>1, <3>1, Zenon
  <2>2. CASE j \in 1..(n - 1)
    <3>1. CASE l = n
      <4>1. Moved(n, i, l) = i /\ Moved(n, i, j) # i
        BY <1>3, <1>4, <1>c, <2>2, <3>1, Zenon
      <4> QED
        BY <1>6, <4>1, Zenon
    <3>2. CASE l \in 1..(n - 1)
      BY <1>4, <1>6, <2>2, <3>2, ClosedOnto
    <3> QED
      BY <1>1, <3>1, <3>2
  <2> QED
    BY <1>1, <2>1, <2>2
<1>7. ASSUME NEW j \in 1..n PROVE \E l \in 1..n : Moved(n, i, l) = j
  <2>1. CASE j = i
    BY <1>3, <2>1
  <2>2. CASE j # i
    <3>1. PICK l \in 1..(n - 1) : Closed(i, l) = j
      BY <2>2, ClosedOnto
    <3> QED
      BY <1>2, <1>4, <3>1
  <2> QED
    BY <2>1, <2>2
<1> QED
  BY <1>5, <1>6, <1>7

(* The two ways an entry leaves its place, for any position. *)
LEMMA DeleteEntry ==
    ASSUME NEW S, NEW c \in Seq(S), NEW i \in 1..Len(c), Distinct(c)
    PROVE  Range(Delete(c, i)) = Range(c) \ {c[i]} /\ Distinct(Delete(c, i))
<1> DEFINE n == Len(c)
           e == Delete(c, i)
<1>1. n \in Nat /\ DOMAIN c = 1..n
  BY LenProperties
<1>2. DOMAIN e = 1..(n - 1)
  BY DeleteProperties, LenProperties
<1>3. \A j \in 1..(n - 1) : e[j] = c[Closed(i, j)]
  BY DeleteProperties DEF Closed
<1> HIDE DEF e, n
<1>4. i \in 1..n
  BY DEF n
<1>5. \A j \in 1..n : j # i => c[j] # c[i]
  BY <1>1, <1>4 DEF Distinct
<1>6. Range(e) \subseteq Range(c) \ {c[i]}
  <2> SUFFICES ASSUME NEW j \in 1..(n - 1) PROVE e[j] \in Range(c) \ {c[i]}
    BY <1>2 DEF Range
  <2>1. Closed(i, j) \in 1..n /\ Closed(i, j) # i
    BY <1>1, <1>4, ClosedOnto
  <2> QED
    BY <1>1, <1>3, <1>5, <2>1 DEF Range
<1>7. Range(c) \ {c[i]} \subseteq Range(e)
  <2> SUFFICES ASSUME NEW j \in 1..n, c[j] # c[i] PROVE c[j] \in Range(e)
    BY <1>1 DEF Range
  <2>1. PICK l \in 1..(n - 1) : Closed(i, l) = j
    BY <1>1, <1>4, ClosedOnto
  <2> QED
    BY <1>2, <1>3, <2>1 DEF Range
<1>8. Distinct(e)
  <2> SUFFICES ASSUME NEW j \in 1..(n - 1), NEW l \in 1..(n - 1), e[j].key = e[l].key
               PROVE  j = l
    BY <1>2 DEF Distinct
  <2>1. Closed(i, j) \in 1..n /\ Closed(i, l) \in 1..n
    BY <1>1, <1>4, ClosedOnto
  <2>2. c[Closed(i, j)].key = c[Closed(i, l)].key
    BY <1>3
  <2>3. Closed(i, j) = Closed(i, l)
    BY <1>1, <2>1, <2>2 DEF Distinct
  <2> QED
    BY <1>1, <1>4, <2>3, ClosedOnto
<1> QED
  BY <1>6, <1>7, <1>8 DEF e

LEMMA MoveEntry ==
    ASSUME NEW S, NEW c \in Seq(S), NEW i \in 1..Len(c)
    PROVE  LET e == Append(Delete(c, i), c[i]) IN
           /\ e \in Seq(S) /\ Len(e) = Len(c) /\ Range(e) = Range(c)
           /\ Distinct(c) => Distinct(e)
<1> DEFINE n == Len(c)
           e == Append(Delete(c, i), c[i])
<1>1. n \in Nat /\ DOMAIN c = 1..n
  BY LenProperties
<1>2. c[i] \in S
  BY ElementOfSeq
<1>3. e \in Seq(S) /\ Len(e) = Len(Delete(c, i)) + 1
  BY <1>2, DeleteProperties, AppendProperties
<1>4. Len(e) = n
  <2>1. Len(Delete(c, i)) = n - 1
    BY DeleteProperties
  <2>2. n - 1 + 1 = n
    BY <1>1
  <2> QED
    BY <1>3, <2>1, <2>2
<1>5. DOMAIN e = 1..n
  BY <1>3, <1>4, LenProperties
<1>6. \A j \in 1..(n - 1) : e[j] = c[Closed(i, j)]
  <2>1. Len(Delete(c, i)) = n - 1
    BY DeleteProperties
  <2>2. \A j \in 1..(n - 1) : e[j] = Delete(c, i)[j]
    BY <1>2, <2>1, DeleteProperties, AppendProperties
  <2> QED
    BY <2>2, DeleteProperties DEF Closed
<1>7. e[n] = c[i]
  <2>1. Len(Delete(c, i)) + 1 = n
    BY <1>3, <1>4
  <2> QED
    BY <1>2, <2>1, DeleteProperties, AppendProperties
<1>8. i \in 1..n
  OBVIOUS
<1> HIDE DEF e, n
<1>9. \A j \in 1..n : e[j] = c[Moved(n, i, j)]
  <2> TAKE j \in 1..n
  <2>1. j = n \/ j \in 1..(n - 1)
    BY <1>1
  <2>2. j \in 1..(n - 1) => j # n
    BY <1>1
  <2> QED
    BY <1>6, <1>7, <2>1, <2>2 DEF Moved
<1>10. Range(e) = Range(c)
  <2>1. Range(e) \subseteq Range(c)
    BY <1>1, <1>5, <1>8, <1>9, MovedOnto DEF Range
  <2>2. ASSUME NEW j \in 1..n PROVE c[j] \in Range(e)
    <3>1. PICK l \in 1..n : Moved(n, i, l) = j
      BY <1>1, <1>8, MovedOnto
    <3> QED
      BY <1>5, <1>9, <3>1 DEF Range
  <2> QED
    BY <1>1, <2>1, <2>2 DEF Range
<1>11. ASSUME Distinct(c) PROVE Distinct(e)
  <2> SUFFICES ASSUME NEW j \in 1..n, NEW l \in 1..n, e[j].key = e[l].key
               PROVE  j = l
    BY <1>5 DEF Distinct
  <2>1. Moved(n, i, j) = Moved(n, i, l)
    BY <1>1, <1>8, <1>9, <1>11, MovedOnto, ZenonT(60) DEF Distinct
  <2> QED
    BY <1>1, <1>8, <2>1, MovedOnto
<1> QED
  BY <1>3, <1>4, <1>10, <1>11 DEF e, n

(* cache_lookup moves an entry and keeps the set of them. *)
LEMMA LookupProperties ==
    ASSUME NEW S, NEW c \in Seq(S), NEW k
    PROVE  /\ cache_lookup(c, k) \in Seq(S)
           /\ Len(cache_lookup(c, k)) = Len(c)
           /\ Range(cache_lookup(c, k)) = Range(c)
           /\ Distinct(c) => Distinct(cache_lookup(c, k))
<1>1. CASE k \notin Keys(c)
  <2>1. cache_lookup(c, k) = c
    BY <1>1, FindPosition DEF cache_lookup
  <2> QED
    BY <2>1
<1>2. CASE k \in Keys(c)
  <2>1. PICK i \in 1..Len(c) : i = Find(c, k)
    BY <1>2, FindPosition
  <2>2. i # 0
    OBVIOUS
  <2>3. cache_lookup(c, k) = Append(Delete(c, i), c[i])
    BY <2>1, <2>2 DEF cache_lookup
  <2> QED
    BY <2>3, MoveEntry
<1> QED
  BY <1>1, <1>2

(* cache_remove takes out the entry with the key. *)
LEMMA RemoveProperties ==
    ASSUME NEW S, NEW c \in Seq(S), NEW k, Distinct(c), k \in Keys(c)
    PROVE  \E x \in Range(c) :
             /\ x.key = k
             /\ cache_remove(c, k) \in Seq(S)
             /\ Len(cache_remove(c, k)) = Len(c) - 1
             /\ Range(cache_remove(c, k)) = Range(c) \ {x}
             /\ Distinct(cache_remove(c, k))
<1>1. PICK i \in 1..Len(c) : i = Find(c, k) /\ c[i].key = k
  BY FindPosition
<1>2. i # 0
  OBVIOUS
<1>3. cache_remove(c, k) = Delete(c, i)
  BY <1>1, <1>2 DEF cache_remove
<1>4. c[i] \in Range(c)
  BY LenProperties DEF Range
<1>5. /\ Delete(c, i) \in Seq(S) /\ Len(Delete(c, i)) = Len(c) - 1
      /\ Range(Delete(c, i)) = Range(c) \ {c[i]} /\ Distinct(Delete(c, i))
  BY DeleteProperties, DeleteEntry
<1> QED
  BY <1>1, <1>3, <1>4, <1>5

(* cache_insert of a new key adds the entry, at the cost of the oldest one *)
(* when the table has reached its capacity, and never of the new one.      *)
LEMMA InsertProperties ==
    ASSUME NEW S, NEW c \in Seq(S), NEW k, NEW d, NEW max \in Nat, max >= 2,
           [key |-> k, data |-> d] \in S,
           Distinct(c), k \notin Keys(c), Len(c) < max
    PROVE  LET x == [key |-> k, data |-> d]
               e == cache_insert(c, k, d, max)
           IN  /\ e \in Seq(S) /\ Len(e) < max /\ Distinct(e)
               /\ x \in Range(e) /\ Range(e) \subseteq Range(c) \cup {x}
<1> DEFINE x == [key |-> k, data |-> d]
           a == cache_added(c, k, d)
           e == cache_insert(c, k, d, max)
<1>1. /\ a \in Seq(S) /\ a # <<>> /\ Len(a) = Len(c) + 1
      /\ \A i \in 1..Len(c) : a[i] = c[i]
      /\ a[Len(c) + 1] = x
  BY AppendProperties DEF cache_added
<1>2. Len(c) \in Nat /\ DOMAIN c = 1..Len(c) /\ DOMAIN a = 1..(Len(c) + 1)
  BY <1>1, LenProperties
<1>3. \A i \in 1..Len(c) : c[i].key # k
  BY <1>2 DEF Keys
<1>4. Distinct(a)
  <2> SUFFICES ASSUME NEW i \in 1..(Len(c) + 1), NEW j \in 1..(Len(c) + 1),
                      a[i].key = a[j].key
               PROVE  i = j
    BY <1>2 DEF Distinct
  <2>1. x.key = k
    OBVIOUS
  <2>2. i \in 1..Len(c) \/ i = Len(c) + 1
    BY <1>2
  <2>3. j \in 1..Len(c) \/ j = Len(c) + 1
    BY <1>2
  <2> QED
    BY <1>1, <1>2, <1>3, <2>1, <2>2, <2>3 DEF Distinct
<1>5. Range(a) = Range(c) \cup {x}
  <2>1. ASSUME NEW y \in Range(a) PROVE y \in Range(c) \cup {x}
    <3>1. PICK i \in 1..(Len(c) + 1) : y = a[i]
      BY <1>2 DEF Range
    <3>2. i \in 1..Len(c) \/ i = Len(c) + 1
      BY <1>2
    <3> QED
      BY <1>1, <1>2, <3>1, <3>2 DEF Range
  <2>2. ASSUME NEW y \in Range(c) \cup {x} PROVE y \in Range(a)
    <3>1. CASE y = x
      BY <1>1, <1>2, <3>1 DEF Range
    <3>2. CASE y \in Range(c)
      <4>1. PICK i \in 1..Len(c) : y = c[i]
        BY <1>2, <3>2 DEF Range
      <4> QED
        BY <1>1, <1>2, <4>1 DEF Range
    <3> QED
      BY <2>2, <3>1, <3>2
  <2> QED
    BY <2>1, <2>2
<1>6. CASE ~cache_full(a, max)
  <2>1. e = a /\ Len(e) < max
    BY <1>1, <1>2, <1>6 DEF cache_insert, cache_full
  <2> QED
    BY <1>1, <1>4, <1>5, <2>1
<1>7. CASE cache_full(a, max)
  <2>1. e = Tail(a) /\ Len(a) = max
    BY <1>1, <1>2, <1>7 DEF cache_insert, cache_full
  <2>2. /\ e \in Seq(S) /\ Len(e) = Len(c)
        /\ \A i \in 1..Len(c) : e[i] = a[i + 1]
    BY <1>1, <1>2, <2>1, HeadTailProperties
  <2>3. DOMAIN e = 1..Len(c)
    BY <2>2, LenProperties
  <2>4. Distinct(e)
    <3> SUFFICES ASSUME NEW i \in 1..Len(c), NEW j \in 1..Len(c), e[i].key = e[j].key
                 PROVE  i = j
      BY <2>3 DEF Distinct
    <3>1. i + 1 \in DOMAIN a /\ j + 1 \in DOMAIN a /\ a[i + 1].key = a[j + 1].key
      BY <1>2, <2>2
    <3>2. i + 1 = j + 1
      BY <1>4, <3>1 DEF Distinct
    <3> QED
      BY <3>2
  <2>5. x \in Range(e)
    <3>1. Len(c) \in 1..Len(c)
      BY <1>1, <1>2, <2>1
    <3> QED
      BY <1>1, <2>2, <2>3, <3>1 DEF Range
  <2>6. Range(e) \subseteq Range(a)
    <3> SUFFICES ASSUME NEW i \in 1..Len(c) PROVE e[i] \in Range(a)
      BY <2>3 DEF Range
    <3>1. i + 1 \in DOMAIN a
      BY <1>2
    <3> QED
      BY <2>2, <3>1 DEF Range
  <2> QED
    BY <1>2, <1>5, <2>1, <2>2, <2>4, <2>5, <2>6
<1> QED
  BY <1>6, <1>7

-----------------------------------------------------------------------------
(* The inductive invariant. *)

Fams == Families \cup {Unspec}
Entry == [key : Fams \X Srcs, data : Remotes]
Ctx == [af : Fams, src : Srcs \cup {None}, header : Headers \cup {None},
        dst : Addresses \cup {None}, fam : Families \cup {None}]
Query == [src : Srcs \cup {None}, header : Headers \cup {None}, remote : Remotes \cup {None}]

InUse(x) ==
    /\ x.af \in Fams /\ x.src \in Srcs /\ x.header \in Headers
    /\ x.dst \in Addresses /\ x.fam \in Families

(* Sockets and cache entries. *)
SocketInv ==
    /\ cache \in Seq(Entry) /\ Len(cache) < Max
    /\ live \in SUBSET Remotes /\ watched \in SUBSET Remotes
    /\ ctx \in [Remotes -> Ctx]
    /\ \A r \in live : InUse(ctx[r])
    /\ OneSocketPerClient /\ SocketsFiled

(* Queries are made for names only. *)
QueryInv ==
    /\ up \in BOOLEAN
    /\ pending \in SUBSET Queries
    /\ qctx \in [Queries -> Query]
    /\ \A q \in pending :
          /\ qctx[q].src \in Srcs /\ qctx[q].header \in Headers
          /\ qctx[q].header.kind = "name"
          /\ qctx[q].remote \in Remotes \cup {None}

(* A query points to its client's socket for names, whose address may be   *)
(* replaced; the address of the others is that of their header.            *)
OwnInv ==
    Patient =>
        /\ \A q \in pending : qctx[q].remote # None =>
              /\ qctx[q].remote \in live
              /\ ctx[qctx[q].remote].src = qctx[q].src
              /\ ctx[qctx[q].remote].af = Unspec
        /\ \A r \in live : ctx[r].af \in Families => ctx[r].dst = Parsed(ctx[r].header)

IInv == SocketInv /\ QueryInv /\ OwnInv /\ AddressesRespected

-----------------------------------------------------------------------------
(* The sockets by the set of entries. *)

LEMMA FiledEntries ==
    ASSUME SocketInv
    PROVE  /\ Range(cache) \subseteq Entry
           /\ live = Sockets(Range(cache)) /\ watched = live
           /\ \A t \in Range(cache) : t.data \in live /\ t.key = TimeoutKey(t.data)
           /\ \A t, u \in Range(cache) : t.key = u.key => t = u
           /\ Distinct(cache)
<1>1. \A i \in DOMAIN cache : cache[i] \in Entry
  BY LenProperties, ElementOfSeq DEF SocketInv
<1>2. live = Sockets(Range(cache)) /\ watched = live
  BY DataIsSockets DEF SocketInv, SocketsFiled
<1>3. Distinct(cache)
  BY DEF SocketInv, OneSocketPerClient, Distinct
<1>4. \A t \in Range(cache) : t.data \in live
  BY <1>2 DEF Sockets
<1>5. \A t \in Range(cache) : t.key = TimeoutKey(t.data)
  BY DEF SocketInv, SocketsFiled, Range
<1>6. \A t, u \in Range(cache) : t.key = u.key => t = u
  BY <1>3 DEF Range, Distinct
<1> QED
  BY <1>1, <1>2, <1>3, <1>4, <1>5, <1>6 DEF Range

(* A hit is the client's own socket for that family. *)
LEMMA HitIsOwn ==
    ASSUME SocketInv, NEW af, NEW src, Hit(af, src) # None
    PROVE  Hit(af, src) \in live /\ ctx[Hit(af, src)].af = af /\ ctx[Hit(af, src)].src = src
<1>1. hash_key(af, src) \in Keys(cache)
  BY FindPosition DEF Hit, SocketInv
<1>2. PICK i \in 1..Len(cache) :
          i = Find(cache, hash_key(af, src)) /\ cache[i].key = hash_key(af, src)
  BY <1>1, FindPosition DEF SocketInv
<1>3. Hit(af, src) = cache[i].data
  BY <1>2 DEF Hit
<1>4. cache[i] \in Range(cache)
  BY LenProperties DEF SocketInv, Range
<1>5. cache[i].data \in live /\ hash_key(af, src) = TimeoutKey(cache[i].data)
  BY <1>2, <1>4, FiledEntries
<1> QED
  BY <1>3, <1>5 DEF TimeoutKey, hash_key

(* After a miss the key is not in the cache. *)
LEMMA MissIsNew ==
    ASSUME SocketInv, NEW af, NEW src, Hit(af, src) = None
    PROVE  hash_key(af, src) \notin Keys(cache)
<1> SUFFICES ASSUME hash_key(af, src) \in Keys(cache) PROVE FALSE
  OBVIOUS
<1>1. PICK i \in 1..Len(cache) :
          i = Find(cache, hash_key(af, src)) /\ cache[i].key = hash_key(af, src)
  BY FindPosition DEF SocketInv
<1>2. cache[i] \in Range(cache)
  BY LenProperties DEF SocketInv, Range
<1>3. cache[i].data \in live /\ hash_key(af, src) = TimeoutKey(cache[i].data)
  BY <1>1, <1>2, FiledEntries
<1>4. ctx[cache[i].data].src = src
  BY <1>3 DEF TimeoutKey, hash_key
<1>5. cache[i].data = None /\ None \in Remotes
  BY <1>1, <1>3, <1>4 DEF Hit, SocketInv
<1> QED
  BY <1>5, NoneAssumption

(* What is left to show when the entries have changed. *)
LEMMA Refiled ==
    ASSUME cache' \in Seq(Entry), Len(cache') < Max, Distinct(cache'),
           live' = Sockets(Range(cache')), watched' = live', live' \in SUBSET Remotes,
           ctx' \in [Remotes -> Ctx], \A r \in live' : InUse(ctx'[r]),
           \A t \in Range(cache') : t.key = TimeoutKey(t.data)'
    PROVE  SocketInv'
<1>1. OneSocketPerClient'
  BY DEF OneSocketPerClient, Distinct
<1>2. Data(cache)' = Sockets(Range(cache'))
  BY DataIsSockets DEF Data, Sockets, Range
<1>3. \A i \in DOMAIN cache' :
          cache'[i].key = hash_key(ctx'[cache'[i].data].af, ctx'[cache'[i].data].src)
  BY DEF Range, TimeoutKey
<1>4. SocketsFiled'
  BY <1>2, <1>3 DEF SocketsFiled, TimeoutKey
<1> QED
  BY <1>1, <1>4 DEF SocketInv

(* cache_lookup and a change of the address leave the sockets in order. *)
LEMMA LookupKeeps ==
    ASSUME SocketInv, NEW k, cache' = cache \/ cache' = cache_lookup(cache, k),
           live' = live, watched' = watched, ctx' \in [Remotes -> Ctx],
           \A r \in live : InUse(ctx'[r]) /\ ctx'[r].af = ctx[r].af /\ ctx'[r].src = ctx[r].src
    PROVE  SocketInv'
<1>1. /\ cache' \in Seq(Entry) /\ Len(cache') < Max /\ Distinct(cache')
      /\ Range(cache') = Range(cache)
  <2>1. cache \in Seq(Entry) /\ Len(cache) < Max /\ Distinct(cache)
    BY FiledEntries DEF SocketInv
  <2> QED
    BY <2>1, LookupProperties
<1>2. live' = Sockets(Range(cache')) /\ watched' = live' /\ live' \in SUBSET Remotes
  BY <1>1, FiledEntries DEF SocketInv
<1>3. \A t \in Range(cache') : t.key = TimeoutKey(t.data)'
  BY <1>1, FiledEntries DEF TimeoutKey, hash_key
<1> QED
  BY <1>1, <1>2, <1>3, Refiled

(* Sockets that are freed together with their entries. *)
LEMMA FreeKeeps ==
    ASSUME SocketInv, NEW T \in SUBSET Range(cache),
           cache' \in Seq(Entry), Len(cache') < Max, Distinct(cache'), Range(cache') = T,
           NEW freed, freed = Sockets(Range(cache)) \ Sockets(T),
           live' = live \ freed, watched' = watched \ freed, ctx' = Cleared(freed)
    PROVE  SocketInv' /\ \A r \in live' : ctx'[r] = ctx[r]
<1>1. live' = Sockets(T) /\ live' \subseteq live /\ live' \cap freed = {}
  BY FiledEntries DEF Sockets
<1>2. \A r \in live' : ctx'[r] = ctx[r]
  BY <1>1 DEF Cleared, SocketInv
<1>3. NoCtx \in Ctx
  BY DEF NoCtx, Ctx, Fams
<1>4. ctx' \in [Remotes -> Ctx]
  BY <1>3 DEF Cleared, SocketInv
<1>5. \A r \in live' : InUse(ctx'[r])
  BY <1>1, <1>2 DEF SocketInv
<1>6. \A t \in T : t.key = TimeoutKey(t.data)'
  <2> TAKE t \in T
  <2>1. t.data \in live' /\ t.key = TimeoutKey(t.data)
    BY <1>1, FiledEntries DEF Sockets
  <2> QED
    BY <1>2, <2>1 DEF TimeoutKey, hash_key
<1> QED
  BY <1>1, <1>2, <1>4, <1>5, <1>6, FiledEntries, Refiled DEF SocketInv

(* A new socket: those it does not displace stay as they are, and if it    *)
(* displaces one, no query points to that one.                             *)
NewCtx(af, src, h, to) == [af |-> af, src |-> src, header |-> h, dst |-> to, fam |-> to.fam]

LEMMA OpenKeeps ==
    ASSUME SocketInv, NEW c \in Seq(Entry), Range(c) = Range(cache), Len(c) = Len(cache),
           Distinct(c), NEW af \in Fams, NEW src \in Srcs, NEW h \in Headers,
           NEW to \in Addresses, hash_key(af, src) \notin Keys(cache),
           OpenRemote(c, af, src, h, to)
    PROVE  /\ SocketInv'
           /\ Patient => \A r \in live \cap Held : r \in live' /\ ctx'[r] = ctx[r]
           /\ \A r \in live' : \/ ctx'[r] = NewCtx(af, src, h, to)
                               \/ r \in live /\ ctx'[r] = ctx[r]
           /\ last' = Sent(src, h, src, to)
<1> DEFINE k == hash_key(af, src)
<1>1. PICK r \in Remotes \ live :
        LET e == cache_insert(c, k, r, Max)
            freed == FreedBy(c, e)
        IN  /\ Spared(freed)
            /\ ctx' = [Cleared(freed) EXCEPT ![r] = NewCtx(af, src, h, to)]
            /\ cache' = e
            /\ live' = (live \ freed) \cup {r}
            /\ watched' = (watched \ freed) \cup {r}
            /\ last' = Sent(src, h, src, to)
  BY DEF OpenRemote, NewCtx
<1> DEFINE e == cache_insert(c, k, r, Max)
           x == [key |-> k, data |-> r]
           freed == Sockets(Range(cache)) \ Sockets(Range(e))
<1>2. FreedBy(c, e) = freed
  BY DataIsSockets DEF FreedBy
<1>3. x \in Entry
  BY DEF Entry, hash_key
<1>4. k \notin Keys(c)
  BY KeysOfEntries
<1>5. /\ e \in Seq(Entry) /\ Len(e) < Max /\ Distinct(e)
      /\ x \in Range(e) /\ Range(e) \subseteq Range(cache) \cup {x}
  <2>1. Max \in Nat /\ Max >= 2 /\ Len(c) < Max
    BY MaxAssumption DEF SocketInv
  <2> QED
    BY <1>3, <1>4, <2>1, InsertProperties
<1> HIDE DEF e
<1>6. live' = (live \ freed) \cup {r} /\ watched' = live' /\ cache' = e
  BY <1>1, <1>2, FiledEntries DEF e
<1>7. live' = Sockets(Range(e))
  <2>1. x.data = r
    OBVIOUS
  <2>2. live = Sockets(Range(cache))
    BY FiledEntries
  <2>3. Sockets(Range(e)) \subseteq live \cup {r} /\ r \in Sockets(Range(e))
    BY <1>5, <2>1, <2>2 DEF Sockets
  <2> QED
    BY <1>6, <2>2, <2>3
<1>8. NewCtx(af, src, h, to) \in Ctx /\ InUse(NewCtx(af, src, h, to)) /\ NoCtx \in Ctx
  BY DEF NewCtx, NoCtx, Ctx, InUse, Addresses, Fams
<1>9. ctx' \in [Remotes -> Ctx] /\ ctx'[r] = NewCtx(af, src, h, to)
  <2>1. Cleared(freed) \in [Remotes -> Ctx]
    BY <1>8 DEF Cleared, SocketInv
  <2> QED
    BY <1>1, <1>2, <1>8, <2>1 DEF e
<1>10. \A s \in live \ freed : s # r /\ ctx'[s] = ctx[s]
  BY <1>1, <1>2 DEF Cleared, SocketInv, e
<1>11. \A s \in live' : \/ ctx'[s] = NewCtx(af, src, h, to)
                        \/ s \in live /\ ctx'[s] = ctx[s]
  BY <1>6, <1>9, <1>10
<1>12. \A s \in live' : InUse(ctx'[s])
  BY <1>8, <1>11 DEF SocketInv
<1>13. \A t \in Range(e) : t.key = TimeoutKey(t.data)'
  <2> TAKE t \in Range(e)
  <2>1. CASE t = x
    BY <1>9, <2>1 DEF TimeoutKey, NewCtx
  <2>2. CASE t \in Range(cache)
    <3>1. t.data \in live \ freed
      BY <2>2, FiledEntries DEF Sockets
    <3> QED
      BY <1>10, <2>2, <3>1, FiledEntries DEF TimeoutKey
  <2> QED
    BY <1>5, <2>1, <2>2
<1>14. SocketInv'
  <2>1. live' \in SUBSET Remotes
    BY <1>6 DEF SocketInv
  <2> QED
    BY <1>5, <1>6, <1>7, <1>9, <1>12, <1>13, <2>1, Refiled
<1>15. Patient => \A s \in live \cap Held : s \in live' /\ ctx'[s] = ctx[s]
  <2>1. Spared(freed)
    BY <1>1, <1>2 DEF e
  <2>2. Patient => freed \cap Held = {}
    BY <2>1 DEF Spared
  <2> HIDE DEF freed
  <2> QED
    BY <1>6, <1>10, <2>2
<1> QED
  BY <1>1, <1>11, <1>14, <1>15

-----------------------------------------------------------------------------
(* The queries. *)

(* No query is started, and the sockets they point to stay. *)
LEMMA OwnKept ==
    ASSUME SocketInv, QueryInv, OwnInv, pending' \in SUBSET pending,
           \A q \in pending' : qctx'[q] = qctx[q],
           Patient => \A r \in live \cap Held :
                         r \in live' /\ ctx'[r].src = ctx[r].src /\ ctx'[r].af = ctx[r].af,
           Patient => \A r \in live' : ctx'[r].af \in Families =>
                         ctx'[r].dst = Parsed(ctx'[r].header)
    PROVE  OwnInv'
<1> SUFFICES ASSUME Patient, NEW q \in pending', qctx'[q].remote # None
             PROVE  /\ qctx'[q].remote \in live'
                    /\ ctx'[qctx'[q].remote].src = qctx'[q].src
                    /\ ctx'[qctx'[q].remote].af = Unspec
  BY DEF OwnInv, Parsed
<1>1. q \in pending /\ qctx[q].remote # None /\ qctx'[q] = qctx[q]
  OBVIOUS
<1>2. qctx[q].remote \in live \cap Held
  BY <1>1 DEF OwnInv, Held
<1> QED
  BY <1>1, <1>2 DEF OwnInv

LEMMA EndQueryKeeps ==
    ASSUME QueryInv, NEW q \in Queries, EndQuery(q), up' = up
    PROVE  /\ QueryInv' /\ pending' \in SUBSET pending
           /\ \A p \in pending' : qctx'[p] = qctx[p]
<1>1. NoQuery \in Query
  BY DEF NoQuery, Query
<1>2. pending' = pending \ {q} /\ qctx' = [qctx EXCEPT ![q] = NoQuery]
  BY DEF EndQuery
<1>3. \A p \in pending' : p \in pending /\ qctx'[p] = qctx[p]
  BY <1>2 DEF QueryInv
<1> QED
  BY <1>1, <1>2, <1>3 DEF QueryInv

LEMMA StartQueryKeeps ==
    ASSUME QueryInv, NEW src \in Srcs, NEW h \in Headers, h.kind = "name",
           NEW r \in Remotes \cup {None}, StartQuery(src, h, r), up' = up
    PROVE  /\ QueryInv'
           /\ \A q \in pending' :
                 \/ q \in pending /\ qctx'[q] = qctx[q]
                 \/ qctx'[q] = [src |-> src, header |-> h, remote |-> r]
<1> DEFINE new == [src |-> src, header |-> h, remote |-> r]
<1>1. PICK q \in Queries \ pending :
          pending' = pending \cup {q} /\ qctx' = [qctx EXCEPT ![q] = new]
  BY DEF StartQuery
<1>2. new \in Query
  BY DEF Query
<1>3. qctx'[q] = new /\ \A p \in pending : qctx'[p] = qctx[p]
  BY <1>1 DEF QueryInv
<1>4. \A p \in pending' : (p \in pending /\ qctx'[p] = qctx[p]) \/ qctx'[p] = new
  BY <1>1, <1>3
<1>5. \A p \in pending' :
          /\ qctx'[p].src \in Srcs /\ qctx'[p].header \in Headers
          /\ qctx'[p].header.kind = "name"
          /\ qctx'[p].remote \in Remotes \cup {None}
  BY <1>4 DEF QueryInv
<1> QED
  BY <1>1, <1>2, <1>4, <1>5 DEF QueryInv

-----------------------------------------------------------------------------
(* The steps. *)

LEMMA ParsedAddress ==
    ASSUME NEW h \in Headers
    PROVE  /\ Parsed(h).fam \in Fams
           /\ Parsed(h).fam = Unspec <=> h.kind = "name"
           /\ Parsed(h).fam # Unspec => Parsed(h) \in Addresses
           /\ h.kind \in Families => Parsed(h) = [fam |-> h.kind, host |-> h.host]
<1>1. h.kind \in {"v4", "v6", "name", "lit6"} /\ h.host \in Hosts
  BY DEF Headers
<1>2. CASE h.kind \in Families
  BY <1>1, <1>2 DEF Parsed, Families, Fams, Unspec, Addresses
<1>3. CASE h.kind = "lit6"
  BY <1>3 DEF Parsed, Families, Fams, Unspec, Addresses
<1>4. CASE h.kind = "name"
  BY <1>4 DEF Parsed, Families, Fams, Unspec
<1> QED
  BY <1>1, <1>2, <1>3, <1>4 DEF Families

(* A packet that is not sent. *)
LEMMA Dropped == last' = Nothing => AddressesRespected'
  BY DEF Nothing, AddressesRespected

LEMMA InitInv == Init => IInv
<1> SUFFICES ASSUME Init PROVE IInv
  OBVIOUS
<1>1. cache = <<>> /\ live = {} /\ watched = {} /\ pending = {} /\ last = Nothing
  BY DEF Init
<1>2. cache \in Seq(Entry) /\ Len(cache) = 0
  BY <1>1, EmptySeq
<1>3. DOMAIN cache = {}
  BY <1>2, LenProperties
<1>4. OneSocketPerClient /\ SocketsFiled
  BY <1>1, <1>3 DEF OneSocketPerClient, SocketsFiled, Data
<1>5. ctx \in [Remotes -> Ctx] /\ qctx \in [Queries -> Query]
  BY DEF Init, NoCtx, NoQuery, Ctx, Query, Fams
<1>6. SocketInv
  BY <1>1, <1>2, <1>4, <1>5, MaxAssumption DEF SocketInv
<1>7. QueryInv /\ OwnInv /\ AddressesRespected
  BY <1>1, <1>5 DEF Init, QueryInv, OwnInv, AddressesRespected, Nothing
<1> QED
  BY <1>6, <1>7 DEF IInv

LEMMA RecvHitInv ==
    ASSUME IInv, NEW src \in Srcs, NEW h \in Headers, ServerRecvHit(src, h)
    PROVE  IInv'
<1> USE DEF IInv
<1> DEFINE r == Hit(Parsed(h).fam, src)
<1>1. r \in live /\ ctx[r].af = Parsed(h).fam /\ ctx[r].src = src
  BY HitIsOwn DEF ServerRecvHit
<1>2. live' = live /\ watched' = watched /\ ctx' = ctx /\ pending' = pending /\ qctx' = qctx
      /\ up' = up /\ cache' = cache_lookup(cache, hash_key(Parsed(h).fam, src))
  BY DEF ServerRecvHit, remotes, queries
<1>3. SocketInv'
  <2>1. \A s \in live : InUse(ctx'[s]) /\ ctx'[s].af = ctx[s].af /\ ctx'[s].src = ctx[s].src
    BY <1>2 DEF SocketInv
  <2>2. ctx' \in [Remotes -> Ctx]
    BY <1>2 DEF SocketInv
  <2> QED
    BY <1>2, <2>1, <2>2, LookupKeeps
<1>4. QueryInv' /\ OwnInv'
  BY <1>2 DEF QueryInv, OwnInv, Parsed
<1>5. AddressesRespected'
  <2> SUFFICES ASSUME Patient, last' = Sent(src, h, ctx[r].src, ForwardTo(r, h))
               PROVE  AddressesRespected'
    <3>1. last' = Sent(src, h, ctx[r].src, ForwardTo(r, h)) \/ last' = Nothing
      BY DEF ServerRecvHit, SendTo
    <3> QED
      BY <3>1, Dropped DEF AddressesRespected
  <2>1. h.kind \in Families => ForwardTo(r, h) = Parsed(h)
    <3>1. h.kind \in Families => ctx[r].af \in Families
      BY <1>1, ParsedAddress DEF Families
    <3>2. h.kind \in Families => ctx[r].dst = Parsed(ctx[r].header)
      BY <1>1, <3>1 DEF OwnInv
    <3> QED
      BY <3>2 DEF ForwardTo
  <2>2. h.kind \in Families => ForwardTo(r, h) = [fam |-> h.kind, host |-> h.host]
    BY <2>1, ParsedAddress
  <2> HIDE DEF r
  <2> QED
    BY <1>1, <2>2 DEF AddressesRespected, Sent
<1> QED
  BY <1>3, <1>4, <1>5

LEMMA RecvOtherNameInv ==
    ASSUME IInv, NEW src \in Srcs, NEW h \in Headers, ServerRecvOtherName(src, h)
    PROVE  IInv'
<1> USE DEF IInv
<1> DEFINE r == Hit(Parsed(h).fam, src)
<1>1. r \in live /\ ctx[r].af = Parsed(h).fam /\ ctx[r].src = src
  BY HitIsOwn DEF ServerRecvOtherName
<1>2. live' = live /\ watched' = watched /\ ctx' = ctx /\ up' = up /\ last' = Nothing
      /\ cache' = cache_lookup(cache, hash_key(Unspec, src)) /\ StartQuery(src, h, r)
  BY DEF ServerRecvOtherName, remotes
<1>3. Parsed(h).fam = Unspec /\ h.kind = "name"
  <2>1. ForwardTo(r, h).fam = Unspec
    BY DEF ServerRecvOtherName
  <2>2. ctx[r].dst.fam # Unspec
    BY <1>1 DEF SocketInv, InUse, Addresses, Families, Unspec
  <2>3. Parsed(h).fam = Unspec
    BY <2>1, <2>2 DEF ForwardTo
  <2> QED
    BY <2>3, ParsedAddress
<1>4. SocketInv'
  <2>1. \A s \in live : InUse(ctx'[s]) /\ ctx'[s].af = ctx[s].af /\ ctx'[s].src = ctx[s].src
    BY <1>2 DEF SocketInv
  <2>2. ctx' \in [Remotes -> Ctx]
    BY <1>2 DEF SocketInv
  <2> QED
    BY <1>2, <2>1, <2>2, LookupKeeps
<1>5. QueryInv'
      /\ \A q \in pending' :
            \/ q \in pending /\ qctx'[q] = qctx[q]
            \/ qctx'[q] = [src |-> src, header |-> h, remote |-> r]
  <2>1. r \in Remotes \cup {None}
    BY <1>1 DEF SocketInv
  <2> HIDE DEF r
  <2> QED
    BY <1>2, <1>3, <2>1, StartQueryKeeps
<1>6. OwnInv'
  <2> HIDE DEF r
  <2>1. ASSUME Patient, NEW q \in pending', qctx'[q].remote # None
        PROVE  /\ qctx'[q].remote \in live
               /\ ctx[qctx'[q].remote].src = qctx'[q].src
               /\ ctx[qctx'[q].remote].af = Unspec
    <3>1. CASE q \in pending /\ qctx'[q] = qctx[q]
      BY <2>1, <3>1 DEF OwnInv
    <3>2. CASE qctx'[q] = [src |-> src, header |-> h, remote |-> r]
      BY <1>1, <1>3, <3>2
    <3> QED
      BY <1>5, <3>1, <3>2
  <2> QED
    BY <1>2, <2>1 DEF OwnInv, Parsed
<1> QED
  BY <1>2, <1>4, <1>5, <1>6, Dropped

LEMMA RecvNewInv ==
    ASSUME IInv, NEW src \in Srcs, NEW h \in Headers, ServerRecvNew(src, h)
    PROVE  IInv'
<1> USE DEF IInv
<1> DEFINE to == Parsed(h)
           c == cache_lookup(cache, hash_key(to.fam, src))
<1>1. Hit(to.fam, src) = None /\ to.fam # Unspec /\ OpenRemote(c, to.fam, src, h, to)
      /\ up' = up /\ pending' = pending /\ qctx' = qctx
  BY DEF ServerRecvNew, queries
<1>2. to \in Addresses /\ to.fam \in Fams
  BY <1>1, ParsedAddress
<1>3. hash_key(to.fam, src) \notin Keys(cache)
  BY <1>1, MissIsNew
<1>4. c \in Seq(Entry) /\ Range(c) = Range(cache) /\ Len(c) = Len(cache) /\ Distinct(c)
  BY LookupProperties, FiledEntries DEF SocketInv
<1> HIDE DEF to, c
<1>5. /\ SocketInv'
      /\ Patient => \A r \in live \cap Held : r \in live' /\ ctx'[r] = ctx[r]
      /\ \A r \in live' : \/ ctx'[r] = NewCtx(to.fam, src, h, to)
                          \/ r \in live /\ ctx'[r] = ctx[r]
      /\ last' = Sent(src, h, src, to)
  BY <1>1, <1>2, <1>3, <1>4, OpenKeeps
<1>6. QueryInv'
  BY <1>1 DEF QueryInv
<1>7. OwnInv'
  <2>1. Patient => \A r \in live' : ctx'[r].af \in Families =>
                       ctx'[r].dst = Parsed(ctx'[r].header)
    <3> SUFFICES ASSUME Patient, NEW r \in live', ctx'[r].af \in Families
                 PROVE  ctx'[r].dst = Parsed(ctx'[r].header)
      OBVIOUS
    <3>1. CASE ctx'[r] = NewCtx(to.fam, src, h, to)
      BY <3>1 DEF NewCtx, to
    <3>2. CASE r \in live /\ ctx'[r] = ctx[r]
      BY <3>2 DEF OwnInv
    <3> QED
      BY <1>5, <3>1, <3>2
  <2> QED
    BY <1>1, <1>5, <2>1, OwnKept
<1>8. AddressesRespected'
  <2>1. h.kind \in Families => to = [fam |-> h.kind, host |-> h.host]
    BY ParsedAddress DEF to
  <2> QED
    BY <1>5, <2>1 DEF AddressesRespected, Sent
<1> QED
  BY <1>5, <1>6, <1>7, <1>8

LEMMA RecvNameInv ==
    ASSUME IInv, NEW src \in Srcs, NEW h \in Headers, ServerRecvName(src, h)
    PROVE  IInv'
<1> USE DEF IInv
<1>1. StartQuery(src, h, None) /\ up' = up /\ last' = Nothing
      /\ UNCHANGED <<cache, ctx, live, watched>>
  BY DEF ServerRecvName, remotes
<1>2. h.kind = "name"
  BY ParsedAddress DEF ServerRecvName
<1>3. SocketInv'
  BY <1>1 DEF SocketInv, OneSocketPerClient, SocketsFiled, TimeoutKey
<1>4. QueryInv'
      /\ \A q \in pending' :
            \/ q \in pending /\ qctx'[q] = qctx[q]
            \/ qctx'[q] = [src |-> src, header |-> h, remote |-> None]
  BY <1>1, <1>2, StartQueryKeeps
<1>5. OwnInv'
  <2>1. \A q \in pending' : qctx'[q].remote # None => q \in pending /\ qctx'[q] = qctx[q]
    BY <1>4
  <2> QED
    BY <1>1, <2>1 DEF OwnInv, Parsed
<1> QED
  BY <1>1, <1>3, <1>4, <1>5, Dropped

(* An answer that finds nothing to do, or a stale pointer. *)
LEMMA AnswerDroppedInv ==
    ASSUME IInv, NEW q \in Queries, EndQuery(q), last' = Nothing,
           UNCHANGED <<up, cache, remotes>>
    PROVE  IInv'
<1> USE DEF IInv
<1>1. UNCHANGED <<up, cache, ctx, live, watched>>
  BY DEF remotes
<1>2. SocketInv'
  BY <1>1 DEF SocketInv, OneSocketPerClient, SocketsFiled, TimeoutKey
<1>3. /\ QueryInv' /\ pending' \in SUBSET pending
      /\ \A p \in pending' : qctx'[p] = qctx[p]
  BY <1>1, EndQueryKeeps
<1>4. OwnInv'
  BY <1>1, <1>3 DEF OwnInv, Parsed
<1> QED
  BY <1>2, <1>3, <1>4, Dropped

LEMMA ResolveHitInv ==
    ASSUME IInv, NEW q \in Queries, NEW fam \in Families, ResolveHit(q, fam)
    PROVE  IInv'
<1> USE DEF IInv
<1> DEFINE r == ResolvedRemote(q)
           to == [fam |-> fam, host |-> qctx[q].header.host]
           k == hash_key(Unspec, qctx[q].src)
<1>1. /\ q \in pending /\ r \in live
      /\ cache' = cache \/ cache' = cache_lookup(cache, k)
      /\ ctx' = [ctx EXCEPT ![r].dst = to]
      /\ SendTo(r, qctx[q].src, qctx[q].header, to)
      /\ EndQuery(q)
      /\ up' = up /\ live' = live /\ watched' = watched
  BY DEF ResolveHit
<1>2. Patient => ctx[r].src = qctx[q].src /\ ctx[r].af = Unspec
  <2>1. CASE qctx[q].remote # None
    BY <1>1, <2>1 DEF OwnInv, ResolvedRemote
  <2>2. CASE qctx[q].remote = None
    <3>1. r = Hit(Unspec, qctx[q].src)
      BY <2>2 DEF ResolvedRemote
    <3>2. r # None
      BY <1>1, NoneAssumption DEF SocketInv
    <3> QED
      BY <3>1, <3>2, HitIsOwn
  <2> QED
    BY <2>1, <2>2
<1>3. to \in Addresses /\ qctx[q].header.kind = "name"
  BY <1>1 DEF QueryInv, Headers, Addresses
<1> HIDE DEF r, to, k
<1>4. ctx[r] \in Ctx /\ InUse(ctx[r])
  BY <1>1 DEF SocketInv
<1>5. ctx' = [ctx EXCEPT ![r] = [ctx[r] EXCEPT !.dst = to]]
  BY <1>1
<1>6. /\ ctx' \in [Remotes -> Ctx]
      /\ \A s \in live : /\ InUse(ctx'[s]) /\ ctx'[s].af = ctx[s].af
                         /\ ctx'[s].src = ctx[s].src /\ ctx'[s].header = ctx[s].header
                         /\ s # r => ctx'[s] = ctx[s]
  <2>1. [ctx[r] EXCEPT !.dst = to] \in Ctx
    BY <1>3, <1>4 DEF Ctx
  <2>2. /\ InUse([ctx[r] EXCEPT !.dst = to])
        /\ [ctx[r] EXCEPT !.dst = to].af = ctx[r].af
        /\ [ctx[r] EXCEPT !.dst = to].src = ctx[r].src
        /\ [ctx[r] EXCEPT !.dst = to].header = ctx[r].header
    BY <1>3, <1>4 DEF Ctx, InUse
  <2> QED
    BY <1>1, <1>5, <2>1, <2>2 DEF SocketInv
<1>7. SocketInv'
  BY <1>1, <1>6, LookupKeeps
<1>8. /\ QueryInv' /\ pending' \in SUBSET pending
      /\ \A p \in pending' : qctx'[p] = qctx[p]
  BY <1>1, EndQueryKeeps
<1>9. OwnInv'
  <2>1. ASSUME Patient, NEW s \in live', ctx'[s].af \in Families
        PROVE  ctx'[s].dst = Parsed(ctx'[s].header)
    <3>1. s # r
      BY <1>1, <1>2, <1>6, <2>1 DEF Families, Unspec
    <3> QED
      BY <1>1, <1>6, <2>1, <3>1 DEF OwnInv
  <2>2. \A s \in live \cap Held :
            s \in live' /\ ctx'[s].src = ctx[s].src /\ ctx'[s].af = ctx[s].af
    BY <1>1, <1>6
  <2> QED
    BY <1>8, <2>1, <2>2, OwnKept
<1>10. AddressesRespected'
  <2>1. last' = Sent(qctx[q].src, qctx[q].header, ctx[r].src, to) \/ last' = Nothing
    BY <1>1 DEF SendTo
  <2>2. CASE last' = Sent(qctx[q].src, qctx[q].header, ctx[r].src, to)
    BY <1>2, <1>3, <2>2 DEF AddressesRespected, Sent, Families
  <2> QED
    BY <2>1, <2>2, Dropped
<1> QED
  BY <1>7, <1>8, <1>9, <1>10

LEMMA ResolveNewInv ==
    ASSUME IInv, NEW q \in Queries, NEW fam \in Families, ResolveNew(q, fam)
    PROVE  IInv'
<1> USE DEF IInv
<1> DEFINE to == [fam |-> fam, host |-> qctx[q].header.host]
           src == qctx[q].src
           h == qctx[q].header
<1>1. /\ q \in pending /\ ResolvedRemote(q) = None /\ EndQuery(q) /\ up' = up
      /\ OpenRemote(cache, Unspec, src, h, to)
  BY DEF ResolveNew
<1>2. src \in Srcs /\ h \in Headers /\ h.kind = "name" /\ to \in Addresses /\ Unspec \in Fams
  BY <1>1 DEF QueryInv, Headers, Addresses, Fams
<1>3. hash_key(Unspec, src) \notin Keys(cache)
  BY <1>1, MissIsNew DEF ResolvedRemote
<1>4. cache \in Seq(Entry) /\ Distinct(cache)
  BY FiledEntries DEF SocketInv
<1> HIDE DEF to, src, h
<1>5. /\ SocketInv'
      /\ Patient => \A r \in live \cap Held : r \in live' /\ ctx'[r] = ctx[r]
      /\ \A r \in live' : \/ ctx'[r] = NewCtx(Unspec, src, h, to)
                          \/ r \in live /\ ctx'[r] = ctx[r]
      /\ last' = Sent(src, h, src, to)
  BY <1>1, <1>2, <1>3, <1>4, OpenKeeps
<1>6. /\ QueryInv' /\ pending' \in SUBSET pending
      /\ \A p \in pending' : qctx'[p] = qctx[p]
  BY <1>1, EndQueryKeeps
<1>7. OwnInv'
  <2>1. ASSUME Patient, NEW r \in live', ctx'[r].af \in Families
        PROVE  ctx'[r].dst = Parsed(ctx'[r].header)
    <3>1. NewCtx(Unspec, src, h, to).af \notin Families
      BY DEF NewCtx, Families, Unspec
    <3> QED
      BY <1>5, <2>1, <3>1 DEF OwnInv
  <2> QED
    BY <1>5, <1>6, <2>1, OwnKept
<1>8. AddressesRespected'
  BY <1>2, <1>5 DEF AddressesRespected, Sent, Families
<1> QED
  BY <1>5, <1>6, <1>7, <1>8

(* A socket's timer closes the socket it belongs to and no other one. *)
LEMMA TimeoutFrees ==
    ASSUME SocketInv, NEW r \in Remotes, RemoteTimeout(r)
    PROVE  /\ FreedBy(cache, cache_remove(cache, TimeoutKey(r))) = {r}
           /\ SocketInv' /\ \A s \in live' : ctx'[s] = ctx[s]
<1> DEFINE e == cache_remove(cache, TimeoutKey(r))
<1>1. r \in Sockets(Range(cache))
  BY FiledEntries DEF RemoteTimeout
<1>2. PICK t \in Range(cache) : t.data = r
  BY <1>1 DEF Sockets
<1>3. t.key = TimeoutKey(r)
  BY <1>2, FiledEntries
<1>4. TimeoutKey(r) \in Keys(cache)
  BY <1>2, <1>3 DEF Keys, Range
<1>5. PICK x \in Range(cache) :
             /\ x.key = TimeoutKey(r)
             /\ e \in Seq(Entry)
             /\ Len(e) = Len(cache) - 1
             /\ Range(e) = Range(cache) \ {x}
             /\ Distinct(e)
  BY <1>4, FiledEntries, RemoveProperties DEF SocketInv
<1>6. x = t
  BY <1>2, <1>3, <1>5, FiledEntries
<1> HIDE DEF e
<1>7. \A u \in Range(cache) : u.data = r => u = x
  BY <1>2, <1>3, <1>6, FiledEntries
<1>8. Sockets(Range(cache)) \ Sockets(Range(e)) = {r}
  BY <1>2, <1>5, <1>6, <1>7 DEF Sockets
<1>9. FreedBy(cache, e) = {r}
  BY <1>8, DataIsSockets DEF FreedBy
<1>10. /\ cache' = e /\ live' = live \ {r} /\ watched' = watched \ {r}
       /\ ctx' = Cleared({r})
  BY <1>9 DEF RemoteTimeout, e
<1>11. Len(e) < Max
  <2>1. Len(cache) \in Nat /\ Len(cache) < Max
    BY LenProperties DEF SocketInv
  <2> QED
    BY <1>5, <2>1, MaxAssumption
<1>12. SocketInv' /\ \A s \in live' : ctx'[s] = ctx[s]
  <2>1. Range(e) \in SUBSET Range(cache)
    BY <1>5
  <2> QED
    BY <1>5, <1>8, <1>10, <1>11, <2>1, FreeKeeps
<1> QED
  BY <1>9, <1>12 DEF e

LEMMA TimeoutInv ==
    ASSUME IInv, NEW r \in Remotes, RemoteTimeout(r)
    PROVE  IInv'
<1> USE DEF IInv
<1>1. SocketInv' /\ \A s \in live' : ctx'[s] = ctx[s]
  BY TimeoutFrees
<1>2. live' = live \ {r} /\ Spared({r})
  BY TimeoutFrees DEF RemoteTimeout
<1>3. up' = up /\ pending' = pending /\ qctx' = qctx /\ last' = Nothing
  BY DEF RemoteTimeout, queries
<1>4. QueryInv'
  BY <1>3 DEF QueryInv
<1>5. OwnInv'
  <2>1. Patient => \A s \in live \cap Held :
            s \in live' /\ ctx'[s].src = ctx[s].src /\ ctx'[s].af = ctx[s].af
    BY <1>1, <1>2 DEF Spared
  <2>2. Patient => \A s \in live' : ctx'[s].af \in Families =>
            ctx'[s].dst = Parsed(ctx'[s].header)
    BY <1>1, <1>2 DEF OwnInv
  <2> QED
    BY <1>3, <2>1, <2>2, OwnKept
<1> QED
  BY <1>1, <1>3, <1>4, <1>5, Dropped

LEMMA RemoteRecvInv ==
    ASSUME IInv, NEW r \in Remotes, NEW from, RemoteRecv(r, from)
    PROVE  IInv'
<1> USE DEF IInv
<1>1. UNCHANGED <<up, cache, ctx, live, watched, pending, qctx>>
  BY DEF RemoteRecv, remotes, queries
<1>2. SocketInv' /\ QueryInv' /\ OwnInv'
  BY <1>1 DEF SocketInv, OneSocketPerClient, SocketsFiled, TimeoutKey,
              QueryInv, OwnInv, Parsed
<1>3. AddressesRespected'
  BY DEF RemoteRecv, Replied, AddressesRespected
<1> QED
  BY <1>2, <1>3

LEMMA ShutdownInv == IInv /\ Shutdown => IInv'
<1> SUFFICES ASSUME IInv, Shutdown PROVE IInv'
  OBVIOUS
<1> USE DEF IInv
<1>1. cache' = <<>> /\ live' = {} /\ watched' = {} /\ ctx' = Cleared(live)
  BY DEF Shutdown, SocketInv, SocketsFiled
<1>2. cache' \in Seq(Entry) /\ Len(cache') = 0
  BY <1>1, EmptySeq
<1>3. DOMAIN cache' = {}
  BY <1>2, LenProperties
<1>4. Range(cache') = {} /\ Distinct(cache')
  BY <1>3 DEF Range, Distinct
<1>5. NoCtx \in Ctx /\ NoQuery \in Query
  BY DEF NoCtx, Ctx, Fams, NoQuery, Query
<1>6. ctx' \in [Remotes -> Ctx]
  BY <1>1, <1>5 DEF Cleared, SocketInv
<1>7. SocketInv'
  <2>1. Len(cache') < Max
    BY <1>2, MaxAssumption
  <2>2. live' = Sockets(Range(cache'))
    BY <1>1, <1>4 DEF Sockets
  <2> QED
    BY <1>1, <1>2, <1>4, <1>6, <2>1, <2>2, Refiled
<1>8. QueryInv' /\ OwnInv'
  BY <1>1, <1>5 DEF Shutdown, QueryInv, OwnInv
<1> QED
  BY <1>7, <1>8, Dropped DEF Shutdown

LEMMA StepInv == IInv /\ [Next]_vars => IInv'
<1> SUFFICES ASSUME IInv, [Next]_vars PROVE IInv'
  OBVIOUS
<1>1. CASE ClientPacket
  BY <1>1, RecvHitInv, RecvOtherNameInv, RecvNewInv, RecvNameInv DEF ClientPacket
<1>2. ASSUME NEW q \in Queries, Answer(q) PROVE IInv'
  <2>1. CASE ResolveFails(q) \/ ResolveStale(q) \/ ResolveDrop(q)
    BY <2>1, AnswerDroppedInv DEF ResolveFails, ResolveStale, ResolveDrop
  <2>2. ASSUME NEW fam \in Families, ResolveHit(q, fam) \/ ResolveNew(q, fam) PROVE IInv'
    BY <2>2, ResolveHitInv, ResolveNewInv
  <2> QED
    BY <1>2, <2>1, <2>2 DEF Answer
<1>3. ASSUME NEW r \in Remotes, RemoteTimeout(r) PROVE IInv'
  BY <1>3, TimeoutInv
<1>4. ASSUME NEW r \in Remotes, NEW from \in [fam : Families, host : Hosts],
             RemoteRecv(r, from)
      PROVE  IInv'
  BY <1>4, RemoteRecvInv
<1>5. CASE Shutdown
  BY <1>5, ShutdownInv
<1>6. CASE UNCHANGED vars
  BY <1>6 DEF vars, IInv, SocketInv, OneSocketPerClient, SocketsFiled, TimeoutKey,
              QueryInv, OwnInv, Parsed, AddressesRespected
<1> QED
  BY <1>1, <1>2, <1>3, <1>4, <1>5, <1>6 DEF Next

-----------------------------------------------------------------------------
(* The theorems. *)

LEMMA Inductive == Spec => []IInv
  BY InitInv, StepInv, PTL DEF Spec

(***************************************************************************)
(* The contexts of sockets and queries in use are filled in, and the cache *)
(* stays below max_entries after every insertion.                          *)
(***************************************************************************)
THEOREM TypeCorrect == Spec => []TypeOK
<1>1. IInv => TypeOK
  BY DEF IInv, SocketInv, QueryInv, InUse, TypeOK, Entry, Fams
<1> QED
  BY <1>1, Inductive, PTL

(***************************************************************************)
(* cache_insert never gets a key the cache has already: a client's queries *)
(* that are answered after the first find the socket that one opened.      *)
(***************************************************************************)
THEOREM OneSocketSafe == Spec => []OneSocketPerClient
<1>1. IInv => OneSocketPerClient
  BY DEF IInv, SocketInv
<1> QED
  BY <1>1, Inductive, PTL

(***************************************************************************)
(* A socket is allocated, watched and cached for the same time, under the  *)
(* key remote_timeout_cb computes from it.                                 *)
(***************************************************************************)
THEOREM SocketsSafe == Spec => []SocketsFiled
<1>1. IInv => SocketsFiled
  BY DEF IInv, SocketInv
<1> QED
  BY <1>1, Inductive, PTL

(***************************************************************************)
(* remote_timeout_cb, which removes what the cache has under a key, closes *)
(* the socket whose timer has run out and touches no other one.            *)
(***************************************************************************)
THEOREM TimeoutClosesItsOwn ==
  Spec => [][\A r \in Remotes : RemoteTimeout(r) =>
                /\ live' = live \ {r}
                /\ \A s \in live' : ctx'[s] = ctx[s]]_vars
<1>1. IInv /\ [Next]_vars =>
        [\A r \in Remotes : RemoteTimeout(r) =>
            /\ live' = live \ {r}
            /\ \A s \in live' : ctx'[s] = ctx[s]]_vars
  <2> SUFFICES ASSUME IInv, NEW r \in Remotes, RemoteTimeout(r)
               PROVE  live' = live \ {r} /\ \A s \in live' : ctx'[s] = ctx[s]
    OBVIOUS
  <2> QED
    BY TimeoutFrees DEF IInv, RemoteTimeout
<1> QED
  BY <1>1, Inductive, PTL DEF Spec

(***************************************************************************)
(* While no socket a query points to is closed, an answer is sent through  *)
(* the socket of the client that asked (query_resolve_cb).                 *)
(***************************************************************************)
THEOREM QueriesSafe == Spec => []QueriesHoldTheirOwn
<1>1. IInv => QueriesHoldTheirOwn
  BY DEF IInv, OwnInv, QueriesHoldTheirOwn
<1> QED
  BY <1>1, Inductive, PTL

(***************************************************************************)
(* Under the same condition every packet leaves through its own client's   *)
(* socket, and one whose header gives an address goes to that address.     *)
(***************************************************************************)
THEOREM AddressesSafe == Spec => []AddressesRespected
<1>1. IInv => AddressesRespected
  BY DEF IInv
<1> QED
  BY <1>1, Inductive, PTL

-----------------------------------------------------------------------------
(***************************************************************************)
(* The refinement of UdpNat.  First the table and the order that a cache   *)
(* stands for, and what its operations do to them.                         *)
(***************************************************************************)

LEMMA OrderMember ==
    ASSUME NEW c, NEW i \in DOMAIN c, NEW j \in DOMAIN c, i < j
    PROVE  <<c[i].key, c[j].key>> \in Before(c)
<1>1. c[i].key \in Keys(c) /\ c[j].key \in Keys(c)
  BY DEF Keys
<1>2. <<c[i].key, c[j].key>> \in Keys(c) \X Keys(c)
  BY <1>1
<1> QED
  BY <1>2 DEF Before

(* The position of the entry that goes is skipped, the others keep their   *)
(* order.                                                                  *)
LEMMA ClosedOrder ==
    ASSUME NEW n \in Nat, NEW i \in 1..n, NEW j \in 1..(n - 1), NEW l \in 1..(n - 1)
    PROVE  j < l <=> Closed(i, j) < Closed(i, l)
  BY DEF Closed

LEMMA DeleteOrder ==
    ASSUME NEW S, NEW c \in Seq(S), NEW i \in 1..Len(c), Distinct(c)
    PROVE  Before(Delete(c, i)) = {p \in Before(c) : p[1] # c[i].key /\ p[2] # c[i].key}
<1> DEFINE n == Len(c)
           e == Delete(c, i)
           k == c[i].key
           B == {p \in Before(c) : p[1] # k /\ p[2] # k}
<1>1. n \in Nat /\ DOMAIN c = 1..n /\ i \in 1..n
  BY LenProperties
<1>2. DOMAIN e = 1..(n - 1)
  BY DeleteProperties, LenProperties
<1>3. \A j \in 1..(n - 1) : e[j] = c[Closed(i, j)]
  BY DeleteProperties DEF Closed
<1> HIDE DEF e, n
<1>4. \A j \in 1..n : j # i => c[j].key # k
  BY <1>1 DEF Distinct
<1>5. ASSUME NEW p \in Before(e) PROVE p \in B
  <2>1. PICK j, l \in 1..(n - 1) : j < l /\ p = <<e[j].key, e[l].key>>
    BY <1>2, <1>5 DEF Before
  <2> DEFINE a == Closed(i, j)
             b == Closed(i, l)
  <2>2. a \in 1..n /\ b \in 1..n /\ a # i /\ b # i
    BY <1>1, ClosedOnto
  <2>3. a < b
    BY <1>1, <2>1, ClosedOrder
  <2>4. p = <<c[a].key, c[b].key>>
    BY <1>3, <2>1
  <2> HIDE DEF a, b
  <2>5. p \in Before(c)
    BY <1>1, <2>2, <2>3, <2>4, OrderMember
  <2>6. p[1] # k /\ p[2] # k
    BY <1>4, <2>2, <2>4
  <2> QED
    BY <2>5, <2>6
<1>6. ASSUME NEW p \in B PROVE p \in Before(e)
  <2>1. PICK a, b \in 1..n : a < b /\ p = <<c[a].key, c[b].key>>
    BY <1>1, <1>6 DEF Before
  <2>2. a # i /\ b # i
    BY <1>6, <2>1
  <2>3. PICK j \in 1..(n - 1) : Closed(i, j) = a
    BY <1>1, <2>2, ClosedOnto
  <2>4. PICK l \in 1..(n - 1) : Closed(i, l) = b
    BY <1>1, <2>2, ClosedOnto
  <2>5. j < l
    BY <1>1, <2>1, <2>3, <2>4, ClosedOrder
  <2>6. <<e[j].key, e[l].key>> \in Before(e)
    BY <1>2, <2>5, OrderMember
  <2>7. p = <<e[j].key, e[l].key>>
    BY <1>3, <2>1, <2>3, <2>4
  <2> QED
    BY <2>6, <2>7
<1> QED
  BY <1>5, <1>6 DEF e

LEMMA AppendOrder ==
    ASSUME NEW S, NEW c \in Seq(S), NEW x \in S
    PROVE  Before(Append(c, x)) = Before(c) \cup {<<j, x.key>> : j \in Keys(c)}
<1> DEFINE n == Len(c)
           e == Append(c, x)
<1>1. n \in Nat /\ DOMAIN c = 1..n
  BY LenProperties
<1>2. e \in Seq(S) /\ Len(e) = n + 1 /\ (\A i \in 1..n : e[i] = c[i]) /\ e[n + 1] = x
  BY AppendProperties
<1>3. DOMAIN e = 1..(n + 1)
  BY <1>2, LenProperties
<1> HIDE DEF e, n
<1>4. \A i \in 1..(n + 1) : i \in 1..n \/ i = n + 1
  BY <1>1
<1>5. \A i \in 1..n : i \in 1..(n + 1) /\ i < n + 1
  BY <1>1
<1>6. n + 1 \in 1..(n + 1)
  BY <1>1
<1>7. ASSUME NEW p \in Before(e) PROVE p \in Before(c) \cup {<<j, x.key>> : j \in Keys(c)}
  <2>1. PICK i, j \in 1..(n + 1) : i < j /\ p = <<e[i].key, e[j].key>>
    BY <1>3, <1>7 DEF Before
  <2>2. i \in 1..n
    BY <1>1, <2>1
  <2>3. CASE j \in 1..n
    <3>1. <<c[i].key, c[j].key>> \in Before(c)
      BY <1>1, <2>1, <2>2, <2>3, OrderMember
    <3> QED
      BY <1>2, <2>1, <2>2, <2>3, <3>1
  <2>4. CASE j = n + 1
    <3>1. c[i].key \in Keys(c)
      BY <1>1, <2>2 DEF Keys
    <3> QED
      BY <1>2, <2>1, <2>2, <2>4, <3>1
  <2> QED
    BY <1>4, <2>3, <2>4
<1>8. ASSUME NEW p \in Before(c) PROVE p \in Before(e)
  <2>1. PICK i, j \in 1..n : i < j /\ p = <<c[i].key, c[j].key>>
    BY <1>1, <1>8 DEF Before
  <2>2. <<e[i].key, e[j].key>> \in Before(e)
    BY <1>3, <1>5, <2>1, OrderMember
  <2> QED
    BY <1>2, <2>1, <2>2
<1>9. ASSUME NEW j \in Keys(c) PROVE <<j, x.key>> \in Before(e)
  <2>1. PICK i \in 1..n : j = c[i].key
    BY <1>1 DEF Keys
  <2>2. <<e[i].key, e[n + 1].key>> \in Before(e)
    BY <1>3, <1>5, <1>6, OrderMember
  <2> QED
    BY <1>2, <2>1, <2>2
<1> QED
  BY <1>7, <1>8, <1>9 DEF e

(* A hit makes its entry the newest one. *)
LEMMA LookupOrder ==
    ASSUME NEW S, NEW c \in Seq(S), NEW k \in Keys(c), Distinct(c)
    PROVE  Before(cache_lookup(c, k)) =
             {p \in Before(c) : p[1] # k /\ p[2] # k} \cup {<<j, k>> : j \in Keys(c) \ {k}}
<1>1. PICK i \in 1..Len(c) : i = Find(c, k) /\ c[i].key = k
  BY FindPosition
<1>2. i # 0 /\ c[i] \in S
  BY ElementOfSeq
<1>3. cache_lookup(c, k) = Append(Delete(c, i), c[i])
  BY <1>1, <1>2 DEF cache_lookup
<1>4. Delete(c, i) \in Seq(S) /\ Range(Delete(c, i)) = Range(c) \ {c[i]}
  BY DeleteProperties, DeleteEntry
<1>5. Keys(Delete(c, i)) = Keys(c) \ {k}
  <2>1. \A t \in Range(c) : t.key = k => t = c[i]
    BY <1>1, LenProperties DEF Range, Distinct
  <2> QED
    BY <1>1, <1>4, <2>1, KeysOfEntries
<1>6. Before(Append(Delete(c, i), c[i])) = Before(Delete(c, i)) \cup {<<j, k>> : j \in Keys(c) \ {k}}
  BY <1>1, <1>2, <1>4, <1>5, AppendOrder
<1>7. Before(Delete(c, i)) = {p \in Before(c) : p[1] # k /\ p[2] # k}
  BY <1>1, DeleteOrder
<1> QED
  BY <1>3, <1>6, <1>7

LEMMA RemoveOrder ==
    ASSUME NEW S, NEW c \in Seq(S), NEW k \in Keys(c), Distinct(c)
    PROVE  Before(cache_remove(c, k)) = {p \in Before(c) : p[1] # k /\ p[2] # k}
<1>1. PICK i \in 1..Len(c) : i = Find(c, k) /\ c[i].key = k
  BY FindPosition
<1>2. i # 0
  OBVIOUS
<1>3. cache_remove(c, k) = Delete(c, i)
  BY <1>1, <1>2 DEF cache_remove
<1> QED
  BY <1>1, <1>3, DeleteOrder

(* An insertion that fills the table removes the oldest entry. *)
LEMMA InsertOrder ==
    ASSUME NEW S, NEW c \in Seq(S), NEW k, NEW d, NEW max \in Nat, max >= 2,
           [key |-> k, data |-> d] \in S,
           Distinct(c), k \notin Keys(c), Len(c) < max
    PROVE  LET x == [key |-> k, data |-> d]
               e == cache_insert(c, k, d, max)
           IN  \/ /\ Len(c) + 1 < max
                  /\ Range(e) = Range(c) \cup {x}
                  /\ Before(e) = Before(c) \cup {<<j, k>> : j \in Keys(c)}
               \/ /\ Len(c) + 1 = max
                  /\ \E g \in Range(c) :
                       /\ Range(e) = (Range(c) \ {g}) \cup {x}
                       /\ \A j \in Keys(c) \ {g.key} : <<g.key, j>> \in Before(c)
                       /\ Before(e) = {p \in Before(c) : p[1] # g.key /\ p[2] # g.key}
                                        \cup {<<j, k>> : j \in Keys(c) \ {g.key}}
<1> DEFINE x == [key |-> k, data |-> d]
           a == cache_added(c, k, d)
           e == cache_insert(c, k, d, max)
<1>1. a = Append(c, x) /\ x.key = k
  BY DEF cache_added
<1>2. /\ a \in Seq(S) /\ a # <<>> /\ Len(a) = Len(c) + 1
      /\ \A i \in 1..Len(c) : a[i] = c[i]
      /\ a[Len(c) + 1] = x
  BY AppendProperties DEF cache_added
<1>3. Len(c) \in Nat /\ DOMAIN c = 1..Len(c) /\ DOMAIN a = 1..(Len(c) + 1)
  BY <1>2, LenProperties
<1>4. Before(a) = Before(c) \cup {<<j, k>> : j \in Keys(c)}
  BY <1>1, AppendOrder
<1>5. Range(a) = Range(c) \cup {x}
  <2>1. ASSUME NEW y \in Range(a) PROVE y \in Range(c) \cup {x}
    <3>1. PICK i \in 1..(Len(c) + 1) : y = a[i]
      BY <1>3 DEF Range
    <3>2. i \in 1..Len(c) \/ i = Len(c) + 1
      BY <1>3
    <3> QED
      BY <1>2, <1>3, <3>1, <3>2 DEF Range
  <2>2. ASSUME NEW y \in Range(c) PROVE y \in Range(a)
    <3>1. PICK i \in 1..Len(c) : y = c[i]
      BY <1>3 DEF Range
    <3> QED
      BY <1>2, <1>3, <3>1 DEF Range
  <2>3. x \in Range(a)
    <3>1. Len(c) + 1 \in DOMAIN a
      BY <1>3
    <3> QED
      BY <1>2, <3>1 DEF Range
  <2> QED
    BY <2>1, <2>2, <2>3
<1>6. CASE ~cache_full(a, max)
  <2>1. e = a /\ Len(c) + 1 < max
    BY <1>2, <1>3, <1>6 DEF cache_insert, cache_full
  <2> QED
    BY <1>4, <1>5, <2>1
<1>7. CASE cache_full(a, max)
  <2>1. e = Tail(a) /\ Len(c) + 1 = max
    BY <1>2, <1>3, <1>7 DEF cache_insert, cache_full
  <2>2. 1 \in 1..Len(c) /\ 1 \in 1..Len(a)
    BY <1>2, <1>3, <2>1
  <2> DEFINE g == c[1]
  <2>3. g \in Range(c) /\ a[1] = g
    BY <1>2, <1>3, <2>2 DEF Range
  <2>4. e = Delete(a, 1)
    <3>1. /\ Tail(a) \in Seq(S) /\ Len(Tail(a)) = Len(a) - 1
          /\ \A i \in 1..(Len(a) - 1) : Tail(a)[i] = a[i + 1]
      BY <1>2, HeadTailProperties
    <3>2. DOMAIN Tail(a) = 1..(Len(a) - 1)
      BY <3>1, LenProperties
    <3>3. \A i \in 1..(Len(a) - 1) : Delete(a, 1)[i] = a[i + 1]
      <4>1. \A i \in 1..(Len(a) - 1) : Delete(a, 1)[i] = IF i < 1 THEN a[i] ELSE a[i + 1]
        BY <1>2, <2>2, DeleteProperties
      <4>2. \A i \in 1..(Len(a) - 1) : ~(i < 1)
        BY <1>2, <1>3
      <4> QED
        BY <4>1, <4>2
    <3>4. Delete(a, 1) \in Seq(S) /\ Len(Delete(a, 1)) = Len(a) - 1
      BY <1>2, <2>2, DeleteProperties
    <3> QED
      BY <2>1, <3>1, <3>3, <3>4, SeqEqual
  <2>5. Distinct(a)
    <3>1. \A i \in 1..Len(c) : c[i].key # k
      BY <1>3 DEF Keys
    <3>2. \A i \in 1..(Len(c) + 1) : i \in 1..Len(c) \/ i = Len(c) + 1
      BY <1>3
    <3> QED
      BY <1>1, <1>2, <1>3, <3>1, <3>2 DEF Distinct
  <2>6. Range(e) = Range(a) \ {g} /\ Before(e) = {p \in Before(a) : p[1] # g.key /\ p[2] # g.key}
    BY <1>2, <2>2, <2>3, <2>4, <2>5, DeleteEntry, DeleteOrder
  <2>7. g.key \in Keys(c) /\ g.key # k /\ g # x
    BY <1>1, <2>3, KeysOfEntries
  <2>8. \A j \in Keys(c) \ {g.key} : <<g.key, j>> \in Before(c)
    <3> TAKE j \in Keys(c) \ {g.key}
    <3>1. PICK i \in 1..Len(c) : j = c[i].key
      BY <1>3 DEF Keys
    <3>2. i # 1
      BY <3>1
    <3>3. 1 < i
      BY <1>3, <3>2
    <3> QED
      BY <1>3, <2>2, <3>1, <3>3, OrderMember
  <2> HIDE DEF g
  <2>9. Range(e) = (Range(c) \ {g}) \cup {x}
    BY <1>5, <2>6, <2>7
  <2>10. Before(e) = {p \in Before(c) : p[1] # g.key /\ p[2] # g.key}
                       \cup {<<j, k>> : j \in Keys(c) \ {g.key}}
    BY <1>4, <2>6, <2>7
  <2> QED
    BY <2>1, <2>3, <2>8, <2>9, <2>10
<1> QED
  BY <1>6, <1>7

(* The table of a cache. *)
LEMMA TableEntries ==
    ASSUME NEW c \in Seq(Entry), Distinct(c)
    PROVE  /\ Keys(c) \subseteq Names
           /\ \A t \in Range(c) : TableOf(c)[t.key] = t.data /\ t.data # None
           /\ \A k \in Names : TableOf(c)[k] # None <=> k \in Keys(c)
           /\ \A k \in Names \ Keys(c) : TableOf(c)[k] = None
<1>1. \A t \in Range(c) : t.key \in Names /\ t.data \in Remotes
  <2>1. Range(c) \subseteq Entry
    BY RangeOfSeq
  <2> QED
    BY <2>1 DEF Entry, Names, Fams
<1>2. Keys(c) \subseteq Names
  BY <1>1, KeysOfEntries
<1>3. \A k \in Names : TableOf(c)[k] = IF k \in Keys(c) THEN c[Find(c, k)].data ELSE None
  BY DEF TableOf
<1>4. \A k \in Keys(c) : c[Find(c, k)] \in Range(c) /\ c[Find(c, k)].key = k
  BY FindPosition, LenProperties DEF Range
<1>5. \A t, u \in Range(c) : t.key = u.key => t = u
  BY DEF Range, Distinct
<1>6. \A t \in Range(c) : t.key \in Keys(c)
  BY KeysOfEntries
<1>7. \A t \in Range(c) : TableOf(c)[t.key] = t.data
  <2> TAKE t \in Range(c)
  <2>1. t.key \in Keys(c) /\ t.key \in Names
    BY <1>1, <1>6
  <2>2. c[Find(c, t.key)] = t
    BY <1>4, <1>5, <2>1
  <2> QED
    BY <1>3, <2>1, <2>2
<1>8. \A t \in Range(c) : t.data # None
  BY <1>1, NoneAssumption
<1>9. \A k \in Keys(c) : TableOf(c)[k] # None
  <2> TAKE k \in Keys(c)
  <2>1. k \in Names
    BY <1>2
  <2> QED
    BY <1>3, <1>4, <1>8, <2>1
<1> QED
  BY <1>2, <1>3, <1>7, <1>8, <1>9

(* A function with these entries is the table. *)
LEMMA TableIs ==
    ASSUME NEW c \in Seq(Entry), Distinct(c), NEW f, f = [k \in Names |-> f[k]],
           \A t \in Range(c) : f[t.key] = t.data,
           \A k \in Names \ Keys(c) : f[k] = None
    PROVE  TableOf(c) = f
<1>1. ASSUME NEW k \in Names PROVE TableOf(c)[k] = f[k]
  <2>1. CASE k \in Keys(c)
    <3>1. PICK t \in Range(c) : k = t.key
      BY <2>1, KeysOfEntries
    <3> QED
      BY <3>1, TableEntries
  <2>2. CASE k \notin Keys(c)
    BY <2>2, TableEntries
  <2> QED
    BY <2>1, <2>2
<1>2. TableOf(c) = [k \in Names |-> TableOf(c)[k]]
  BY DEF TableOf
<1> QED
  BY <1>1, <1>2

(* The number of associations is the count of the cache. *)
LEMMA TableCount ==
    ASSUME NEW S, NEW c \in Seq(S), Distinct(c)
    PROVE  Cardinality(Keys(c)) = Len(c)
<1> DEFINE n == Len(c)
           f == [i \in 1..n |-> c[i].key]
<1>1. n \in Nat /\ DOMAIN c = 1..n
  BY LenProperties
<1> HIDE DEF n
<1>2. f \in [1..n -> Keys(c)]
  BY <1>1 DEF Keys
<1>3. f \in Injection(1..n, Keys(c))
  BY <1>1, <1>2 DEF Injection, IsInjective, Distinct
<1>4. f \in Surjection(1..n, Keys(c))
  BY <1>1, <1>2 DEF Surjection, Keys
<1>5. ExistsBijection(1..n, Keys(c))
  BY <1>3, <1>4 DEF ExistsBijection, Bijection
<1>6. IsFiniteSet(1..n) /\ Cardinality(1..n) = n
  <2>1. Cardinality(1..n) = IF 1 > n THEN 0 ELSE n - 1 + 1
    BY <1>1, FS_Interval
  <2> QED
    BY <1>1, <2>1, FS_Interval
<1> QED
  BY <1>5, <1>6, FS_Bijection DEF n
-----------------------------------------------------------------------------
(* The variables of UdpNat and what its steps say about them. *)

Waits == [q \in pending |-> qctx[q].src]
HeardIn(c, k) ==
    {p \in Before(c) : p[1] # k /\ p[2] # k} \cup {<<j, k>> : j \in Keys(c) \ {k}}

LEMMA TableTerms ==
    ASSUME SocketInv
    PROVE  /\ Table!Names = Names /\ Table!Opened = Keys(cache)
           /\ Keys(cache) \subseteq Names
           /\ \A k : Table!Heard(k) = HeardIn(cache, k)
           /\ \A k : Table!Without({k}) = {p \in Before(cache) : p[1] # k /\ p[2] # k}
<1>1. Table!Names = Names
  BY DEF Table!Names, Names
<1>2. cache \in Seq(Entry) /\ Distinct(cache)
  BY FiledEntries DEF SocketInv
<1>3. /\ Keys(cache) \subseteq Names
      /\ \A k \in Names : TableOf(cache)[k] # None <=> k \in Keys(cache)
  BY <1>2, TableEntries
<1>4. Table!Opened = Keys(cache)
  BY <1>1, <1>3 DEF Table!Opened
<1>5. ASSUME NEW k
      PROVE  Table!Without({k}) = {p \in Before(cache) : p[1] # k /\ p[2] # k}
  BY DEF Table!Without
<1>6. ASSUME NEW k PROVE Table!Heard(k) = HeardIn(cache, k)
  BY <1>4, <1>5 DEF Table!Heard, HeardIn
<1> QED
  BY <1>1, <1>3, <1>4, <1>5, <1>6

LEMMA RelayedIs ==
    /\ Relayed(Nothing) = Table!Nothing
    /\ \A src, h, owner, to : Relayed(Sent(src, h, owner, to)) = Table!Out(src, owner)
    /\ \A src, h : Relayed(Replied(src, h)) = Table!Back(src)
  BY DEF Relayed, Nothing, Sent, Replied, Table!Nothing, Table!Out, Table!Back

LEMMA EndServes ==
    ASSUME QueryInv, NEW q \in pending, EndQuery(q)
    PROVE  Table!Served(q) /\ q \in DOMAIN Waits /\ Waits[q] = qctx[q].src
<1>1. q \in DOMAIN Waits /\ Waits[q] = qctx[q].src
  BY DEF Waits
<1>2. pending' = pending \ {q} /\ \A p \in pending' : qctx'[p] = qctx[p]
  BY DEF EndQuery, QueryInv
<1>3. [p \in pending' |-> qctx'[p].src] = [p \in pending \ {q} |-> qctx[p].src]
  BY <1>2
<1>4. [p \in DOMAIN Waits \ {q} |-> Waits[p]] = [p \in pending \ {q} |-> qctx[p].src]
  BY DEF Waits
<1> QED
  BY <1>1, <1>3, <1>4 DEF Table!Served, Waits

LEMMA StartWaits ==
    ASSUME QueryInv, NEW src, NEW h, NEW r, StartQuery(src, h, r)
    PROVE  \E q \in Queries :
             /\ q \notin DOMAIN Waits
             /\ Waits' = [p \in DOMAIN Waits \cup {q} |-> IF p = q THEN src ELSE Waits[p]]
<1>1. PICK q \in Queries \ pending :
        /\ pending' = pending \cup {q}
        /\ qctx' = [qctx EXCEPT ![q] = [src |-> src, header |-> h, remote |-> r]]
  BY DEF StartQuery
<1>2. qctx'[q].src = src /\ \A p \in pending : p # q /\ qctx'[p] = qctx[p]
  BY <1>1 DEF QueryInv
<1>3. DOMAIN Waits = pending /\ \A p \in pending : Waits[p] = qctx[p].src
  BY DEF Waits
<1>4. Waits' = [p \in pending \cup {q} |-> IF p = q THEN src ELSE Waits[p]]
  BY <1>1, <1>2, <1>3 DEF Waits
<1> QED
  BY <1>1, <1>3, <1>4

(* A hit of the cache changes the order and nothing else. *)
LEMMA LookupTable ==
    ASSUME SocketInv, NEW k \in Keys(cache)
    PROVE  /\ TableOf(cache_lookup(cache, k)) = TableOf(cache)
           /\ Before(cache_lookup(cache, k)) = HeardIn(cache, k)
<1> DEFINE e == cache_lookup(cache, k)
<1>1. cache \in Seq(Entry) /\ Distinct(cache)
  BY FiledEntries DEF SocketInv
<1>2. e \in Seq(Entry) /\ Distinct(e) /\ Range(e) = Range(cache)
  BY <1>1, LookupProperties
<1>3. Before(e) = HeardIn(cache, k)
  BY <1>1, LookupOrder DEF HeardIn
<1> HIDE DEF e
<1>4. Keys(e) = Keys(cache)
  BY <1>2, KeysOfEntries
<1>5. TableOf(cache) = [j \in Names |-> TableOf(cache)[j]]
  BY DEF TableOf
<1>6. TableOf(e) = TableOf(cache)
  BY <1>1, <1>2, <1>4, <1>5, TableEntries, TableIs
<1> QED
  BY <1>3, <1>6 DEF e

(* The name of a socket in use. *)
LEMMA SocketName ==
    ASSUME SocketInv, NEW r \in live
    PROVE  /\ TimeoutKey(r) \in Keys(cache) /\ TimeoutKey(r) \in Names
           /\ TimeoutKey(r)[2] = ctx[r].src
<1>1. PICK t \in Range(cache) : t.data = r
  BY FiledEntries DEF Sockets
<1>2. t.key = TimeoutKey(r)
  BY <1>1, FiledEntries
<1>3. TimeoutKey(r) \in Keys(cache)
  BY <1>1, <1>2, KeysOfEntries
<1> QED
  BY <1>3, TableTerms DEF TimeoutKey, hash_key

LEMMA HitName ==
    ASSUME SocketInv, NEW af, NEW src, Hit(af, src) # None
    PROVE  hash_key(af, src) \in Keys(cache) /\ hash_key(af, src) \in Names
<1>1. TimeoutKey(Hit(af, src)) = hash_key(af, src) /\ Hit(af, src) \in live
  BY HitIsOwn DEF TimeoutKey
<1> QED
  BY <1>1, SocketName
-----------------------------------------------------------------------------
(* Every callback is a step of UdpNat. *)

LEMMA CountIs == \A S : Table!Cardinality(S) = Cardinality(S)
  BY DEF Table!Cardinality, Cardinality

(* The first packet of an association. *)
LEMMA OpenMaps ==
    ASSUME SocketInv, NEW af \in Fams, NEW src \in Srcs, NEW h, NEW to,
           hash_key(af, src) \notin Keys(cache),
           OpenRemote(cache, af, src, h, to), up' = up,
           \/ Waits' = Waits
           \/ \E q \in DOMAIN Waits : Waits[q] = src /\ Table!Served(q)
    PROVE  \E s \in Remotes : Table!NewSocket(hash_key(af, src), s)
<1> DEFINE k == hash_key(af, src)
<1>1. PICK s \in Remotes \ live :
          cache' = cache_insert(cache, k, s, Max) /\ last' = Sent(src, h, src, to)
  BY DEF OpenRemote
<1> DEFINE x == [key |-> k, data |-> s]
<1>2. /\ cache \in Seq(Entry) /\ Distinct(cache) /\ Len(cache) < Max
      /\ Max \in Nat /\ Max >= 2
  BY FiledEntries, MaxAssumption DEF SocketInv
<1>3. k \in Names /\ x \in Entry /\ k[2] = src
  BY DEF hash_key, Names, Entry, Fams
<1> HIDE DEF k
<1>4. cache' \in Seq(Entry) /\ Distinct(cache')
  BY <1>1, <1>2, <1>3, InsertProperties DEF k
<1>5. \/ /\ Len(cache) + 1 < Max
         /\ Range(cache') = Range(cache) \cup {x}
         /\ Before(cache') = Before(cache) \cup {<<j, k>> : j \in Keys(cache)}
      \/ /\ Len(cache) + 1 = Max
         /\ \E g \in Range(cache) :
              /\ Range(cache') = (Range(cache) \ {g}) \cup {x}
              /\ \A j \in Keys(cache) \ {g.key} : <<g.key, j>> \in Before(cache)
              /\ Before(cache') = {p \in Before(cache) : p[1] # g.key /\ p[2] # g.key}
                                    \cup {<<j, k>> : j \in Keys(cache) \ {g.key}}
  BY <1>1, <1>2, <1>3, InsertOrder DEF k
<1>6. Table!Cardinality(Table!Opened) = Len(cache)
  <2>1. Cardinality(Table!Opened) = Len(cache)
    BY <1>2, TableCount, TableTerms
  <2> QED
    BY <2>1, CountIs
<1>7. /\ TableOf(cache)[k] = None
      /\ \A t \in Range(cache) : TableOf(cache)[t.key] = t.data
      /\ \A j \in Names \ Keys(cache) : TableOf(cache)[j] = None
  BY <1>2, <1>3, TableEntries DEF k
<1>8. \A j \in Table!Names : TableOf(cache)[j] # s
  <2> SUFFICES ASSUME NEW j \in Names PROVE TableOf(cache)[j] # s
    BY TableTerms
  <2>1. CASE j \in Keys(cache)
    <3>1. PICK t \in Range(cache) : j = t.key
      BY <2>1, KeysOfEntries
    <3>2. t.data \in live
      BY FiledEntries
    <3> QED
      BY <1>7, <3>1, <3>2
  <2>2. CASE j \notin Keys(cache)
    BY <1>7, <2>2, NoneAssumption
  <2> QED
    BY <2>1, <2>2
<1>9. Relayed(last') = Table!Out(k[2], k[2])
  BY <1>1, <1>3, RelayedIs
<1>10. TableOf(cache) = [j \in Names |-> TableOf(cache)[j]]
  BY DEF TableOf
<1>w. \/ Waits' = Waits
      \/ \E q \in DOMAIN Waits : Waits[q] = k[2] /\ Table!Served(q)
  BY <1>3
<1>11. ASSUME Len(cache) + 1 < Max,
              Range(cache') = Range(cache) \cup {x},
              Before(cache') = Before(cache) \cup {<<j, k>> : j \in Keys(cache)}
       PROVE  Table!NewSocket(k, s)
  <2> DEFINE f == [TableOf(cache) EXCEPT ![k] = s]
  <2>1. f = [j \in Names |-> f[j]] /\ f[k] = s
        /\ \A j \in Names \ {k} : f[j] = TableOf(cache)[j]
    BY <1>3, <1>10
  <2>2. Keys(cache') = Keys(cache) \cup {k}
    <3>1. Keys(cache') = {t.key : t \in Range(cache')} /\ x.key = k
      BY KeysOfEntries
    <3> HIDE DEF x
    <3> QED
      BY <1>11, <3>1, KeysOfEntries
  <2>3. \A t \in Range(cache) : t.key \in Names \ {k}
    BY KeysOfEntries, TableTerms DEF k
  <2> HIDE DEF f
  <2>4. \A t \in Range(cache') : f[t.key] = t.data
    BY <1>7, <1>11, <2>1, <2>3
  <2>5. \A j \in Names \ Keys(cache') : f[j] = None
    BY <1>7, <2>1, <2>2
  <2>6. TableOf(cache') = f
    BY <1>4, <2>1, <2>4, <2>5, TableIs
  <2> QED
    <3>1. /\ Table!Cardinality(Table!Opened) + 1 < Max
          /\ TableOf(cache') = [TableOf(cache) EXCEPT ![k] = s]
          /\ Before(cache') = Before(cache) \cup {<<j, k>> : j \in Table!Opened}
      BY <1>6, <1>11, <2>6, TableTerms DEF f
    <3> QED
      BY <1>w, <1>7, <1>8, <1>9, <3>1, Zenon DEF Table!NewSocket, Waits
<1>12. ASSUME Len(cache) + 1 = Max, NEW g \in Range(cache),
              Range(cache') = (Range(cache) \ {g}) \cup {x},
              \A j \in Keys(cache) \ {g.key} : <<g.key, j>> \in Before(cache),
              Before(cache') = {p \in Before(cache) : p[1] # g.key /\ p[2] # g.key}
                                 \cup {<<j, k>> : j \in Keys(cache) \ {g.key}}
       PROVE  Table!NewSocket(k, s)
  <2> DEFINE f == [TableOf(cache) EXCEPT ![g.key] = None, ![k] = s]
  <2>1. g.key \in Keys(cache) /\ g.key \in Names /\ g.key # k
    BY KeysOfEntries, TableTerms DEF k
  <2>2. f = [j \in Names |-> f[j]] /\ f[k] = s /\ f[g.key] = None
        /\ \A j \in Names \ {k, g.key} : f[j] = TableOf(cache)[j]
    BY <1>3, <1>10, <2>1
  <2>3. \A t \in Range(cache) : t.key \in Names \ {k} /\ (t.key = g.key => t = g)
    BY KeysOfEntries, TableTerms, FiledEntries DEF k
  <2>4. Keys(cache') = (Keys(cache) \ {g.key}) \cup {k}
    <3>1. Keys(cache') = {t.key : t \in Range(cache')} /\ x.key = k
      BY KeysOfEntries
    <3> HIDE DEF x
    <3> QED
      BY <1>12, <2>3, <3>1, KeysOfEntries
  <2> HIDE DEF f
  <2>5. \A t \in Range(cache') : f[t.key] = t.data
    BY <1>7, <1>12, <2>2, <2>3
  <2>6. \A j \in Names \ Keys(cache') : f[j] = None
    BY <1>7, <2>2, <2>4
  <2>7. TableOf(cache') = f
    BY <1>4, <2>2, <2>5, <2>6, TableIs
  <2>8. \E gone \in Table!Opened :
          /\ \A j \in Table!Opened \ {gone} : <<gone, j>> \in Before(cache)
          /\ TableOf(cache') = [TableOf(cache) EXCEPT ![gone] = None, ![k] = s]
          /\ Before(cache') = Table!Without({gone}) \cup {<<j, k>> : j \in Table!Opened \ {gone}}
    BY <1>12, <2>1, <2>7, TableTerms DEF f
  <2> QED
    <3>1. Table!Cardinality(Table!Opened) + 1 = Max
      BY <1>6, <1>12
    <3> QED
      BY <1>w, <1>7, <1>8, <1>9, <2>8, <3>1, Zenon DEF Table!NewSocket, Waits
<1> QED
  <2>1. Table!NewSocket(k, s)
    BY <1>5, <1>11, <1>12
  <2> QED
    BY <2>1 DEF k
LEMMA NewMaps ==
    ASSUME IInv, up, NEW src \in Srcs, NEW h \in Headers, ServerRecvNew(src, h)
    PROVE  Table!Next
<1> DEFINE to == Parsed(h)
           k == hash_key(to.fam, src)
<1>1. to.fam \in Fams /\ k \notin Keys(cache) /\ SocketInv
  BY ParsedAddress, MissIsNew DEF ServerRecvNew, IInv
<1>2. cache_lookup(cache, k) = cache
  BY <1>1, FindPosition DEF SocketInv, cache_lookup
<1>3. OpenRemote(cache, to.fam, src, h, to) /\ up' = up /\ pending' = pending /\ qctx' = qctx
  BY <1>2 DEF ServerRecvNew, queries
<1>4. Waits' = Waits
  BY <1>3 DEF Waits
<1>5. k \in Names
  BY <1>1 DEF hash_key, Names, Fams
<1> HIDE DEF to
<1>6. PICK s \in Remotes : Table!NewSocket(k, s)
  BY <1>1, <1>3, <1>4, OpenMaps
<1> HIDE DEF k
<1>7. k \in Table!Names
  BY <1>1, <1>5, TableTerms
<1> QED
  BY <1>6, <1>7 DEF Table!Next

LEMMA AnsweredNewMaps ==
    ASSUME IInv, up, NEW q \in Queries, NEW fam \in Families, ResolveNew(q, fam)
    PROVE  Table!Next
<1> DEFINE src == qctx[q].src
           k == hash_key(Unspec, src)
           to == [fam |-> fam, host |-> qctx[q].header.host]
<1>1. /\ q \in pending /\ EndQuery(q) /\ up' = up /\ ResolvedRemote(q) = None
      /\ OpenRemote(cache, Unspec, src, qctx[q].header, to)
  BY DEF ResolveNew
<1>2. src \in Srcs /\ SocketInv /\ QueryInv /\ Unspec \in Fams
  BY <1>1 DEF IInv, QueryInv, Fams
<1>3. k \notin Keys(cache)
  BY <1>1, <1>2, MissIsNew DEF ResolvedRemote
<1>4. \E p \in DOMAIN Waits : Waits[p] = src /\ Table!Served(p)
  BY <1>1, <1>2, EndServes
<1>5. k \in Names
  BY <1>2 DEF hash_key, Names, Fams
<1> HIDE DEF to, src
<1>6. PICK s \in Remotes : Table!NewSocket(k, s)
  BY <1>1, <1>2, <1>3, <1>4, OpenMaps
<1> HIDE DEF k
<1>7. k \in Table!Names
  BY <1>2, <1>5, TableTerms
<1> QED
  BY <1>6, <1>7 DEF Table!Next

LEMMA HitMaps ==
    ASSUME IInv, up, NEW src \in Srcs, NEW h \in Headers, ServerRecvHit(src, h)
    PROVE  Table!Next
<1> DEFINE k == hash_key(Parsed(h).fam, src)
           r == Hit(Parsed(h).fam, src)
<1>1. SocketInv /\ r # None /\ cache' = cache_lookup(cache, k)
      /\ SendTo(r, src, h, ForwardTo(r, h))
      /\ up' = up /\ pending' = pending /\ qctx' = qctx
  BY DEF IInv, ServerRecvHit, queries
<1>2. k \in Keys(cache) /\ k \in Names /\ k[2] = src /\ ctx[r].src = src
  BY <1>1, HitName, HitIsOwn DEF hash_key
<1> HIDE DEF k, r
<1>3. /\ TableOf(cache') = TableOf(cache) /\ Before(cache') = Table!Heard(k)
      /\ k \in Table!Opened /\ k \in Table!Names
  BY <1>1, <1>2, LookupTable, TableTerms
<1>4. Relayed(last') \in {Table!Out(k[2], k[2]), Table!Nothing}
  BY <1>1, <1>2, RelayedIs DEF SendTo
<1>5. Waits' = Waits
  BY <1>1 DEF Waits
<1>6. Table!Packet(k)
  BY <1>1, <1>3, <1>4, <1>5, Zenon DEF Table!Packet, Waits
<1> QED
  BY <1>3, <1>6 DEF Table!Next

(* A packet with a name has to wait. *)
LEMMA NameMaps ==
    ASSUME IInv, up, NEW src \in Srcs, NEW h \in Headers,
           ServerRecvName(src, h) \/ ServerRecvOtherName(src, h)
    PROVE  Table!Next
<1> DEFINE k == hash_key(Unspec, src)
<1>1. /\ SocketInv /\ QueryInv /\ up' = up /\ last' = Nothing
      /\ \E r : StartQuery(src, h, r)
  BY DEF IInv, ServerRecvName, ServerRecvOtherName
<1>2. PICK q \in Queries :
        /\ q \notin DOMAIN Waits
        /\ Waits' = [p \in DOMAIN Waits \cup {q} |-> IF p = q THEN src ELSE Waits[p]]
  BY <1>1, StartWaits
<1>3. k \in Names /\ k[2] = src
  BY DEF hash_key, Names
<1>4. \/ cache' = cache /\ k \notin Keys(cache)
      \/ cache' = cache_lookup(cache, k) /\ k \in Keys(cache)
  <2>1. CASE ServerRecvName(src, h)
    <3>1. Parsed(h).fam = Unspec /\ Hit(Unspec, src) = None /\ cache' = cache
      BY <2>1 DEF ServerRecvName
    <3> QED
      BY <1>1, <3>1, MissIsNew
  <2>2. CASE ServerRecvOtherName(src, h)
    <3> DEFINE r == Hit(Parsed(h).fam, src)
    <3>1. /\ r # None /\ ForwardTo(r, h).fam = Unspec
          /\ cache' = cache_lookup(cache, k)
      BY <2>2 DEF ServerRecvOtherName
    <3>2. r \in live
      BY <1>1, <3>1, HitIsOwn
    <3>3. ctx[r].dst.fam # Unspec
      BY <1>1, <3>2 DEF SocketInv, InUse, Addresses, Families, Unspec
    <3>4. Parsed(h).fam = Unspec
      BY <3>1, <3>3 DEF ForwardTo
    <3>5. k \in Keys(cache)
      BY <1>1, <3>1, <3>4, HitName
    <3> QED
      BY <3>1, <3>5
  <2> QED
    BY <2>1, <2>2
<1> HIDE DEF k
<1>5. /\ TableOf(cache') = TableOf(cache) /\ k \in Table!Names
      /\ Before(cache') = IF k \in Table!Opened THEN Table!Heard(k) ELSE Before(cache)
  BY <1>1, <1>3, <1>4, LookupTable, TableTerms
<1>6. Relayed(last') = Table!Nothing
  BY <1>1, RelayedIs
<1>7. Waits' = [p \in DOMAIN Waits \cup {q} |-> IF p = q THEN k[2] ELSE Waits[p]]
  BY <1>2, <1>3
<1>8. Table!Park(k, q)
  BY <1>1, <1>2, <1>5, <1>6, <1>7, Zenon DEF Table!Park, Waits
<1> QED
  BY <1>5, <1>8 DEF Table!Next
(* A packet that has waited. *)
LEMMA LostMaps ==
    ASSUME IInv, up, NEW q \in pending, EndQuery(q), last' = Nothing,
           UNCHANGED <<up, cache, remotes>>
    PROVE  Table!Next
<1>1. QueryInv /\ q \in Queries
  BY DEF IInv, QueryInv
<1>2. Table!Served(q) /\ q \in DOMAIN Waits
  BY <1>1, EndServes
<1>3. Relayed(last') = Table!Nothing
  BY RelayedIs
<1>4. Table!Lost(q)
  BY <1>2, <1>3 DEF Table!Lost, Waits
<1> QED
  BY <1>1, <1>4 DEF Table!Next

LEMMA AnsweredMaps ==
    ASSUME IInv, up, NEW q \in Queries, NEW fam \in Families, ResolveHit(q, fam)
    PROVE  Table!Next
<1> DEFINE r == ResolvedRemote(q)
           k == TimeoutKey(r)
           key == hash_key(Unspec, qctx[q].src)
           to == [fam |-> fam, host |-> qctx[q].header.host]
<1>1. /\ SocketInv /\ QueryInv /\ OwnInv /\ q \in pending /\ r \in live
      /\ cache' = IF qctx[q].remote # None THEN cache ELSE cache_lookup(cache, key)
      /\ SendTo(r, qctx[q].src, qctx[q].header, to)
      /\ EndQuery(q) /\ up' = up
  BY DEF IInv, ResolveHit
<1>2. /\ Patient => ctx[r].src = qctx[q].src
      /\ cache' = cache \/ cache' = cache_lookup(cache, k)
  <2>1. CASE qctx[q].remote # None
    BY <1>1, <2>1 DEF OwnInv, ResolvedRemote
  <2>2. CASE qctx[q].remote = None
    <3>1. r = Hit(Unspec, qctx[q].src)
      BY <2>2 DEF ResolvedRemote
    <3>2. r # None
      BY <1>1, NoneAssumption DEF SocketInv
    <3>3. ctx[r].af = Unspec /\ ctx[r].src = qctx[q].src
      BY <1>1, <3>1, <3>2, HitIsOwn
    <3>4. k = key
      BY <3>3 DEF TimeoutKey
    <3> QED
      BY <1>1, <2>2, <3>3, <3>4
  <2> QED
    BY <2>1, <2>2
<1>3. k \in Keys(cache) /\ k \in Names /\ k[2] = ctx[r].src
  BY <1>1, SocketName
<1> HIDE DEF k, r
<1>4. /\ TableOf(cache') = TableOf(cache) /\ Before(cache') \in {Before(cache), Table!Heard(k)}
      /\ k \in Table!Opened /\ k \in Table!Names
  BY <1>1, <1>2, <1>3, LookupTable, TableTerms
<1>5. Table!Served(q) /\ q \in DOMAIN Waits /\ Waits[q] = qctx[q].src
  BY <1>1, EndServes
<1>6. Relayed(last') \in {Table!Out(Waits[q], k[2]), Table!Nothing}
  BY <1>1, <1>3, <1>5, RelayedIs DEF SendTo
<1>7. Patient => Waits[q] = k[2]
  BY <1>2, <1>3, <1>5
<1>8. Table!Late(q, k)
  BY <1>1, <1>4, <1>5, <1>6, <1>7, Zenon DEF Table!Late, Waits
<1> QED
  BY <1>4, <1>8 DEF Table!Next

(* A socket's own callbacks. *)
LEMMA TimeoutMaps ==
    ASSUME IInv, up, NEW r \in Remotes, RemoteTimeout(r)
    PROVE  Table!Next
<1> DEFINE k == TimeoutKey(r)
           f == [TableOf(cache) EXCEPT ![k] = None]
<1>1. /\ SocketInv /\ r \in live /\ cache' = cache_remove(cache, k) /\ last' = Nothing
      /\ up' = up /\ pending' = pending /\ qctx' = qctx
  BY FiledEntries DEF IInv, RemoteTimeout, queries
<1>2. k \in Keys(cache) /\ k \in Names /\ cache \in Seq(Entry) /\ Distinct(cache)
  BY <1>1, SocketName, FiledEntries DEF SocketInv
<1> HIDE DEF k
<1>3. PICK x \in Range(cache) :
        /\ x.key = k /\ cache' \in Seq(Entry) /\ Distinct(cache')
        /\ Range(cache') = Range(cache) \ {x}
  BY <1>1, <1>2, RemoveProperties
<1>4. /\ \A t \in Range(cache) : TableOf(cache)[t.key] = t.data
      /\ \A j \in Names \ Keys(cache) : TableOf(cache)[j] = None
  BY <1>2, TableEntries
<1>5. TableOf(cache) = [j \in Names |-> TableOf(cache)[j]]
  BY DEF TableOf
<1>6. f = [j \in Names |-> f[j]] /\ f[k] = None
      /\ \A j \in Names \ {k} : f[j] = TableOf(cache)[j]
  BY <1>2, <1>5
<1>7. \A t \in Range(cache) : t.key \in Names /\ (t.key = k => t = x)
  BY <1>1, <1>3, KeysOfEntries, TableTerms, FiledEntries
<1>8. Keys(cache') = Keys(cache) \ {k}
  BY <1>3, <1>7, KeysOfEntries
<1> HIDE DEF f
<1>9. TableOf(cache') = f
  <2>1. \A t \in Range(cache') : f[t.key] = t.data
    BY <1>3, <1>4, <1>6, <1>7
  <2>2. \A j \in Names \ Keys(cache') : f[j] = None
    BY <1>4, <1>6, <1>8
  <2> QED
    BY <1>3, <1>6, <2>1, <2>2, TableIs
<1>10. Before(cache') = Table!Without({k}) /\ k \in Table!Opened /\ k \in Table!Names
  BY <1>1, <1>2, RemoveOrder, TableTerms
<1>11. Relayed(last') = Table!Nothing /\ Waits' = Waits
  BY <1>1, RelayedIs DEF Waits
<1>12. Table!Expire(k)
  BY <1>1, <1>9, <1>10, <1>11, Zenon DEF Table!Expire, Waits, f
<1> QED
  BY <1>10, <1>12 DEF Table!Next

LEMMA ReplyMaps ==
    ASSUME IInv, up, NEW r \in Remotes, NEW from, RemoteRecv(r, from)
    PROVE  Table!Next
<1> DEFINE k == TimeoutKey(r)
<1>1. /\ SocketInv /\ r \in live /\ last' = Replied(ctx[r].src, ReplyHeader(r, from))
      /\ up' = up /\ cache' = cache /\ pending' = pending /\ qctx' = qctx
  BY FiledEntries DEF IInv, RemoteRecv, queries
<1>2. k \in Table!Opened /\ k \in Table!Names /\ k[2] = ctx[r].src
  BY <1>1, SocketName, TableTerms
<1> HIDE DEF k
<1>3. Relayed(last') = Table!Back(k[2]) /\ Waits' = Waits
  BY <1>1, <1>2, RelayedIs DEF Waits
<1>4. Table!Reply(k)
  BY <1>1, <1>2, <1>3, Zenon DEF Table!Reply, Waits
<1> QED
  BY <1>2, <1>4 DEF Table!Next

(* The table of an empty cache. *)
LEMMA NoTable ==
    TableOf(<<>>) = [k \in Names |-> None] /\ Before(<<>>) = {}
<1>1. Keys(<<>>) = {}
  BY DEF Keys
<1> QED
  BY <1>1 DEF TableOf, Before

LEMMA StopMaps ==
    ASSUME up, Shutdown
    PROVE  Table!Next
<1>1. up' = FALSE /\ cache' = <<>> /\ pending' = {} /\ last' = Nothing
  BY DEF Shutdown
<1>2. DOMAIN Waits' = {}
  BY <1>1 DEF Waits
<1>3. Table!Names = Names
  BY DEF Table!Names, Names
<1>4. Table!Stop
  BY <1>1, <1>2, <1>3, NoTable, RelayedIs DEF Table!Stop, Waits
<1> QED
  BY <1>4 DEF Table!Next
LEMMA StepMaps ==
    ASSUME IInv, Next
    PROVE  Table!Next
<1>1. CASE ClientPacket
  <2>1. PICK src \in Srcs, h \in Headers :
          \/ ServerRecvHit(src, h)
          \/ ServerRecvOtherName(src, h)
          \/ ServerRecvNew(src, h)
          \/ ServerRecvName(src, h)
    BY <1>1 DEF ClientPacket
  <2>2. up
    BY <2>1 DEF ServerRecvHit, ServerRecvOtherName, ServerRecvNew, ServerRecvName
  <2> QED
    BY <2>1, <2>2, HitMaps, NameMaps, NewMaps
<1>2. ASSUME NEW q \in Queries, Answer(q) PROVE Table!Next
  <2>1. CASE ResolveFails(q) \/ ResolveStale(q) \/ ResolveDrop(q)
    <3>1. up /\ q \in pending /\ EndQuery(q) /\ last' = Nothing /\ UNCHANGED <<up, cache, remotes>>
      BY <2>1 DEF ResolveFails, ResolveStale, ResolveDrop
    <3> QED
      BY <3>1, LostMaps
  <2>2. ASSUME NEW fam \in Families, ResolveHit(q, fam) \/ ResolveNew(q, fam)
        PROVE  Table!Next
    <3>1. up
      BY <2>2 DEF ResolveHit, ResolveNew
    <3> QED
      BY <2>2, <3>1, AnsweredMaps, AnsweredNewMaps
  <2> QED
    BY <1>2, <2>1, <2>2 DEF Answer
<1>3. ASSUME NEW r \in Remotes, RemoteTimeout(r) PROVE Table!Next
  <2>1. up
    BY <1>3 DEF RemoteTimeout
  <2> QED
    BY <1>3, <2>1, TimeoutMaps
<1>4. ASSUME NEW r \in Remotes, NEW from \in [fam : Families, host : Hosts],
             RemoteRecv(r, from)
      PROVE  Table!Next
  <2>1. up
    BY <1>4 DEF RemoteRecv
  <2> QED
    BY <1>4, <2>1, ReplyMaps
<1>5. CASE Shutdown
  <2>1. up
    BY <1>5 DEF Shutdown
  <2> QED
    BY <1>5, <2>1, StopMaps
<1> QED
  BY <1>1, <1>2, <1>3, <1>4, <1>5 DEF Next

(***************************************************************************)
(* Whatever the network, the resolver and the timers do, the relay is a    *)
(* table of one socket for each client and kind of destination, whose      *)
(* entries end by their own timer or, when the table is about to be full,  *)
(* in the order in which their clients fell silent (udprelay.c 549-596,    *)
(* cache.c 208-306).                                                       *)
(***************************************************************************)
THEOREM Refinement == Spec => IsNat
<1>1. Init => Table!Init
  <2> SUFFICES ASSUME Init PROVE Table!Init
    OBVIOUS
  <2>1. up = TRUE /\ cache = <<>> /\ pending = {} /\ last = Nothing
    BY DEF Init
  <2>2. DOMAIN Waits = {} /\ Table!Names = Names
    BY <2>1 DEF Waits, Table!Names, Names
  <2> QED
    BY <2>1, <2>2, NoTable, RelayedIs DEF Table!Init, Waits
<1>2. IInv /\ [Next]_vars => [Table!Next]_(Table!vars)
  <2>1. CASE UNCHANGED vars
    BY <2>1 DEF vars, Table!vars
  <2> QED
    BY <2>1, StepMaps
<1> QED
  BY <1>1, <1>2, Inductive, PTL DEF Spec, IsNat, Table!Spec
=============================================================================
