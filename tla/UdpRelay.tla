------------------------------ MODULE UdpRelay ------------------------------
(***************************************************************************)
(* The UDP relay of the shadowsocksr server (udprelay.c built with         *)
(* MODULE_REMOTE, over cache.c).  A client is known by its source address. *)
(* Its packets leave through a remote_ctx, a socket found in conn_cache    *)
(* under the address family of the destination (AF_UNSPEC for a name) and  *)
(* the client's address; a name is resolved first, and the query_ctx that  *)
(* waits for the answer may hold a pointer to the client's remote_ctx.     *)
(* One libev or udns callback is one action.                               *)
(***************************************************************************)
EXTENDS LruCache, FiniteSets

CONSTANTS Srcs,    \* source addresses of clients
          Hosts,   \* destinations: each has an IPv4, an IPv6 address, a name
          Nowhere, \* the address :: that a failed conversion leaves
          Remotes, \* the places in memory a remote_ctx can have
          Queries, \* the places in memory a query_ctx can have
          Max,     \* MAX_UDP_CONN_NUM
          Patient, \* no socket is closed while a query points to it
          None     \* NULL

ASSUME MaxAssumption == Max \in Nat /\ Max >= 2
ASSUME PatientAssumption == Patient \in BOOLEAN
ASSUME NoneAssumption == None \notin Remotes

Unspec == "unspec"
Families == {"v4", "v6"}
Addresses == [fam : Families, host : Hosts \cup {Nowhere}]

\* "lit6" is a name that spells an IPv6 address.
Headers == [kind : {"v4", "v6", "name", "lit6"}, host : Hosts]

VARIABLES
  up,      \* the relay's socket is watched
  cache,   \* server_ctx->conn_cache
  ctx,     \* the contents of each remote_ctx
  live,    \* the remote_ctx that are allocated
  watched, \* those whose io and timer libev runs
  pending, \* the query_ctx udns has not answered
  qctx,    \* the contents of a query_ctx
  last     \* history: what the latest callback relayed, if anything

vars == <<up, cache, ctx, live, watched, pending, qctx, last>>
remotes == <<ctx, live, watched>>
queries == <<pending, qctx>>

NoCtx == [af |-> Unspec, src |-> None, header |-> None, dst |-> None, fam |-> None]
NoQuery == [src |-> None, header |-> None, remote |-> None]
Nothing == [way |-> "none"]
Sent(src, h, owner, to) == [way |-> "out", src |-> src, header |-> h, owner |-> owner, to |-> to]
Replied(src, h) == [way |-> "back", client |-> src, header |-> h]

-----------------------------------------------------------------------------
\* hash_key.
hash_key(af, src) == <<af, src>>

\* parse_udprealy_header: ss_family and the address it leaves in storage.  A
\* name that spells an IPv6 address is converted with dns_pton(AF_INET, ...),
\* which fails and leaves the address zero.
Parsed(h) ==
  CASE h.kind \in Families -> [fam |-> h.kind, host |-> h.host]
    [] h.kind = "lit6" -> [fam |-> "v6", host |-> Nowhere]
    [] h.kind = "name" -> [fam |-> Unspec, host |-> Nowhere]

HitFamily(af, src) ==
  LET found == {i \in DOMAIN cache : cache[i].key[1] = af} IN
  IF found # {} THEN cache[CHOOSE i \in found : TRUE].data ELSE None

\* cache_lookup, and the comparison of the client's address with the entry's.
Hit(af, src) ==
  LET i == Find(cache, hash_key(af, src)) IN
  IF i # 0 /\ ctx[cache[i].data].src = src THEN cache[i].data ELSE None

\* The remote_ctx that queries point to.
Held == {qctx[q].remote : q \in pending} \ {None}

Spared(freed) == Patient => freed \cap Held = {}

\* ss_free: what the memory holds from now on is of no account.
Cleared(freed) == [r \in Remotes |-> IF r \in freed THEN NoCtx ELSE ctx[r]]

\* sendto on a client's socket: an address of the other family never works.
SendTo(r, src, h, to) ==
  \/ ctx[r].fam = to.fam /\ last' = Sent(src, h, ctx[r].src, to)
  \/ last' = Nothing

\* new_remote, cache_insert and the start of its watchers, once its first
\* datagram is sent; a remote_ctx whose sendto failed is freed at once.
OpenRemote(c, af, src, h, to) ==
  \E r \in Remotes \ live :
    LET e == cache_insert(c, hash_key(af, src), r, Max)
        freed == FreedBy(c, e)
    IN  /\ Spared(freed)
        /\ ctx' = [Cleared(freed) EXCEPT ![r] = [af |-> af, src |-> src, header |-> h,
                                                 dst |-> to, fam |-> to.fam]]
        /\ cache' = e
        /\ live' = (live \ freed) \cup {r}
        /\ watched' = (watched \ freed) \cup {r}
        /\ last' = Sent(src, h, src, to)

\* The start of a query with a pointer to the remote_ctx to use, or None; a
\* name udns refuses is dropped.
StartQuery(src, h, r) ==
  \E q \in Queries \ pending :
    /\ pending' = pending \cup {q}
    /\ qctx' = [qctx EXCEPT ![q] = [src |-> src, header |-> h, remote |-> r]]

\* close_and_free_query.
EndQuery(q) ==
  /\ pending' = pending \ {q}
  /\ qctx' = [qctx EXCEPT ![q] = NoQuery]

-----------------------------------------------------------------------------
(* server_recv_cb, for a packet that decrypts and whose header parses      *)
(* (others are dropped before any state is touched).                       *)

ForwardToCached(r, h) == ctx[r].dst

\* A known client: the cached address if the header is the one the socket
\* was opened for, the parsed one otherwise; either is used at once.
ForwardTo(r, h) == IF ctx[r].header = h THEN ctx[r].dst ELSE Parsed(h)

ServerRecvHit(src, h) ==
  LET r == Hit(Parsed(h).fam, src) IN
  /\ up
  /\ r # None
  /\ cache' = cache_lookup(cache, hash_key(Parsed(h).fam, src))
  /\ ForwardTo(r, h).fam # Unspec
  /\ SendTo(r, src, h, ForwardTo(r, h))
  /\ UNCHANGED <<up, remotes, queries>>

\* A known client and another name than the socket was opened for: need_query.
ServerRecvOtherName(src, h) ==
  LET r == Hit(Parsed(h).fam, src) IN
  /\ up
  /\ r # None
  /\ ForwardTo(r, h).fam = Unspec
  /\ cache' = cache_lookup(cache, hash_key(Unspec, src))
  /\ StartQuery(src, h, r)
  /\ last' = Nothing
  /\ UNCHANGED <<up, remotes>>

\* A new client, or a new family, with an address.
ServerRecvNew(src, h) ==
  LET to == Parsed(h)
      c == cache_lookup(cache, hash_key(to.fam, src))
  IN  /\ up
      /\ Hit(to.fam, src) = None
      /\ to.fam # Unspec
      /\ OpenRemote(c, to.fam, src, h, to)
      /\ UNCHANGED <<up, queries>>

\* A new client with a name.
ServerRecvName(src, h) ==
  /\ up
  /\ Hit(Parsed(h).fam, src) = None
  /\ Parsed(h).fam = Unspec
  /\ StartQuery(src, h, None)
  /\ last' = Nothing
  /\ UNCHANGED <<up, cache, remotes>>

-----------------------------------------------------------------------------
(* query_resolve_cb.                                                       *)

ResolveFails(q) ==
  /\ up
  /\ q \in pending
  /\ EndQuery(q)
  /\ last' = Nothing
  /\ UNCHANGED <<up, cache, remotes>>

ResolvedRemoteNew(q) == qctx[q].remote

\* The remote_ctx of the query, or the one the cache has got meanwhile: its
\* dst_addr is replaced and its addr_header is not.
ResolvedRemote(q) ==
  IF qctx[q].remote # None THEN qctx[q].remote ELSE Hit(Unspec, qctx[q].src)

ResolveHit(q, fam) ==
  LET r == ResolvedRemote(q)
      to == [fam |-> fam, host |-> qctx[q].header.host]
  IN  /\ up
      /\ q \in pending
      /\ r \in live
      /\ cache' = IF qctx[q].remote # None THEN cache
                  ELSE cache_lookup(cache, hash_key(Unspec, qctx[q].src))
      /\ ctx' = [ctx EXCEPT ![r].dst = to]
      /\ SendTo(r, qctx[q].src, qctx[q].header, to)
      /\ EndQuery(q)
      /\ UNCHANGED <<up, live, watched>>

\* The query's pointer is stale: the memory is written and the descriptor
\* number it holds is used, whatever they are by now.
ResolveStale(q) ==
  /\ up
  /\ q \in pending
  /\ qctx[q].remote \in Remotes \ live
  /\ EndQuery(q)
  /\ last' = Nothing
  /\ UNCHANGED <<up, cache, remotes>>

ResolveNew(q, fam) ==
  /\ up
  /\ q \in pending
  /\ ResolvedRemote(q) = None
  /\ EndQuery(q)
  /\ OpenRemote(cache, Unspec, qctx[q].src, qctx[q].header,
                [fam |-> fam, host |-> qctx[q].header.host])
  /\ UNCHANGED up

\* No socket, or its first sendto failed: the packet is dropped.
ResolveDrop(q) ==
  /\ up
  /\ q \in pending
  /\ ResolvedRemote(q) = None
  /\ EndQuery(q)
  /\ last' = Nothing
  /\ UNCHANGED <<up, cache, remotes>>

-----------------------------------------------------------------------------
(* The remote_ctx's own callbacks.                                         *)

\* The header remote_recv_cb puts before a reply: the sender's address on a
\* socket opened for an address, the name on one opened for a name.
ReplyHeader(r, from) ==
  IF ctx[r].af \in Families THEN [kind |-> from.fam, host |-> from.host] ELSE ctx[r].header

\* remote_recv_cb; a datagram that is too long or not encrypted is dropped.
RemoteRecv(r, from) ==
  /\ up
  /\ r \in watched
  /\ from.fam = ctx[r].fam
  /\ last' = Replied(ctx[r].src, ReplyHeader(r, from))
  /\ UNCHANGED <<up, cache, remotes, queries>>

TimeoutKeyUnspec(r) == hash_key(Unspec, ctx[r].src)

\* remote_timeout_cb: what it closes is what the cache has under the key.
TimeoutKey(r) == hash_key(ctx[r].af, ctx[r].src)

RemoteTimeout(r) ==
  LET e == cache_remove(cache, TimeoutKey(r))
      freed == FreedBy(cache, e)
  IN  /\ up
      /\ r \in watched
      /\ Spared(freed)
      /\ cache' = e
      /\ live' = live \ freed
      /\ watched' = watched \ freed
      /\ ctx' = Cleared(freed)
      /\ last' = Nothing
      /\ UNCHANGED <<up, queries>>

\* free_udprelay and resolv_shutdown, after the loop has ended.
Shutdown ==
  /\ up
  /\ up' = FALSE
  /\ cache' = <<>>
  /\ live' = live \ Data(cache)
  /\ watched' = watched \ Data(cache)
  /\ ctx' = Cleared(Data(cache))
  /\ pending' = {}
  /\ qctx' = [q \in Queries |-> NoQuery]
  /\ last' = Nothing

-----------------------------------------------------------------------------
Init ==
  /\ up = TRUE
  /\ cache = <<>>
  /\ ctx = [r \in Remotes |-> NoCtx]
  /\ live = {}
  /\ watched = {}
  /\ pending = {}
  /\ qctx = [q \in Queries |-> NoQuery]
  /\ last = Nothing

ClientPacket ==
  \E src \in Srcs, h \in Headers :
    \/ ServerRecvHit(src, h)
    \/ ServerRecvOtherName(src, h)
    \/ ServerRecvNew(src, h)
    \/ ServerRecvName(src, h)

Answer(q) ==
  \/ ResolveFails(q)
  \/ ResolveStale(q)
  \/ ResolveDrop(q)
  \/ \E fam \in Families : ResolveHit(q, fam) \/ ResolveNew(q, fam)

Next ==
  \/ ClientPacket
  \/ \E q \in Queries : Answer(q)
  \/ \E r \in Remotes : RemoteTimeout(r)
  \/ \E r \in Remotes, from \in [fam : Families, host : Hosts] : RemoteRecv(r, from)
  \/ Shutdown

Spec == Init /\ [][Next]_vars

\* udns answers every query or gives up on it; a socket nobody uses times out.
Fairness ==
  /\ \A q \in Queries : WF_vars(Answer(q))
  /\ \A r \in Remotes : WF_vars(RemoteTimeout(r))

FairSpec == Spec /\ Fairness

-----------------------------------------------------------------------------
(* Properties.                                                             *)

\* The type invariant: contexts in use are filled in, and an insertion always
\* finds room below the capacity of the cache.
TypeOK ==
  /\ up \in BOOLEAN
  /\ cache \in Seq([key : (Families \cup {Unspec}) \X Srcs, data : Remotes])
  /\ Len(cache) < Max
  /\ live \in SUBSET Remotes /\ watched \in SUBSET Remotes
  /\ pending \in SUBSET Queries
  /\ \A r \in live :
       /\ ctx[r].af \in Families \cup {Unspec} /\ ctx[r].src \in Srcs
       /\ ctx[r].header \in Headers /\ ctx[r].dst \in Addresses
       /\ ctx[r].fam \in Families
  /\ \A q \in pending :
       /\ qctx[q].src \in Srcs /\ qctx[q].header \in Headers
       /\ qctx[q].remote \in Remotes \cup {None}

(***************************************************************************)
(* A client has at most one socket per address family although             *)
(* cache_insert does not look for the key and any number of its queries    *)
(* may be answered after the first of them opened a socket.                *)
(***************************************************************************)
OneSocketPerClient ==
  \A i, j \in DOMAIN cache : cache[i].key = cache[j].key => i = j

(***************************************************************************)
(* Every socket is in the cache, watched, and filed under the key its own  *)
(* timer computes: no socket outlives its entry and a timeout closes the   *)
(* socket whose timer it is, never another client's.                       *)
(***************************************************************************)
SocketsFiled ==
  /\ live = Data(cache)
  /\ watched = live
  /\ \A i \in DOMAIN cache : cache[i].key = TimeoutKey(cache[i].data)

(***************************************************************************)
(* As long as neither a timeout nor an eviction strikes a socket that a    *)
(* query points to, the answer finds the socket of the client that asked   *)
(* (udprelay.c 568-592, 1312-1330).  Nothing in udprelay.c prevents them,  *)
(* and then the pointer is stale.                                          *)
(***************************************************************************)
QueriesHoldTheirOwn ==
  Patient => \A q \in pending :
    qctx[q].remote # None => /\ qctx[q].remote \in live
                             /\ ctx[qctx[q].remote].src = qctx[q].src

(***************************************************************************)
(* A client's packet leaves through its own socket, so that the answers    *)
(* remote_recv_cb returns to the socket's client reach the one that asked, *)
(* and one that gives its destination as an address goes to that address,  *)
(* whatever the same client has sent through the same socket before        *)
(* (udprelay.c 1235-1262), again unless a query's socket was closed.       *)
(***************************************************************************)
AddressesRespected ==
  Patient /\ last.way = "out" =>
    /\ last.src = last.owner
    /\ last.header.kind \in Families =>
         last.to = [fam |-> last.header.kind, host |-> last.header.host]

(***************************************************************************)
(* When clients fall silent, every socket and every query is given back.   *)
(***************************************************************************)
EventuallyIdle ==
  <>[][~ClientPacket]_vars => <>[](live = {} /\ pending = {})

-----------------------------------------------------------------------------
(* The refinement.                                                         *)

Names == (Families \cup {Unspec}) \X Srcs

TableOf(c) ==
  [k \in Names |-> IF k \in Keys(c) THEN c[Find(c, k)].data ELSE None]

\* The cache keeps the order in which its clients were last heard.
Before(c) ==
  {p \in Keys(c) \X Keys(c) :
     \E i, j \in DOMAIN c : i < j /\ p = <<c[i].key, c[j].key>>}

Relayed(l) ==
  CASE l.way = "out" -> [way |-> "out", client |-> l.src, owner |-> l.owner]
    [] l.way = "back" -> [way |-> "back", client |-> l.client]
    [] l.way = "none" -> [way |-> "none"]

Table == INSTANCE UdpNat WITH
          Kinds <- Families \cup {Unspec}, Clients <- Srcs, Sockets <- Remotes,
          Places <- Queries, table <- TableOf(cache), older <- Before(cache),
          waiting <- [q \in pending |-> qctx[q].src], relayed <- Relayed(last)

(***************************************************************************)
(* The relay is the table of associations of UdpNat, whatever the network, *)
(* the resolver and the timers do: the query's pointer or the second look  *)
(* at the cache (udprelay.c 576-596), the key of the timer (549-561), the  *)
(* order of the hash table and the comparison of its count after the       *)
(* insertion (cache.c 208-229, 291) add up to one socket per client and    *)
(* the eviction of the client that was silent for longest.                 *)
(***************************************************************************)
IsNat == Table!Spec
=============================================================================
