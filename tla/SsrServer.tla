----------------------------- MODULE SsrServer -----------------------------
(***************************************************************************)
(* One proxied TCP connection of the shadowsocksr server (server.c and     *)
(* resolv.c): the client's connection (server_t), the connection to the    *)
(* destination (remote_t), the DNS query between them, and the libev       *)
(* callbacks that act on them.  The event loop runs one callback at a time *)
(* and a callback is one action; which watcher fires next is arbitrary.    *)
(*                                                                         *)
(* The client's stream is IvLen bytes of IV, a header of HdrLen bytes and  *)
(* Payload bytes for the destination; the destination answers Reply bytes. *)
(* A byte is named by its position, so a buffer holds a run of one stream  *)
(* and is the position of array[0] with the idx and len of buffer_t.       *)
(***************************************************************************)
EXTENDS Naturals, Sequences, FiniteSets

CONSTANTS IvLen,     \* enc_get_iv_len()
          HdrLen,    \* bytes of the address header
          Payload,   \* bytes the client sends behind the header
          Reply,     \* bytes the destination sends
          BufSize,   \* BUF_SIZE
          FastOpen,  \* fast_open, as configured
          MaxTries   \* MAX_TRIES of the block list

ASSUME LenAssumption ==
  /\ IvLen \in Nat /\ HdrLen \in Nat \ {0} /\ Payload \in Nat /\ Reply \in Nat
  /\ BufSize \in Nat /\ BufSize > IvLen + 1
  /\ FastOpen \in BOOLEAN
  /\ MaxTries \in Nat \ {0}

VARIABLES
  running,   \* ev_run has not returned
  fast_open, \* the global, cleared when the kernel refuses MSG_FASTOPEN
  strikes,   \* the client's count in block_list, 0 when it is not listed
  kind,      \* the client's header: "ip", "name" or "bad"
  srv,       \* the server_t of the connection exists
  stage,     \* server->stage
  buf,       \* server->buf: the client's bytes until STREAM, the answer then
  hdr,       \* server->header_buf->len
  rem,       \* the remote_t exists, and server->remote points to it
  rbuf,      \* remote->buf
  connected, \* remote->send_ctx->connected
  query,     \* server->query is not NULL
  asked,     \* the queries of the ResolvQuery udns has not answered
  found,     \* ResolvQuery.response_count > 0
  active,    \* the watchers libev runs
  wire,      \* bytes of the client's stream the server has received
  out,       \* bytes behind the IV that decryption and plugins have released
  toRemote,  \* payload bytes the destination got, in order
  got,       \* bytes received from the destination
  toClient   \* bytes of the answer the client got, in order

global == <<running, fast_open, strikes>>
server == <<kind, srv, stage, buf, hdr, wire, out>>
remote == <<rem, rbuf, connected>>
resolver == <<query, asked, found>>
ghost == <<toRemote, got, toClient>>

vars == <<running, fast_open, strikes, kind, srv, stage, buf, hdr, rem, rbuf, connected,
          query, asked, found, active, wire, out, toRemote, got, toClient>>

Stages == {"ERROR", "INIT", "HANDSHAKE", "PARSE", "RESOLVE", "STREAM"}
Kinds == {"ip", "name", "bad"}
Queries == {"A", "AAAA"}
ServerWatchers == {"server_recv", "server_send", "timer"}
RemoteWatchers == {"remote_recv", "remote_send"}
Buffers == [first : Nat, idx : Nat, len : Nat]
Empty == [first |-> 0, idx |-> 0, len |-> 0]

Bytes(a, n) == [i \in 1..n |-> a + i - 1]

-----------------------------------------------------------------------------
(* Freeing, and what close_and_free_... leaves behind.                     *)

CloseServerLeavesQuery ==
  /\ srv' = FALSE
  /\ query' = FALSE
  /\ asked' = asked

\* close_and_free_server: cancels the query, stops the watchers and the timer.
CloseServer ==
  /\ srv' = FALSE
  /\ query' = FALSE
  /\ asked' = IF query THEN {} ELSE asked

CloseRemote ==
  /\ rem' = FALSE
  /\ connected' = FALSE

\* The server_t and its buffers are gone.
Freed ==
  /\ stage' = "INIT"
  /\ buf' = Empty
  /\ hdr' = 0
  /\ found' = FALSE
  /\ UNCHANGED <<kind, wire, out>>

\* close_and_free_remote(remote); close_and_free_server(server), either order.
CloseBoth ==
  /\ CloseServer
  /\ CloseRemote
  /\ rbuf' = Empty
  /\ active' = {}
  /\ Freed

\* close_and_free_server alone: a remote, if there is one, keeps its watchers.
CloseServerOnly ==
  /\ CloseServer
  /\ active' = active \ ServerWatchers
  /\ Freed
  /\ UNCHANGED remote

-----------------------------------------------------------------------------
(* acl.c, for the one address the client has: update_block_list (the first *)
(* offence counts 1 whatever its level, and a blocked address stays where  *)
(* it is), remove_from_block_list and clear_block_list.                    *)

MALICIOUS == 8
SUSPICIOUS == 4
BAD == 2
MALFORMED == 1

Reported(level) ==
  IF strikes = 0 THEN 1
  ELSE IF strikes > MaxTries THEN strikes
  ELSE strikes + level

report_addr(level) == strikes' = Reported(level)

reset_addr == strikes' = 0

\* block_list_clear_cb: an entry older than an hour goes.
ClearBlockList ==
  /\ running
  /\ strikes > 0
  /\ strikes' = 0
  /\ UNCHANGED <<running, fast_open, server, remote, resolver, active, ghost>>

-----------------------------------------------------------------------------
(* What an ev_io_stop and the ev_io_start behind it leave, and what send    *)
(* leaves of n bytes from position first when the socket took s of them.    *)

SwitchWithoutStart(stop, start) == active \ {stop}

Switch(stop, start) == (active \ {stop}) \cup {start}

FilledKeepsIdx(old, first, n, s) ==
  [first |-> first, idx |-> old.idx, len |-> IF s < n THEN n - s ELSE n]

Filled(old, first, n, s) ==
  IF s < n THEN [first |-> first, idx |-> s, len |-> n - s]
           ELSE [first |-> first, idx |-> old.idx, len |-> n]

Advance(b, n) == [b EXCEPT !.idx = @ + n, !.len = @ - n]

-----------------------------------------------------------------------------
(* accept_cb and new_server.                                               *)

NewWatchersNoTimer == {"server_recv"}

\* The watchers accept_cb starts.
NewWatchers == {"server_recv", "timer"}

Accept ==
  /\ running
  /\ ~srv
  /\ ~rem
  /\ strikes <= MaxTries
  /\ kind' \in Kinds
  /\ srv' = TRUE
  /\ stage' = "INIT"
  /\ buf' = Empty
  /\ hdr' = 0
  /\ wire' = 0
  /\ out' = 0
  /\ active' = NewWatchers
  /\ query' = FALSE
  /\ toRemote' = <<>>
  /\ toClient' = <<>>
  /\ got' = 0
  /\ UNCHANGED <<global, remote, asked, found>>

-----------------------------------------------------------------------------
(* connect_to_remote: with fast_open the first n bytes of server->buf go    *)
(* out with the SYN (n = 0 for every error), otherwise connect.  It leaves  *)
(* what it did not send behind idx.                                         *)

Sendable(b) == IF fast_open THEN 0..b.len ELSE {0}

\* EOPNOTSUPP and its like turn fast open off for every later connection.
FastOpenOutcome(n) ==
  \/ fast_open' = fast_open
  \/ n = 0 /\ fast_open' = FALSE

\* new_remote, and the copy of the unsent bytes into remote->buf.  from is
\* the position in the stream of the byte the copy starts with.
NewRemote(b, n, from) ==
  LET left == Advance(b, n) IN
  /\ rem' = TRUE
  /\ connected' = FALSE
  /\ rbuf' = IF left.len > 0 THEN [first |-> from, idx |-> 0, len |-> left.len]
                             ELSE Empty
  /\ buf' = IF left.len > 0 THEN [left EXCEPT !.idx = 0, !.len = 0] ELSE left
  /\ toRemote' = toRemote \o Bytes(b.first - HdrLen + b.idx, n)

-----------------------------------------------------------------------------
(* server_recv_cb.                                                          *)

ClientHas(n) == wire + n <= IvLen + HdrLen + Payload

\* recv said 0 or failed, a plugin refused the data, the data does not
\* decrypt or, in STAGE_STREAM, a chunk does not match its hash.
ServerRecvClosed ==
  /\ "server_recv" \in active
  /\ CloseBoth
  /\ \/ strikes' = strikes
     \/ stage # "ERROR" /\ report_addr(MALICIOUS)
     \/ stage = "STREAM" /\ report_addr(BAD)
  /\ UNCHANGED <<running, fast_open, ghost>>

\* STAGE_ERROR: everything is read and thrown away.
ServerRecvDiscard ==
  /\ "server_recv" \in active
  /\ stage = "ERROR"
  /\ \E r \in 1..BufSize : ClientHas(r) /\ wire' = wire + r
  /\ buf' = [buf EXCEPT !.idx = 0, !.len = 0]
  /\ UNCHANGED <<global, kind, srv, stage, hdr, remote, resolver, active, out,
                 ghost>>

\* "handle incomplete header part 1": wait for more than the IV and a byte.
ServerRecvWait ==
  /\ "server_recv" \in active
  /\ stage = "INIT"
  /\ \E r \in 1..(BufSize - buf.len) :
       /\ ClientHas(r)
       /\ buf.len + r <= IvLen + 1
       /\ wire' = wire + r
       /\ buf' = [buf EXCEPT !.len = @ + r]
  /\ UNCHANGED <<global, kind, srv, stage, hdr, remote, resolver, active, out,
                 ghost>>

\* r more bytes are in, and decryption and plugins release k of those behind
\* the IV that they hold; the rest stays in the plugin (recv_buffer).
Release(r, k) ==
  /\ "server_recv" \in active
  /\ stage \notin {"ERROR"}
  /\ ClientHas(r)
  /\ stage = "INIT" => buf.len + r > IvLen + 1
  /\ out + k <= wire + r - IvLen

Received(r, k) ==
  /\ wire' = wire + r
  /\ out' = out + k

RecvSizes == 1..(IF stage = "INIT" THEN BufSize - buf.len ELSE BufSize)
ReleaseSizes == 1..(HdrLen + Payload)

\* The plugin keeps everything: needsendback, or post_decrypt returned 0.
ServerRecvHold ==
  /\ \E r \in RecvSizes : Release(r, 0) /\ Received(r, 0)
  /\ IF stage = "STREAM" THEN rbuf' = [rbuf EXCEPT !.len = 0] /\ buf' = buf
                         ELSE buf' = [buf EXCEPT !.len = 0] /\ rbuf' = rbuf
  /\ UNCHANGED <<global, kind, srv, stage, hdr, rem, connected, resolver,
                 active, ghost>>

\* is_header_complete(server->buf) of a fragment that starts with byte first
\* and has k bytes.  A fragment from inside the header is read as if its
\* first byte were the address type, so anything may come out.
is_header_complete(first, k) ==
  IF first > 1 THEN {1, 0, 2}
  ELSE IF kind = "bad" THEN {2}
  ELSE IF k >= HdrLen THEN {1} ELSE {0}
HeaderBad == 2

\* "handle incomplete header part 2": the header is malformed (the error the
\* first fragment shows is reported, a later one is not) or not complete.
ServerRecvHeader ==
  \E r \in RecvSizes : \E k \in ReleaseSizes :
    /\ Release(r, k)
    /\ Received(r, k)
    /\ stage \in {"INIT", "HANDSHAKE"}
    /\ \E ret \in is_header_complete(out + 1, k) \ {1} :
         /\ stage' = IF ret = HeaderBad THEN "ERROR" ELSE "HANDSHAKE"
         /\ IF stage = "INIT" /\ ret = HeaderBad
            THEN hdr' = hdr /\ report_addr(MALFORMED)
            ELSE hdr' = hdr + k /\ strikes' = strikes
    /\ buf' = [buf EXCEPT !.idx = 0, !.len = 0]
    /\ UNCHANGED <<running, fast_open, kind, srv, remote, resolver, active, ghost>>

\* The header is taken for complete: server->buf is all of it, from byte 1.
HeaderTaken(r, k) ==
  /\ Release(r, k)
  /\ stage \in {"INIT", "HANDSHAKE"}
  /\ 1 \in is_header_complete(out + 1, k)

\* What is behind the header, moved to the start of server->buf.
Behind(n) == [first |-> HdrLen + 1, idx |-> 0, len |-> n - HdrLen]

\* STAGE_PARSE and the header does not parse (MALFORMED) or does not verify
\* (BAD); or it names a blocked host, or the address cannot be reached.
ParseFails ==
  \E r \in RecvSizes : \E k \in ReleaseSizes :
    /\ HeaderTaken(r, k)
    /\ CloseServerOnly
    /\ \/ report_addr(MALFORMED) /\ fast_open' = fast_open
       \/ hdr + k >= HdrLen /\ report_addr(BAD) /\ fast_open' = fast_open
       \/ hdr + k >= HdrLen /\ strikes' = strikes
          /\ fast_open' \in {fast_open, FALSE}
    /\ UNCHANGED <<running, ghost>>

\* STAGE_PARSE with an address: connect, and stop reading until connected.
ParseConnect ==
  \E r \in RecvSizes : \E k \in ReleaseSizes :
    /\ HeaderTaken(r, k)
    /\ Received(r, k)
    /\ hdr + k >= HdrLen
    /\ kind = "ip"
    /\ stage' = "PARSE"
    /\ hdr' = 0
    /\ \E n \in Sendable(Behind(hdr + k)) :
         /\ FastOpenOutcome(n)
         /\ NewRemote(Behind(hdr + k), n, HdrLen + 1)
    /\ active' = Switch("server_recv", "remote_send")
    /\ UNCHANGED <<running, strikes, kind, srv, resolver, got, toClient>>

\* STAGE_PARSE with a name: resolv_query; submit is what udns accepted.  When
\* it accepted nothing the query is freed and server->query stays NULL.
ParseQuery ==
  \E r \in RecvSizes : \E k \in ReleaseSizes :
    /\ HeaderTaken(r, k)
    /\ Received(r, k)
    /\ hdr + k >= HdrLen
    /\ kind = "name"
    /\ stage' = "RESOLVE"
    /\ hdr' = 0
    /\ buf' = Behind(hdr + k)
    /\ asked' \in SUBSET Queries
    /\ query' = (asked' # {})
    /\ found' = FALSE
    /\ active' = active \ {"server_recv"}
    /\ UNCHANGED <<global, kind, srv, remote, ghost>>

\* STAGE_STREAM: the bytes go to the destination; what the socket does not
\* take waits for remote_send_cb, and nothing more is received until then.
ServerRecvStream ==
  \E r \in RecvSizes : \E k \in ReleaseSizes : \E s \in 0..k :
    /\ Release(r, k)
    /\ Received(r, k)
    /\ stage = "STREAM"
    /\ toRemote' = toRemote \o Bytes(out + 1 - HdrLen, s)
    /\ rbuf' = Filled(rbuf, out + 1, k, s)
    /\ active' = IF s < k THEN Switch("server_recv", "remote_send") ELSE active
    /\ UNCHANGED <<global, kind, srv, stage, buf, hdr, rem, connected,
                   resolver, got, toClient>>

-----------------------------------------------------------------------------
(* resolv.c: dns_query_v4_cb, dns_query_v6_cb, process_client_callback and  *)
(* server_resolve_cb.                                                       *)

\* One of the two queries is answered, not the last.
DnsAnswer ==
  /\ \E q \in asked :
       /\ asked # {q}
       /\ asked' = asked \ {q}
  /\ found' \in {found, TRUE}
  /\ UNCHANGED <<global, server, remote, query, active, ghost>>

\* The last answer, and no address: the connection is closed.  So it is when
\* connect_to_remote fails.
ResolveFails ==
  /\ \E q \in asked : asked = {q}
  /\ srv' = FALSE
  /\ query' = FALSE
  /\ asked' = {}
  /\ active' = active \ ServerWatchers
  /\ Freed
  /\ fast_open' \in {fast_open, FALSE}
  /\ UNCHANGED <<running, strikes, remote, ghost>>

\* The last answer, with an address among the two.
ResolveConnect ==
  /\ \E q \in asked : asked = {q}
  /\ asked' = {}
  /\ query' = FALSE
  /\ found' = TRUE
  /\ \E n \in Sendable(buf) :
       /\ FastOpenOutcome(n)
       /\ NewRemote(buf, n, buf.first + n)
  /\ active' = active \cup {"remote_send"}
  /\ UNCHANGED <<running, strikes, kind, srv, stage, hdr, wire, out, got,
                 toClient>>

-----------------------------------------------------------------------------
(* remote_send_cb.                                                          *)

\* getpeername or send failed, or the watcher ran with nothing to send.
RemoteSendClosed ==
  /\ "remote_send" \in active
  /\ CloseBoth
  /\ UNCHANGED <<global, ghost>>

\* The first call after connect, with nothing to send.
RemoteConnected ==
  /\ "remote_send" \in active
  /\ ~connected
  /\ rbuf.len = 0
  /\ connected' = TRUE
  /\ reset_addr
  /\ stage' = "STREAM"
  /\ active' = Switch("remote_send", "server_recv") \cup {"remote_recv"}
  /\ UNCHANGED <<running, fast_open, kind, srv, buf, hdr, rem, rbuf, resolver, wire, out,
                 ghost>>

\* s bytes go out.  The last ones start the reading of both ends (that of the
\* destination the first time only).
RemoteSend ==
  /\ "remote_send" \in active
  /\ rbuf.len > 0
  /\ connected' = TRUE
  /\ IF connected THEN strikes' = strikes ELSE reset_addr
  /\ \E s \in 0..rbuf.len :
       /\ toRemote' = toRemote \o Bytes(rbuf.first + rbuf.idx - HdrLen, s)
       /\ IF s < rbuf.len
          THEN /\ rbuf' = Advance(rbuf, s)
               /\ UNCHANGED <<stage, active>>
          ELSE /\ rbuf' = [rbuf EXCEPT !.idx = 0, !.len = 0]
               /\ stage' = "STREAM"
               /\ active' = Switch("remote_send", "server_recv")
                    \cup (IF stage = "STREAM" THEN {} ELSE {"remote_recv"})
  /\ UNCHANGED <<running, fast_open, kind, srv, buf, hdr, rem, resolver, wire, out, got,
                 toClient>>

-----------------------------------------------------------------------------
(* remote_recv_cb and server_send_cb.                                       *)

RemoteRecvClosed ==
  /\ "remote_recv" \in active
  /\ CloseBoth
  /\ UNCHANGED <<global, ghost>>

\* r bytes of the answer come in and the client's socket takes s of them.
RemoteRecv ==
  /\ "remote_recv" \in active
  /\ \E r \in 1..BufSize : \E s \in 0..r :
       /\ got + r <= Reply
       /\ got' = got + r
       /\ toClient' = toClient \o Bytes(got + 1, s)
       /\ buf' = Filled(buf, got + 1, r, s)
       /\ active' = IF s < r THEN Switch("remote_recv", "server_send") ELSE active
  /\ UNCHANGED <<global, kind, srv, stage, hdr, remote, resolver, wire, out,
                 toRemote>>

\* send failed, or the watcher ran with no remote or nothing to send.
ServerSendClosed ==
  /\ "server_send" \in active
  /\ CloseBoth
  /\ UNCHANGED <<global, ghost>>

ServerSend ==
  /\ "server_send" \in active
  /\ rem
  /\ buf.len > 0
  /\ \E s \in 0..buf.len :
       /\ toClient' = toClient \o Bytes(buf.first + buf.idx, s)
       /\ IF s < buf.len
          THEN /\ buf' = Advance(buf, s)
               /\ UNCHANGED active
          ELSE /\ buf' = [buf EXCEPT !.idx = 0, !.len = 0]
               /\ active' = Switch("server_send", "remote_recv")
  /\ UNCHANGED <<global, kind, srv, stage, hdr, remote, resolver, wire, out,
                 toRemote, got>>

-----------------------------------------------------------------------------
(* server_timeout_cb, and the end of main.                                  *)

Timeout ==
  /\ "timer" \in active
  /\ CloseBoth
  /\ IF stage \in {"ERROR", "INIT", "HANDSHAKE"} THEN report_addr(SUSPICIOUS)
                                                ELSE strikes' = strikes
  /\ UNCHANGED <<running, fast_open, ghost>>

\* SIGTERM: ev_run returns, the block list goes and free_connections closes
\* what is left.
Shutdown ==
  /\ running
  /\ running' = FALSE
  /\ strikes' = 0
  /\ CloseBoth
  /\ UNCHANGED <<fast_open, ghost>>

-----------------------------------------------------------------------------
Init ==
  /\ running = TRUE
  /\ fast_open = FastOpen
  /\ strikes = 0
  /\ kind \in Kinds
  /\ srv = FALSE
  /\ stage = "INIT"
  /\ buf = Empty
  /\ hdr = 0
  /\ rem = FALSE
  /\ rbuf = Empty
  /\ connected = FALSE
  /\ query = FALSE
  /\ asked = {}
  /\ found = FALSE
  /\ active = {}
  /\ wire = 0
  /\ out = 0
  /\ toRemote = <<>>
  /\ got = 0
  /\ toClient = <<>>

ServerRecv ==
  \/ ServerRecvClosed
  \/ ServerRecvDiscard
  \/ ServerRecvWait
  \/ ServerRecvHold
  \/ ServerRecvHeader
  \/ ParseFails
  \/ ParseConnect
  \/ ParseQuery
  \/ ServerRecvStream

Resolver == DnsAnswer \/ ResolveFails \/ ResolveConnect

Relay ==
  \/ RemoteSendClosed
  \/ RemoteConnected
  \/ RemoteSend
  \/ RemoteRecvClosed
  \/ RemoteRecv
  \/ ServerSendClosed
  \/ ServerSend

Next ==
  \/ Accept
  \/ ServerRecv
  \/ Resolver
  \/ Relay
  \/ Timeout
  \/ ClearBlockList
  \/ Shutdown

Spec == Init /\ [][Next]_vars

-----------------------------------------------------------------------------
(* What must hold.                                                          *)

\* The types of the state.
TypeOK ==
  /\ running \in BOOLEAN
  /\ fast_open \in BOOLEAN
  /\ strikes \in Nat
  /\ kind \in Kinds
  /\ srv \in BOOLEAN
  /\ stage \in Stages
  /\ buf \in Buffers
  /\ hdr \in Nat
  /\ rem \in BOOLEAN
  /\ rbuf \in Buffers
  /\ connected \in BOOLEAN
  /\ query \in BOOLEAN
  /\ asked \in SUBSET Queries
  /\ found \in BOOLEAN
  /\ active \in SUBSET (ServerWatchers \cup RemoteWatchers)
  /\ wire \in Nat
  /\ out \in Nat
  /\ toRemote \in Seq(Nat)
  /\ got \in Nat
  /\ toClient \in Seq(Nat)

\* No callback can run on freed memory: a watcher or a DNS query outlives
\* neither the server_t nor the remote_t it points to, an unanswered query is
\* the one server->query cancels, and no remote_t is left without its
\* server_t.  (close_and_free_server, close_and_free_remote, resolv_cancel.)
NoStrayCallback ==
  /\ active \cap ServerWatchers # {} => srv
  /\ active \cap RemoteWatchers # {} => rem
  /\ asked # {} => srv /\ query /\ ~rem
  /\ rem => srv

\* server_recv_cb dereferences server->remote when the stage is beyond PARSE,
\* and parses a header again when it is PARSE: it never runs in a stage where
\* the one is NULL or the other was done.
RecvStage ==
  "server_recv" \in active =>
    \/ stage \in {"ERROR", "INIT", "HANDSHAKE"} /\ ~rem
    \/ stage = "STREAM" /\ rem

\* Each end gets the payload the other sent, in order: nothing is left out,
\* doubled or taken from the wrong place of a buffer, however the sockets
\* split what they take (idx and len of the two buffers).
StreamIntact ==
  /\ toRemote = Bytes(1, Len(toRemote))
  /\ toClient = Bytes(1, Len(toClient))

\* A buffer is never received into while it holds unsent bytes: when
\* server_recv_cb (remote_recv_cb) may run, all that was released before is
\* with the destination (the client).
NothingOverwritten ==
  /\ "server_recv" \in active /\ stage = "STREAM" =>
       Len(toRemote) + HdrLen = out
  /\ "remote_recv" \in active => Len(toClient) = got

\* The "close and free" of server_send_cb and remote_send_cb for an empty
\* buffer never hits a connection that only waits: a send watcher runs with
\* something to send, but for the first one of a remote, which tells that the
\* connect succeeded.
NoSpuriousClose ==
  /\ "server_send" \in active => buf.len > 0
  /\ "remote_send" \in active => rbuf.len > 0 \/ ~connected

\* No connection hangs unseen: a live one has its timer, and it reads from
\* the client or waits to send to the destination or for an answer of udns.
\* Only a name udns did not take at all leaves nothing but the timer.
SomebodyWaits ==
  srv => /\ "timer" \in active
         /\ \/ "server_recv" \in active
            \/ "remote_send" \in active
            \/ asked # {}
            \/ stage = "RESOLVE" /\ ~query

-----------------------------------------------------------------------------
(* The event loop serves a descriptor that is ready.                       *)
Fairness ==
  /\ WF_vars(RemoteSend \/ RemoteConnected \/ RemoteSendClosed)
  /\ WF_vars(ServerSend \/ ServerSendClosed)

FairSpec == Spec /\ Fairness

\* What was received for the destination reaches it, or the connection ends;
\* likewise for the client.
Drained ==
  /\ (stage = "STREAM" /\ Len(toRemote) + HdrLen < out)
       ~> (~srv \/ Len(toRemote) + HdrLen = out)
  /\ (Len(toClient) < got /\ srv) ~> (~srv \/ Len(toClient) = got)

\* If the timer expires again and again, as it does when peers fall silent, a
\* connection is closed in whatever stage it is, also while the name is being
\* resolved.  (Drained must hold without the timer's help.)
Reaped == WF_vars(Timeout) => (srv ~> ~srv)

-----------------------------------------------------------------------------
(* The refinement.                                                          *)

Pipe == INSTANCE SsrPipe WITH
          Ends <- {"remote", "client"},
          open <- srv,
          taken <- [e \in {"remote", "client"} |->
                      IF e = "client" THEN got
                      ELSE IF out > HdrLen THEN out - HdrLen ELSE 0],
          given <- [e \in {"remote", "client"} |->
                      IF e = "client" THEN toClient ELSE toRemote]

\* The connection is the pipe of SsrPipe, whatever the sockets, the resolver
\* and the timer do.
IsPipe == Pipe!Spec
=============================================================================
