--------------------------- MODULE SsrServerProof ---------------------------
(***************************************************************************)
(* Proofs about SsrServer, for every length of IV, header, payload, answer *)
(* and buffer.                                                             *)
(*                                                                         *)
(* The inductive invariant says, stage by stage, which watchers run and    *)
(* which objects exist (Shape), and accounts for every byte between the    *)
(* two sockets (Account); without fast open it also says that what a send  *)
(* takes from a buffer is the next byte of the stream (InOrder).           *)
(***************************************************************************)
EXTENDS SsrServer, TLAPS

Early == {"ERROR", "INIT", "HANDSHAKE"}

\* Objects, queries and watchers of each stage.
Shape ==
  /\ ~srv => /\ ~rem /\ ~query /\ asked = {}
             /\ \A w \in ServerWatchers \cup RemoteWatchers : w \notin active
  /\ srv => "timer" \in active
  /\ srv /\ stage \in Early =>
       /\ ~rem /\ ~query /\ asked = {}
       /\ "server_recv" \in active
       /\ \A w \in {"server_send", "remote_recv", "remote_send"} : w \notin active
  /\ srv /\ stage \in {"PARSE", "RESOLVE"} =>
       \A w \in {"server_recv", "server_send", "remote_recv"} : w \notin active
  /\ srv /\ stage = "PARSE" =>
       /\ rem /\ ~query /\ asked = {}
       /\ "remote_send" \in active
  /\ srv /\ stage = "RESOLVE" =>
       /\ rem <=> "remote_send" \in active
       /\ query <=> asked # {}
       /\ rem => asked = {}
  /\ srv /\ stage = "STREAM" =>
       /\ rem /\ connected /\ ~query /\ asked = {}
       /\ "server_recv" \in active <=> "remote_send" \notin active
       /\ "remote_recv" \in active <=> "server_send" \notin active

\* Every byte released for the destination is with it or in a buffer, and
\* every byte of the answer is with the client or in server->buf.
Account ==
  /\ srv /\ stage \in Early => toRemote = <<>>
  /\ srv /\ stage = "INIT" => hdr = 0 /\ out = 0
  /\ srv /\ stage = "HANDSHAKE" => hdr = out /\ 0 < out
  /\ srv /\ stage # "STREAM" => toClient = <<>> /\ got = 0
  /\ srv /\ stage = "RESOLVE" /\ ~rem =>
       /\ toRemote = <<>>
       /\ buf.first = HdrLen + 1 /\ buf.idx = 0
       /\ HdrLen + buf.len = out
  /\ "remote_send" \in active =>
       /\ HdrLen + Len(toRemote) + rbuf.len = out
       /\ rbuf.len > 0 \/ ~connected
       /\ rbuf.len > 0 => rbuf.first > HdrLen
  /\ srv /\ stage = "STREAM" /\ "server_recv" \in active =>
       HdrLen + Len(toRemote) = out
  /\ "remote_recv" \in active => Len(toClient) = got
  /\ "server_send" \in active =>
       /\ buf.len > 0
       /\ Len(toClient) + buf.len = got
       /\ buf.first + buf.idx = Len(toClient) + 1

\* The answer is always in order; the payload is when nothing was sent with
\* the SYN.
InOrder ==
  /\ toClient = Bytes(1, Len(toClient))
  /\ ~FastOpen =>
       /\ ~fast_open
       /\ toRemote = Bytes(1, Len(toRemote))
       /\ "remote_send" \in active /\ rbuf.len > 0 =>
            rbuf.first + rbuf.idx = HdrLen + Len(toRemote) + 1

\* The payload the server has taken and the bytes the destination got stay
\* in proportion also when the connection is closed.
Bounded ==
  /\ Len(toRemote) = 0 \/ HdrLen + Len(toRemote) <= out
  /\ Len(toClient) <= got

IInv == TypeOK /\ Shape /\ Account /\ InOrder /\ Bounded

-----------------------------------------------------------------------------
(* Runs of bytes.                                                          *)

\* n bytes from position a are a sequence of n numbers.
LEMMA BytesType ==
  ASSUME NEW a \in Nat, NEW n \in Nat
  PROVE  Bytes(a, n) \in Seq(Nat) /\ Len(Bytes(a, n)) = n
<1>1. \A i \in 1..n : a + i - 1 \in Nat
  OBVIOUS
<1>2. Bytes(a, n) \in [1..n -> Nat]
  BY <1>1 DEF Bytes
<1> QED
  BY <1>2

\* Appending the next n bytes of a stream to what was sent of it.
LEMMA AppendBytes ==
  ASSUME NEW s \in Seq(Nat), NEW a \in Nat, NEW n \in Nat
  PROVE  /\ s \o Bytes(a, n) \in Seq(Nat)
         /\ Len(s \o Bytes(a, n)) = Len(s) + n
         /\ s = Bytes(1, Len(s)) /\ a = Len(s) + 1 =>
              s \o Bytes(a, n) = Bytes(1, Len(s \o Bytes(a, n)))
<1> DEFINE t == s \o Bytes(a, n)
<1>1. Bytes(a, n) \in Seq(Nat) /\ Len(Bytes(a, n)) = n
  BY BytesType
<1>2. t \in Seq(Nat) /\ Len(t) = Len(s) + n
  BY <1>1
<1>3. ASSUME s = Bytes(1, Len(s)), a = Len(s) + 1
      PROVE  t = Bytes(1, Len(t))
  <2>1. Len(s) \in Nat /\ Len(t) \in Nat
    BY <1>2
  <2>2. Bytes(1, Len(t)) \in Seq(Nat) /\ Len(Bytes(1, Len(t))) = Len(t)
    BY <2>1, BytesType
  <2>3. ASSUME NEW i \in 1..Len(t)
        PROVE  t[i] = Bytes(1, Len(t))[i]
    <3>1. Bytes(1, Len(t))[i] = i
      BY <2>1 DEF Bytes
    <3>2. CASE i <= Len(s)
      <4>1. t[i] = s[i]
        BY <1>1, <3>2, <2>1
      <4>2. s[i] = Bytes(1, Len(s))[i]
        BY <1>3
      <4>3. Bytes(1, Len(s))[i] = i
        BY <3>2, <2>1 DEF Bytes
      <4> QED
        BY <3>1, <4>1, <4>2, <4>3
    <3>3. CASE i > Len(s)
      <4>1. t[i] = Bytes(a, n)[i - Len(s)]
        BY <1>1, <1>2, <3>3, <2>1
      <4>2. i - Len(s) \in 1..n
        BY <1>2, <3>3, <2>1
      <4>3. Bytes(a, n)[i - Len(s)] = a + (i - Len(s)) - 1
        BY <4>2 DEF Bytes
      <4> QED
        BY <3>1, <4>1, <4>3, <1>3, <2>1
    <3> QED
      BY <3>2, <3>3, <2>1
  <2> HIDE DEF t
  <2>4. t \in [1..Len(t) -> Nat]
    BY <1>2
  <2>5. Bytes(1, Len(t)) \in [1..Len(t) -> Nat]
    BY <2>2
  <2> QED
    BY <2>3, <2>4, <2>5
<1> QED
  BY <1>2, <1>3

-----------------------------------------------------------------------------
(* The invariant.                                                          *)

\* A step that takes and gives bytes and takes nothing back.
Grows ==
  /\ out <= out'
  /\ got <= got'
  /\ Len(toRemote) <= Len(toRemote')
  /\ Len(toClient) <= Len(toClient')

\* What an update of a buffer makes of it.
LEMMA EmptyBuffer == Empty \in Buffers /\ Empty.len = 0 /\ Empty.idx = 0
  BY DEF Buffers, Empty

LEMMA BufferFields ==
  ASSUME NEW b \in Buffers
  PROVE  b.first \in Nat /\ b.idx \in Nat /\ b.len \in Nat
  BY DEF Buffers

LEMMA BufferZero ==
  ASSUME NEW b \in Buffers
  PROVE  /\ [b EXCEPT !.len = 0] \in Buffers
         /\ [b EXCEPT !.idx = 0, !.len = 0] \in Buffers
         /\ [b EXCEPT !.idx = 0, !.len = 0].len = 0
  BY DEF Buffers

LEMMA BufferGrown ==
  ASSUME NEW b \in Buffers, NEW n \in Nat
  PROVE  [b EXCEPT !.len = @ + n] \in Buffers
  BY DEF Buffers

LEMMA BufferAdvanced ==
  ASSUME NEW b \in Buffers, NEW n \in 0..b.len
  PROVE  /\ Advance(b, n) \in Buffers
         /\ Advance(b, n).first = b.first
         /\ Advance(b, n).idx = b.idx + n
         /\ Advance(b, n).len = b.len - n
<1>1. b.idx + n \in Nat /\ b.len - n \in Nat
  BY BufferFields
<1> QED
  BY <1>1 DEF Buffers, Advance

\* The sizes recv may return are numbers.
LEMMA RecvNat ==
  ASSUME NEW l \in Nat
  PROVE  1..(BufSize - l) \subseteq Nat /\ 1..BufSize \subseteq Nat
  BY LenAssumption

LEMMA PlusNat == \A m, n \in Nat : m + n \in Nat
  OBVIOUS

\* Sending s of b pending bytes moves them from the buffer to the other end.
LEMMA Moved ==
  ASSUME NEW l \in Nat, NEW b \in Nat, NEW o \in Nat, NEW h \in Nat,
         NEW s \in 0..b, h + l + b = o
  PROVE  /\ s \in Nat
         /\ h + (l + s) + (b - s) = o
         /\ h + (l + s) <= o
         /\ s < b => b - s > 0
         /\ ~(s < b) => s = b /\ h + (l + s) = o
  OBVIOUS

LEMMA MovedFirst ==
  ASSUME NEW f \in Nat, NEW i \in Nat, NEW h \in Nat, NEW l \in Nat, NEW s \in Nat,
         f + i = h + l + 1
  PROVE  f + (i + s) = h + (l + s) + 1
  OBVIOUS

LEMMA NoBytes == <<>> \in Seq(Nat) /\ Len(<<>>) = 0 /\ <<>> = Bytes(1, Len(<<>>))
  BY DEF Bytes

\* Whatever count the block list holds for the client, a report leaves one.
LEMMA ReportedType ==
  ASSUME strikes \in Nat, NEW level \in Nat
  PROVE  Reported(level) \in Nat
  BY DEF Reported

\* Freeing both objects keeps the invariant: what was sent stays sent.
LEMMA CloseBothStep ==
  ASSUME IInv, CloseBoth, running' \in BOOLEAN, fast_open' = fast_open,
         strikes' \in Nat, UNCHANGED ghost
  PROVE  IInv'
<1> USE DEF IInv, CloseBoth, CloseServer, CloseRemote, Freed, ghost
<1>1. TypeOK'
  BY EmptyBuffer DEF TypeOK, Stages
<1>2. Shape'
  <2>1. ~query => asked = {}
    BY DEF TypeOK, Shape, Early, Stages
  <2>2. ~srv' /\ ~rem' /\ ~query' /\ asked' = {} /\ active' = {}
    BY <2>1
  <2> QED
    BY <2>2 DEF Shape
<1>3. Account'
  BY DEF Account, Early
<1>4. InOrder' /\ Bounded'
  BY DEF InOrder, Bounded
<1> QED
  BY <1>1, <1>2, <1>3, <1>4

LEMMA InitIInv == Init => IInv
<1> SUFFICES ASSUME Init PROVE IInv
  OBVIOUS
<1> USE DEF Init
<1>1. TypeOK
  BY EmptyBuffer, NoBytes, LenAssumption DEF TypeOK, Stages
<1>2. <<>> = Bytes(1, Len(<<>>))
  BY DEF Bytes
<1> QED
  BY <1>1, <1>2, LenAssumption DEF IInv, Shape, Account, InOrder, Bounded, Early

LEMMA AcceptStep == IInv /\ Accept => IInv'
<1> SUFFICES ASSUME IInv, Accept PROVE IInv'
  OBVIOUS
<1> USE DEF IInv, Accept, NewWatchers, global, remote
<1>1. TypeOK'
  BY EmptyBuffer, NoBytes DEF TypeOK, Stages, ServerWatchers
<1>2. Shape'
  BY DEF TypeOK, Shape, Early
<1>3. <<>> = Bytes(1, Len(<<>>))
  BY DEF Bytes
<1>4. Account' /\ InOrder' /\ Bounded'
  BY <1>3 DEF TypeOK, Account, InOrder, Bounded, Early
<1> QED
  BY <1>1, <1>2, <1>4

LEMMA ServerRecvDiscardStep == IInv /\ ServerRecvDiscard => IInv'
<1> SUFFICES ASSUME IInv, ServerRecvDiscard PROVE IInv'
  OBVIOUS
<1> USE DEF IInv, ServerRecvDiscard, global, remote, resolver, ghost
<1>1. TypeOK'
  <2>1. 1..BufSize \subseteq Nat /\ wire \in Nat
    BY RecvNat, 0 \in Nat DEF TypeOK
  <2>2. wire' \in Nat
    BY <2>1, PlusNat
  <2>3. buf' \in Buffers
    BY BufferZero DEF TypeOK
  <2> QED
    BY <2>2, <2>3 DEF TypeOK
<1>2. Shape'
  BY DEF Shape
<1>3. Account' /\ InOrder' /\ Bounded'
  BY DEF Account, InOrder, Bounded, Shape, Early, TypeOK, ServerWatchers
<1> QED
  BY <1>1, <1>2, <1>3

LEMMA ServerRecvWaitStep == IInv /\ ServerRecvWait => IInv'
<1> SUFFICES ASSUME IInv, ServerRecvWait PROVE IInv'
  OBVIOUS
<1> USE DEF IInv, ServerRecvWait, global, remote, resolver, ghost
<1>1. TypeOK'
  <2>1. PICK r \in 1..(BufSize - buf.len) :
          wire' = wire + r /\ buf' = [buf EXCEPT !.len = @ + r]
    OBVIOUS
  <2>2. buf \in Buffers /\ wire \in Nat /\ buf.len \in Nat
    BY BufferFields DEF TypeOK
  <2>3. r \in Nat
    BY <2>2, RecvNat
  <2>4. wire' \in Nat
    BY <2>1, <2>2, <2>3, PlusNat
  <2>5. buf' \in Buffers
    BY <2>1, <2>2, <2>3, BufferGrown
  <2> QED
    BY <2>4, <2>5 DEF TypeOK
<1>2. Shape'
  BY DEF Shape
<1>3. Account' /\ InOrder' /\ Bounded'
  BY DEF Account, InOrder, Bounded, Shape, Early, TypeOK, ServerWatchers
<1> QED
  BY <1>1, <1>2, <1>3

LEMMA ServerRecvHoldStep == IInv /\ ServerRecvHold => IInv'
<1> SUFFICES ASSUME IInv, ServerRecvHold PROVE IInv'
  OBVIOUS
<1> USE DEF IInv, ServerRecvHold, Release, Received, global, resolver, ghost
<1>0. PICK r \in RecvSizes : Release(r, 0) /\ Received(r, 0)
  OBVIOUS
<1>1. r \in Nat /\ out' = out /\ wire' \in Nat /\ "server_recv" \in active
  <2>1. buf.len \in Nat
    BY BufferFields DEF TypeOK
  <2>2. r \in Nat
    BY <2>1, RecvNat DEF RecvSizes
  <2>3. wire' = wire + r /\ out' = out + 0
    BY <1>0
  <2>4. wire \in Nat /\ out \in Nat
    BY DEF TypeOK
  <2> QED
    BY <1>0, <2>2, <2>3, <2>4
<1>2. TypeOK'
  <2>0. buf \in Buffers /\ rbuf \in Buffers
    BY DEF TypeOK
  <2>1. buf' \in Buffers /\ rbuf' \in Buffers
    BY <2>0, BufferZero
  <2> QED
    BY <1>1, <2>1 DEF TypeOK
<1>3. Shape'
  BY DEF Shape
<1>4. Account' /\ InOrder' /\ Bounded'
  BY <1>1 DEF Account, InOrder, Bounded, Shape, Early, TypeOK, ServerWatchers,
     RemoteWatchers, Stages, Buffers
<1> QED
  BY <1>2, <1>3, <1>4

\* What the steps that take k released bytes off r received ones share.
LEMMA ReleaseFacts ==
  ASSUME IInv, NEW r \in RecvSizes, NEW k \in ReleaseSizes, Release(r, k)
  PROVE  /\ r \in Nat /\ k \in Nat /\ k > 0
         /\ wire + r \in Nat /\ out + k \in Nat
         /\ srv /\ "server_recv" \in active /\ "timer" \in active
  BY LenAssumption DEF IInv, TypeOK, Shape, RecvSizes, ReleaseSizes, Release,
     Buffers, ServerWatchers

LEMMA ServerRecvHeaderStep == IInv /\ ServerRecvHeader => IInv'
<1> SUFFICES ASSUME IInv, ServerRecvHeader PROVE IInv'
  OBVIOUS
<1> USE DEF IInv
<1>0. PICK r \in RecvSizes, k \in ReleaseSizes :
        /\ Release(r, k)
        /\ Received(r, k)
        /\ stage \in Early
        /\ stage' \in {"ERROR", "HANDSHAKE"}
        /\ stage' = "HANDSHAKE" => hdr' = hdr + k
        /\ stage # "ERROR"
        /\ hdr' = hdr \/ hdr' = hdr + k
        /\ strikes' = strikes \/ report_addr(MALFORMED)
        /\ buf' = [buf EXCEPT !.idx = 0, !.len = 0]
        /\ UNCHANGED <<running, fast_open, kind, srv, remote, resolver, active,
                       ghost>>
  BY DEF ServerRecvHeader, Early, HeaderBad
<1>1. /\ r \in Nat /\ k \in Nat /\ k > 0 /\ srv
      /\ wire' \in Nat /\ out' = out + k /\ out' \in Nat
  BY <1>0, ReleaseFacts DEF Received
<1>2. strikes' \in Nat
  BY <1>0, ReportedType DEF TypeOK, report_addr, MALFORMED
<1> USE DEF remote, resolver, ghost
<1>3. TypeOK'
  <2>0. buf \in Buffers /\ hdr \in Nat
    BY DEF TypeOK
  <2>1. buf' \in Buffers /\ hdr' \in Nat
    BY <2>0, <1>0, <1>1, BufferZero, PlusNat
  <2> QED
    BY <1>0, <1>1, <1>2, <2>1 DEF TypeOK, Stages
<1>4. Shape'
  BY <1>0, <1>1 DEF Shape, Early
<1>5. Account' /\ InOrder' /\ Bounded'
  BY <1>0, <1>1 DEF Account, InOrder, Bounded, Shape, Early, TypeOK, Stages
<1> QED
  BY <1>3, <1>4, <1>5

LEMMA ParseFailsStep == IInv /\ ParseFails => IInv'
<1> SUFFICES ASSUME IInv, ParseFails PROVE IInv'
  OBVIOUS
<1> USE DEF IInv
<1>0. PICK r \in RecvSizes, k \in ReleaseSizes : HeaderTaken(r, k)
  BY DEF ParseFails
<1>1. srv /\ stage \in Early
  BY <1>0, ReleaseFacts DEF HeaderTaken, Early
<1>2. /\ CloseServerOnly
      /\ strikes' = strikes \/ report_addr(MALFORMED) \/ report_addr(BAD)
      /\ fast_open' \in {fast_open, FALSE}
      /\ UNCHANGED <<running, ghost>>
  BY DEF ParseFails
<1>3. strikes' \in Nat
  BY <1>2, ReportedType DEF TypeOK, report_addr, MALFORMED, BAD
<1> USE DEF CloseServerOnly, CloseServer, Freed, remote, ghost
<1>4. TypeOK'
  BY <1>2, <1>3, EmptyBuffer DEF TypeOK, Stages
<1>5. Shape'
  BY <1>1, <1>2 DEF TypeOK, Shape, Early, ServerWatchers, RemoteWatchers
<1>6. Account' /\ Bounded'
  BY <1>1, <1>2 DEF TypeOK, Account, Bounded, Shape, Early, ServerWatchers
<1>7. InOrder'
  <2>1. "remote_send" \notin active'
    BY <1>1, <1>2 DEF Shape, Early
  <2>2. ~fast_open => ~fast_open'
    BY <1>2
  <2> QED
    BY <1>2, <2>1, <2>2 DEF InOrder
<1> QED
  BY <1>7, <1>4, <1>5, <1>6

\* A header that is taken for complete: what is behind it.
LEMMA HeaderFacts ==
  ASSUME IInv, NEW r \in RecvSizes, NEW k \in ReleaseSizes,
         HeaderTaken(r, k), Received(r, k), hdr + k >= HdrLen
  PROVE  /\ Behind(hdr + k) \in Buffers
         /\ Behind(hdr + k).first = HdrLen + 1
         /\ Behind(hdr + k).idx = 0
         /\ HdrLen + Behind(hdr + k).len = out'
         /\ wire' \in Nat /\ out' \in Nat
         /\ srv /\ stage \in Early /\ ~rem /\ ~query /\ asked = {}
         /\ toRemote = <<>>
<1>1. /\ k \in Nat /\ srv /\ wire' \in Nat /\ out' = out + k /\ out' \in Nat
      /\ stage \in {"INIT", "HANDSHAKE"}
  BY ReleaseFacts DEF HeaderTaken, Received
<1>2. hdr = out /\ ~rem /\ ~query /\ asked = {} /\ toRemote = <<>>
  BY <1>1 DEF IInv, Account, Shape, Early
<1> QED
  BY <1>1, <1>2, LenAssumption DEF Behind, Buffers, Early, IInv, TypeOK

\* The remote_t that connect_to_remote makes of the bytes b behind the header.
LEMMA NewRemoteFacts ==
  ASSUME IInv, NEW b \in Buffers, NEW n \in Sendable(b), NEW from \in Nat,
         from > HdrLen, b.first = HdrLen + 1, b.idx = 0, toRemote = <<>>,
         FastOpenOutcome(n), NewRemote(b, n, from)
  PROVE  /\ rem' = TRUE /\ connected' = FALSE
         /\ fast_open' \in BOOLEAN
         /\ rbuf' \in Buffers /\ buf' \in Buffers
         /\ toRemote' \in Seq(Nat)
         /\ Len(toRemote') + rbuf'.len = b.len
         /\ rbuf'.len > 0 => rbuf'.first = from
         /\ ~FastOpen => /\ ~fast_open'
                         /\ toRemote' = Bytes(1, Len(toRemote'))
                         /\ rbuf'.idx = 0 /\ Len(toRemote') = 0
<1>1. n \in 0..b.len /\ b.len \in Nat
  BY DEF Sendable, Buffers
<1>2. b.first - HdrLen + b.idx = 1
  BY LenAssumption
<1>3. toRemote' = <<>> \o Bytes(1, n)
  BY <1>2 DEF NewRemote
<1>4. <<>> \in Seq(Nat) /\ Len(<<>>) = 0 /\ n \in Nat /\ 1 = Len(<<>>) + 1
  BY <1>1
<1>5. <<>> = Bytes(1, Len(<<>>))
  BY <1>4 DEF Bytes
<1>6. /\ toRemote' \in Seq(Nat) /\ Len(toRemote') = n
      /\ toRemote' = Bytes(1, Len(toRemote'))
  <2> DEFINE e == <<>>
  <2>1. e \in Seq(Nat) /\ e = Bytes(1, Len(e)) /\ 1 = Len(e) + 1 /\ Len(e) = 0
    BY <1>4, <1>5
  <2>2. toRemote' = e \o Bytes(1, n)
    BY <1>3
  <2> HIDE DEF e
  <2>a. 1 \in Nat
    OBVIOUS
  <2>3. /\ e \o Bytes(1, n) \in Seq(Nat)
        /\ Len(e \o Bytes(1, n)) = Len(e) + n
        /\ e \o Bytes(1, n) = Bytes(1, Len(e \o Bytes(1, n)))
    BY <2>1, <2>a, <1>4, AppendBytes
  <2>4. Len(e) + n = n
    BY <2>1, <1>4
  <2> QED
    BY <2>2, <2>3, <2>4
<1>7. Advance(b, n) \in Buffers /\ Advance(b, n).len = b.len - n
  BY <1>1, BufferAdvanced
<1>8. /\ rbuf' \in Buffers /\ buf' \in Buffers /\ rbuf'.len = b.len - n
      /\ rbuf'.len > 0 => rbuf'.first = from
      /\ rbuf'.idx = 0
  <2> DEFINE left == Advance(b, n)
  <2>1. /\ rbuf' = IF left.len > 0
                   THEN [first |-> from, idx |-> 0, len |-> left.len] ELSE Empty
        /\ buf' = IF left.len > 0 THEN [left EXCEPT !.idx = 0, !.len = 0] ELSE left
    BY DEF NewRemote
  <2>2. left \in Buffers /\ left.len = b.len - n /\ left.len \in Nat
    BY <1>1, <1>7
  <2> HIDE DEF left
  <2>3. CASE left.len > 0
    BY <2>1, <2>2, <2>3, BufferZero DEF Buffers
  <2>4. CASE left.len = 0
    BY <2>1, <2>2, <2>4, EmptyBuffer
  <2> QED
    BY <2>2, <2>3, <2>4
<1>9. fast_open' \in BOOLEAN /\ (~FastOpen => ~fast_open /\ ~fast_open' /\ n = 0)
  <2>1. fast_open' \in BOOLEAN
    BY DEF IInv, TypeOK, FastOpenOutcome
  <2>2. ASSUME ~FastOpen PROVE ~fast_open /\ ~fast_open' /\ n = 0
    BY <2>2 DEF IInv, InOrder, FastOpenOutcome, Sendable
  <2> QED
    BY <2>1, <2>2
<1> QED
  BY <1>1, <1>6, <1>8, <1>9 DEF NewRemote

LEMMA ParseConnectStep == IInv /\ ParseConnect => IInv'
<1> SUFFICES ASSUME IInv, ParseConnect PROVE IInv'
  OBVIOUS
<1>0. PICK r \in RecvSizes, k \in ReleaseSizes :
        /\ HeaderTaken(r, k)
        /\ Received(r, k)
        /\ hdr + k >= HdrLen
        /\ stage' = "PARSE"
        /\ hdr' = 0
        /\ \E n \in Sendable(Behind(hdr + k)) :
             /\ FastOpenOutcome(n)
             /\ NewRemote(Behind(hdr + k), n, HdrLen + 1)
        /\ active' = (active \ {"server_recv"}) \cup {"remote_send"}
        /\ UNCHANGED <<running, strikes, kind, srv, resolver, got, toClient>>
  BY DEF ParseConnect, Switch
<1>1. PICK n \in Sendable(Behind(hdr + k)) :
        FastOpenOutcome(n) /\ NewRemote(Behind(hdr + k), n, HdrLen + 1)
  BY <1>0
<1>2. /\ Behind(hdr + k) \in Buffers
      /\ Behind(hdr + k).first = HdrLen + 1
      /\ Behind(hdr + k).idx = 0
      /\ HdrLen + Behind(hdr + k).len = out'
      /\ wire' \in Nat /\ out' \in Nat
      /\ srv /\ stage \in Early /\ ~rem /\ ~query /\ asked = {}
      /\ toRemote = <<>>
  BY <1>0, HeaderFacts
<1>3. HdrLen + 1 \in Nat /\ HdrLen + 1 > HdrLen
  BY LenAssumption
<1> DEFINE b == Behind(hdr + k)
<1>4. /\ rem' = TRUE /\ connected' = FALSE
      /\ fast_open' \in BOOLEAN
      /\ rbuf' \in Buffers /\ buf' \in Buffers
      /\ toRemote' \in Seq(Nat)
      /\ Len(toRemote') + rbuf'.len = b.len
      /\ rbuf'.len > 0 => rbuf'.first = HdrLen + 1
      /\ ~FastOpen => /\ ~fast_open'
                      /\ toRemote' = Bytes(1, Len(toRemote'))
                      /\ rbuf'.idx = 0 /\ Len(toRemote') = 0
  BY <1>1, <1>2, <1>3, NewRemoteFacts
<1>5. b.len \in Nat /\ Len(toRemote') \in Nat /\ rbuf'.len \in Nat
  BY <1>2, <1>4 DEF Buffers
<1> HIDE DEF b
<1> USE DEF resolver, IInv
<1>6. TypeOK'
  BY <1>0, <1>2, <1>4 DEF TypeOK, Stages, RemoteWatchers
<1>7. Shape'
  BY <1>0, <1>2, <1>4 DEF Shape, Early
<1>8. HdrLen + b.len = out'
  BY <1>2 DEF b
<1>9. Account'
  BY <1>0, <1>2, <1>4, <1>5, <1>8, LenAssumption DEF Account, Shape, Early
<1>10. InOrder' /\ Bounded'
  BY <1>0, <1>2, <1>4, <1>5, <1>8, LenAssumption DEF Bounded, InOrder, Account, Shape, Early
<1> QED
  BY <1>6, <1>7, <1>9, <1>10

LEMMA ParseQueryStep == IInv /\ ParseQuery => IInv'
<1> SUFFICES ASSUME IInv, ParseQuery PROVE IInv'
  OBVIOUS
<1>0. PICK r \in RecvSizes, k \in ReleaseSizes :
        /\ HeaderTaken(r, k)
        /\ Received(r, k)
        /\ hdr + k >= HdrLen
        /\ stage' = "RESOLVE"
        /\ hdr' = 0
        /\ buf' = Behind(hdr + k)
        /\ asked' \in SUBSET Queries
        /\ query' = (asked' # {})
        /\ found' = FALSE
        /\ active' = active \ {"server_recv"}
        /\ UNCHANGED <<global, kind, srv, remote, ghost>>
  BY DEF ParseQuery
<1>1. /\ buf' \in Buffers
      /\ buf'.first = HdrLen + 1
      /\ buf'.idx = 0
      /\ HdrLen + buf'.len = out'
      /\ wire' \in Nat /\ out' \in Nat
      /\ srv /\ stage \in Early /\ ~rem /\ ~query /\ asked = {}
      /\ toRemote = <<>>
  BY <1>0, HeaderFacts
<1> USE DEF global, remote, ghost, IInv
<1>2. TypeOK'
  BY <1>0, <1>1 DEF TypeOK, Stages
<1>3. Shape'
  BY <1>0, <1>1 DEF Shape, Early
<1>4. Account' /\ InOrder' /\ Bounded'
  BY <1>0, <1>1, LenAssumption DEF Account, Bounded, InOrder, Shape, Early
<1> QED
  BY <1>2, <1>3, <1>4

LEMMA ServerRecvStreamStep == IInv /\ ServerRecvStream => IInv' /\ Grows
<1> SUFFICES ASSUME IInv, ServerRecvStream PROVE IInv' /\ Grows
  OBVIOUS
<1> USE DEF IInv
<1>0. PICK r \in RecvSizes, k \in ReleaseSizes, s \in Nat :
        /\ s \in 0..k
        /\ Release(r, k)
        /\ Received(r, k)
        /\ stage = "STREAM"
        /\ toRemote' = toRemote \o Bytes(out + 1 - HdrLen, s)
        /\ rbuf' = IF s < k THEN [first |-> out + 1, idx |-> s, len |-> k - s]
                            ELSE [first |-> out + 1, idx |-> rbuf.idx, len |-> k]
        /\ active' = IF s < k
                     THEN (active \ {"server_recv"}) \cup {"remote_send"}
                     ELSE active
        /\ UNCHANGED <<global, kind, srv, stage, buf, hdr, rem, connected,
                       resolver, got, toClient>>
  BY DEF ServerRecvStream, Switch, Filled
<1>1. /\ k \in Nat /\ k > 0 /\ srv
      /\ "server_recv" \in active
      /\ wire' \in Nat /\ out' = out + k /\ out' \in Nat
  BY <1>0, ReleaseFacts DEF Received
<1>2. HdrLen + Len(toRemote) = out /\ "remote_send" \notin active
  BY <1>0, <1>1 DEF Account, Shape
<1>3. toRemote \in Seq(Nat) /\ Len(toRemote) \in Nat
  BY DEF TypeOK
<1>4. out + 1 - HdrLen = Len(toRemote) + 1 /\ out + 1 - HdrLen \in Nat
  BY <1>2, <1>3, LenAssumption
<1>5. /\ toRemote' \in Seq(Nat)
      /\ Len(toRemote') = Len(toRemote) + s
      /\ toRemote = Bytes(1, Len(toRemote)) =>
           toRemote' = Bytes(1, Len(toRemote'))
  BY <1>0, <1>3, <1>4, AppendBytes
<1>6. /\ rbuf' \in Buffers
      /\ rbuf'.first = out + 1
      /\ s < k => rbuf'.idx = s /\ rbuf'.len = k - s /\ rbuf'.len > 0
  <2>1. rbuf.idx \in Nat /\ out + 1 \in Nat
    BY BufferFields DEF TypeOK
  <2>2. k - s \in Nat /\ (s < k => k - s > 0)
    BY <1>0, <1>1
  <2>3. CASE s < k
    BY <1>0, <1>1, <2>1, <2>2, <2>3 DEF Buffers
  <2>4. CASE ~(s < k)
    BY <1>0, <1>1, <2>1, <2>2, <2>4 DEF Buffers
  <2> QED
    BY <2>3, <2>4
<1> USE DEF global, resolver
<1>7. TypeOK'
  BY <1>0, <1>1, <1>5, <1>6 DEF TypeOK, ServerWatchers, RemoteWatchers
<1>8. Shape'
  BY <1>0, <1>1, <1>2 DEF Shape, Early
<1>9. ASSUME s < k PROVE IInv'
  <2>1. /\ HdrLen + Len(toRemote') + rbuf'.len = out'
        /\ rbuf'.first > HdrLen
        /\ rbuf'.first + rbuf'.idx = HdrLen + Len(toRemote') + 1
        /\ HdrLen + Len(toRemote') <= out'
    <3>1. /\ out = HdrLen + Len(toRemote) /\ out' = out + k
          /\ Len(toRemote') = Len(toRemote) + s
          /\ rbuf'.first = out + 1 /\ rbuf'.idx = s /\ rbuf'.len = k - s
          /\ Len(toRemote) \in Nat /\ HdrLen \in Nat
      BY <1>1, <1>2, <1>3, <1>5, <1>6, <1>9, LenAssumption
    <3> QED
      BY <3>1, <1>9, <1>1
  <2>2. "server_recv" \notin active' /\ "remote_send" \in active'
    BY <1>0, <1>9
  <2>3. Account'
    BY <1>0, <1>6, <1>9, <2>1, <2>2 DEF Account, Early
  <2>4. InOrder' /\ Bounded'
    BY <1>0, <1>5, <1>9, <2>1, <2>2 DEF InOrder, Bounded
  <2> QED
    BY <1>7, <1>8, <2>3, <2>4
<1>10. ASSUME ~(s < k) PROVE IInv'
  <2>0. s = k
    BY <1>0, <1>1, <1>10
  <2>1. HdrLen + Len(toRemote') = out' /\ HdrLen + Len(toRemote') <= out'
    <3>1. /\ out = HdrLen + Len(toRemote) /\ out' = out + k
          /\ Len(toRemote') = Len(toRemote) + k
          /\ Len(toRemote) \in Nat /\ HdrLen \in Nat
      BY <1>1, <1>2, <1>3, <1>5, <2>0, LenAssumption
    <3> QED
      BY <3>1, <1>1
  <2>2. Account'
    BY <1>0, <1>2, <1>10, <2>1 DEF Account, Early
  <2>3. InOrder' /\ Bounded'
    BY <1>0, <1>2, <1>5, <1>10, <2>1 DEF InOrder, Bounded
  <2> QED
    BY <1>7, <1>8, <2>2, <2>3
<1>g. Grows
  <2>1. out \in Nat /\ got' = got /\ toClient' = toClient /\ got \in Nat /\ Len(toClient) \in Nat
    BY <1>0 DEF TypeOK
  <2> QED
    BY <1>1, <1>3, <1>5, <2>1 DEF Grows
<1> QED
  BY <1>9, <1>10, <1>g

LEMMA DnsAnswerStep == IInv /\ DnsAnswer => IInv'
<1> SUFFICES ASSUME IInv, DnsAnswer PROVE IInv'
  OBVIOUS
<1> USE DEF IInv, DnsAnswer, global, server, remote, ghost
<1>1. asked' \subseteq asked /\ asked' # {} /\ asked # {}
  OBVIOUS
<1>2. TypeOK'
  BY <1>1 DEF TypeOK
<1>3. Shape'
  BY <1>1 DEF Shape
<1>4. Account' /\ InOrder' /\ Bounded'
  BY DEF Account, InOrder, Bounded
<1> QED
  BY <1>2, <1>3, <1>4

\* A query is only under way in STAGE_RESOLVE, before there is a remote.
LEMMA AskedFacts ==
  ASSUME IInv, asked # {}
  PROVE  srv /\ stage = "RESOLVE" /\ ~rem /\ "timer" \in active
  BY DEF IInv, TypeOK, Shape, Early, Stages

LEMMA ResolveFailsStep == IInv /\ ResolveFails => IInv'
<1> SUFFICES ASSUME IInv, ResolveFails PROVE IInv'
  OBVIOUS
<1> USE DEF IInv, ResolveFails, Freed, remote, ghost
<1>1. srv /\ stage = "RESOLVE" /\ ~rem
  BY AskedFacts
<1>2. "remote_send" \notin active /\ "remote_recv" \notin active
  BY <1>1 DEF Shape
<1>3. TypeOK'
  BY EmptyBuffer DEF TypeOK, Stages
<1>4. \A w \in ServerWatchers \cup RemoteWatchers : w \notin active'
  BY <1>2 DEF ServerWatchers, RemoteWatchers
<1>5. Shape'
  BY <1>1, <1>4 DEF Shape
<1>6. "remote_send" \notin active' /\ "remote_recv" \notin active' /\ "server_send" \notin active'
  BY <1>4 DEF ServerWatchers, RemoteWatchers
<1>7. Account' /\ Bounded'
  BY <1>6 DEF Account, Bounded
<1>8. InOrder'
  <2>1. ~fast_open => ~fast_open'
    OBVIOUS
  <2> QED
    BY <1>6, <2>1 DEF InOrder
<1> QED
  BY <1>3, <1>5, <1>7, <1>8

LEMMA ResolveConnectStep == IInv /\ ResolveConnect => IInv'
<1> SUFFICES ASSUME IInv, ResolveConnect PROVE IInv'
  OBVIOUS
<1>0. PICK n \in Sendable(buf) :
        FastOpenOutcome(n) /\ NewRemote(buf, n, buf.first + n)
  BY DEF ResolveConnect
<1>1. /\ srv /\ stage = "RESOLVE" /\ ~rem
      /\ stage' = stage /\ srv' = srv /\ asked' = {} /\ query' = FALSE
      /\ found' = TRUE
      /\ active' = active \cup {"remote_send"}
      /\ UNCHANGED <<running, strikes, kind, hdr, wire, out, got, toClient>>
  BY AskedFacts DEF ResolveConnect
<1>2. /\ buf \in Buffers /\ buf.first = HdrLen + 1 /\ buf.idx = 0
      /\ HdrLen + buf.len = out /\ toRemote = <<>>
  BY <1>1 DEF IInv, TypeOK, Account
<1>3. n \in Nat /\ buf.len \in Nat /\ out \in Nat
  BY <1>2, BufferFields DEF Sendable, IInv, TypeOK
<1>4. buf.first + n \in Nat /\ buf.first + n > HdrLen
  BY <1>2, <1>3, LenAssumption
<1>5. /\ rem' = TRUE /\ connected' = FALSE
      /\ fast_open' \in BOOLEAN
      /\ rbuf' \in Buffers /\ buf' \in Buffers
      /\ toRemote' \in Seq(Nat)
      /\ Len(toRemote') + rbuf'.len = buf.len
      /\ rbuf'.len > 0 => rbuf'.first = buf.first + n
      /\ ~FastOpen => /\ ~fast_open'
                      /\ toRemote' = Bytes(1, Len(toRemote'))
                      /\ rbuf'.idx = 0 /\ Len(toRemote') = 0
  BY <1>0, <1>2, <1>4, NewRemoteFacts
<1>6. ~FastOpen => n = 0
  BY <1>0 DEF IInv, InOrder, Sendable
<1>7. Len(toRemote') \in Nat /\ rbuf'.len \in Nat
  BY <1>5, BufferFields
<1> USE DEF IInv
<1>8. TypeOK'
  BY <1>1, <1>5 DEF TypeOK, RemoteWatchers
<1>9. Shape'
  BY <1>1, <1>5 DEF Shape, Early
<1>10. HdrLen + Len(toRemote') + rbuf'.len = out'
  BY <1>1, <1>2, <1>3, <1>5, <1>7, LenAssumption
<1>11. Account'
  BY <1>1, <1>4, <1>5, <1>10 DEF Account, Shape, Early
<1>12. Bounded'
  BY <1>1, <1>7, <1>10, LenAssumption DEF Bounded
<1>13. InOrder'
  BY <1>1, <1>2, <1>3, <1>5, <1>6, <1>7, LenAssumption DEF InOrder
<1> QED
  BY <1>8, <1>9, <1>11, <1>12, <1>13

\* remote_send_cb only runs on a live connection that does not read.
LEMMA SendFacts ==
  ASSUME IInv, "remote_send" \in active
  PROVE  /\ srv /\ rem /\ ~query /\ asked = {} /\ "timer" \in active
         /\ stage \in {"PARSE", "RESOLVE", "STREAM"}
         /\ "server_recv" \notin active
         /\ stage # "STREAM" => "remote_recv" \notin active /\ "server_send" \notin active
  BY DEF IInv, TypeOK, Shape, Early, Stages, RemoteWatchers, ServerWatchers

LEMMA RemoteConnectedStep == IInv /\ RemoteConnected => IInv'
<1> SUFFICES ASSUME IInv, RemoteConnected PROVE IInv'
  OBVIOUS
<1> USE DEF IInv, RemoteConnected, Switch, reset_addr, resolver, ghost
<1>1. /\ srv /\ rem /\ ~query /\ asked = {} /\ "timer" \in active
      /\ stage \in {"PARSE", "RESOLVE", "STREAM"}
      /\ "server_recv" \notin active
      /\ stage # "STREAM" => "remote_recv" \notin active /\ "server_send" \notin active
  BY SendFacts
<1>2. stage # "STREAM"
  BY <1>1 DEF Shape
<1>3. toClient = <<>> /\ got = 0 /\ HdrLen + Len(toRemote) + rbuf.len = out
  BY <1>1, <1>2 DEF Account
<1>4. Len(toRemote) \in Nat /\ HdrLen \in Nat
  BY LenAssumption DEF TypeOK
<1>5. HdrLen + Len(toRemote) = out
  BY <1>3, <1>4
<1>6. TypeOK'
  BY DEF TypeOK, Stages, ServerWatchers, RemoteWatchers
<1>7. Shape'
  BY <1>1, <1>2 DEF Shape, Early
<1>8. Len(toClient) = got
  BY <1>3, NoBytes
<1>9. Account'
  BY <1>1, <1>2, <1>5, <1>8 DEF Account, Early
<1>10. InOrder' /\ Bounded'
  BY DEF InOrder, Bounded
<1> QED
  BY <1>6, <1>7, <1>9, <1>10

LEMMA RemoteSendStep == IInv /\ RemoteSend => IInv' /\ Grows
<1> SUFFICES ASSUME IInv, RemoteSend PROVE IInv' /\ Grows
  OBVIOUS
<1>0. PICK s \in 0..rbuf.len :
        /\ toRemote' = toRemote \o Bytes(rbuf.first + rbuf.idx - HdrLen, s)
        /\ IF s < rbuf.len
           THEN /\ rbuf' = Advance(rbuf, s)
                /\ UNCHANGED <<stage, active>>
           ELSE /\ rbuf' = [rbuf EXCEPT !.idx = 0, !.len = 0]
                /\ stage' = "STREAM"
                /\ active' = (active \ {"remote_send"}) \cup {"server_recv"}
                     \cup (IF stage = "STREAM" THEN {} ELSE {"remote_recv"})
  BY DEF RemoteSend, Switch
<1>1. /\ "remote_send" \in active /\ rbuf.len > 0 /\ connected' = TRUE
      /\ strikes' = strikes \/ strikes' = 0
      /\ UNCHANGED <<running, fast_open, kind, srv, buf, hdr, rem, query, asked,
                     found, wire, out, got, toClient>>
  BY DEF RemoteSend, reset_addr, resolver
<1>2. /\ srv /\ rem /\ ~query /\ asked = {} /\ "timer" \in active
      /\ stage \in {"PARSE", "RESOLVE", "STREAM"}
      /\ "server_recv" \notin active
      /\ stage # "STREAM" => "remote_recv" \notin active /\ "server_send" \notin active
  BY <1>1, SendFacts
<1>3. /\ rbuf \in Buffers /\ rbuf.len \in Nat /\ rbuf.first \in Nat /\ rbuf.idx \in Nat
      /\ toRemote \in Seq(Nat) /\ Len(toRemote) \in Nat
      /\ out \in Nat /\ HdrLen \in Nat
  BY BufferFields, LenAssumption DEF IInv, TypeOK
<1>4. rbuf.first > HdrLen /\ HdrLen + Len(toRemote) + rbuf.len = out
  BY <1>1 DEF IInv, Account
<1>5. rbuf.first + rbuf.idx - HdrLen \in Nat /\ s \in Nat
  BY <1>3, <1>4
<1>6. /\ toRemote' \in Seq(Nat)
      /\ Len(toRemote') = Len(toRemote) + s
      /\ toRemote = Bytes(1, Len(toRemote)) /\ rbuf.first + rbuf.idx - HdrLen = Len(toRemote) + 1 =>
           toRemote' = Bytes(1, Len(toRemote'))
  <2> DEFINE a == rbuf.first + rbuf.idx - HdrLen
  <2>1. toRemote' = toRemote \o Bytes(a, s) /\ a \in Nat
    BY <1>0, <1>5
  <2> HIDE DEF a
  <2>2. /\ toRemote' \in Seq(Nat)
        /\ Len(toRemote') = Len(toRemote) + s
        /\ toRemote = Bytes(1, Len(toRemote)) /\ a = Len(toRemote) + 1 =>
             toRemote' = Bytes(1, Len(toRemote'))
    <3>1. s \in Nat /\ toRemote \in Seq(Nat)
      BY <1>3, <1>5
    <3> QED
      BY <2>1, <3>1, AppendBytes
  <2> QED
    BY <2>2 DEF a
<1>7. ~FastOpen => /\ ~fast_open'
                   /\ toRemote' = Bytes(1, Len(toRemote'))
                   /\ rbuf.first + rbuf.idx = HdrLen + Len(toRemote) + 1
  <2>1. ASSUME ~FastOpen
        PROVE  /\ ~fast_open' /\ toRemote = Bytes(1, Len(toRemote))
               /\ rbuf.first + rbuf.idx = HdrLen + Len(toRemote) + 1
    BY <2>1, <1>1 DEF IInv, InOrder
  <2>2. ASSUME rbuf.first + rbuf.idx = HdrLen + Len(toRemote) + 1
        PROVE  rbuf.first + rbuf.idx - HdrLen = Len(toRemote) + 1
    BY <2>2, <1>3
  <2> QED
    BY <2>1, <2>2, <1>6
<1> USE DEF IInv
<1>8. ASSUME s < rbuf.len PROVE IInv'
  <2>1. /\ rbuf' \in Buffers /\ rbuf'.first = rbuf.first
        /\ rbuf'.idx = rbuf.idx + s /\ rbuf'.len = rbuf.len - s
        /\ stage' = stage /\ active' = active
    BY <1>0, <1>3, <1>8, BufferAdvanced
  <2>2. TypeOK'
    BY <1>1, <1>6, <2>1 DEF TypeOK
  <2>3. Shape'
    BY <1>1, <2>1 DEF Shape
  <2>4. /\ HdrLen + Len(toRemote') + rbuf'.len = out'
        /\ rbuf'.len > 0 /\ rbuf'.first > HdrLen
        /\ HdrLen + Len(toRemote') <= out'
    <3>1. /\ out' = HdrLen + Len(toRemote) + rbuf.len
          /\ Len(toRemote') = Len(toRemote) + s
          /\ rbuf'.len = rbuf.len - s /\ rbuf'.first > HdrLen
      BY <1>1, <1>4, <1>6, <2>1
    <3>2. Len(toRemote) \in Nat /\ HdrLen \in Nat /\ rbuf.len \in Nat
      BY <1>3
    <3>3. /\ HdrLen + (Len(toRemote) + s) + (rbuf.len - s) = out'
          /\ HdrLen + (Len(toRemote) + s) <= out'
          /\ rbuf.len - s > 0
      BY <1>1, <1>3, <1>4, <1>8, Moved
    <3> QED
      BY <3>1, <3>3
  <2>5. Account'
    BY <1>1, <1>2, <2>1, <2>4 DEF Account, Early
  <2>6. ~FastOpen => rbuf'.first + rbuf'.idx = HdrLen + Len(toRemote') + 1
    <3>1. ASSUME rbuf.first + rbuf.idx = HdrLen + Len(toRemote) + 1
          PROVE  rbuf.first + (rbuf.idx + s) = HdrLen + (Len(toRemote) + s) + 1
      <4> DEFINE f == rbuf.first
                 i == rbuf.idx
                 l == Len(toRemote)
      <4>1. f \in Nat /\ i \in Nat /\ l \in Nat /\ HdrLen \in Nat /\ s \in Nat
        BY <1>3, <1>5
      <4>2. f + i = HdrLen + l + 1
        BY <3>1
      <4> HIDE DEF f, i, l
      <4>3. f + (i + s) = HdrLen + (l + s) + 1
        BY <4>1, <4>2, MovedFirst
      <4> QED
        BY <4>3 DEF f, i, l
    <3>2. Len(toRemote') = Len(toRemote) + s
      BY <1>6
    <3> QED
      BY <3>1, <3>2, <1>7, <2>1
  <2>7. InOrder' /\ Bounded'
    BY <1>1, <1>7, <2>1, <2>4, <2>6 DEF InOrder, Bounded
  <2> QED
    BY <2>2, <2>3, <2>5, <2>7
<1>9. ASSUME ~(s < rbuf.len) PROVE IInv'
  <2>1. /\ rbuf' = [rbuf EXCEPT !.idx = 0, !.len = 0]
        /\ stage' = "STREAM"
        /\ active' = (active \ {"remote_send"}) \cup {"server_recv"}
                     \cup (IF stage = "STREAM" THEN {} ELSE {"remote_recv"})
    BY <1>0, <1>9
  <2>2. rbuf' \in Buffers
    BY <1>3, <2>1, BufferZero
  <2>3. TypeOK'
    <3>1. active' \in SUBSET (ServerWatchers \cup RemoteWatchers)
      BY <2>1 DEF TypeOK, ServerWatchers, RemoteWatchers
    <3> QED
      BY <1>1, <1>6, <2>1, <2>2, <3>1 DEF TypeOK, Stages
  <2>4. Shape'
    BY <1>1, <1>2, <2>1 DEF Shape, Early
  <2>5. HdrLen + Len(toRemote') = out'
    <3>1. s = rbuf.len
      BY <1>3, <1>9
    <3>2. out' = HdrLen + Len(toRemote) + rbuf.len /\ Len(toRemote') = Len(toRemote) + rbuf.len
      BY <1>1, <1>4, <1>6, <3>1
    <3>3. Len(toRemote) \in Nat /\ HdrLen \in Nat /\ rbuf.len \in Nat
      BY <1>3
    <3> QED
      BY <3>2, <3>3
  <2>6. stage # "STREAM" => Len(toClient) = got
    BY <1>2, NoBytes DEF Account
  <2>7. "remote_send" \notin active'
    BY <2>1
  <2>8. Account'
    BY <1>1, <1>2, <2>1, <2>5, <2>6, <2>7 DEF Account, Early
  <2>9. HdrLen + Len(toRemote') <= out'
    BY <2>5, <1>1, <1>3
  <2>10. InOrder' /\ Bounded'
    BY <1>1, <1>7, <2>7, <2>9 DEF InOrder, Bounded
  <2> QED
    BY <2>3, <2>4, <2>8, <2>10
<1>g. Grows
  <2>1. out' = out /\ got' = got /\ toClient' = toClient /\ got \in Nat /\ Len(toClient) \in Nat
    BY <1>1 DEF TypeOK
  <2> QED
    BY <1>3, <1>5, <1>6, <2>1 DEF Grows
<1> QED
  BY <1>8, <1>9, <1>g

LEMMA RemoteRecvStep == IInv /\ RemoteRecv => IInv' /\ Grows
<1> SUFFICES ASSUME IInv, RemoteRecv PROVE IInv' /\ Grows
  OBVIOUS
<1>0. PICK r \in 1..BufSize, s \in Nat :
        /\ s \in 0..r
        /\ got' = got + r
        /\ toClient' = toClient \o Bytes(got + 1, s)
        /\ buf' = IF s < r THEN [first |-> got + 1, idx |-> s, len |-> r - s]
                           ELSE [first |-> got + 1, idx |-> buf.idx, len |-> r]
        /\ active' = IF s < r
                     THEN (active \ {"remote_recv"}) \cup {"server_send"}
                     ELSE active
  <2>1. \A n \in 1..BufSize : 0..n \subseteq Nat
    BY LenAssumption
  <2> QED
    BY <2>1 DEF RemoteRecv, Switch, Filled
<1>1. /\ "remote_recv" \in active
      /\ UNCHANGED <<running, fast_open, strikes, kind, srv, stage, hdr, rem, rbuf,
                     connected, query, asked, found, wire, out, toRemote>>
  BY DEF RemoteRecv, global, remote, resolver
<1>2. r \in Nat /\ r > 0
  BY LenAssumption
<1>3. srv /\ stage = "STREAM" /\ "server_send" \notin active
  BY <1>1 DEF IInv, TypeOK, Shape, Early, Stages, RemoteWatchers
<1>4. /\ Len(toClient) = got /\ got \in Nat /\ got + 1 \in Nat
      /\ toClient \in Seq(Nat) /\ toClient = Bytes(1, Len(toClient))
  BY <1>1 DEF IInv, TypeOK, Account, InOrder
<1>5. /\ toClient' \in Seq(Nat)
      /\ Len(toClient') = Len(toClient) + s
      /\ toClient' = Bytes(1, Len(toClient'))
  BY <1>0, <1>4, AppendBytes
<1>6. /\ buf' \in Buffers
      /\ s < r => buf'.first = got + 1 /\ buf'.idx = s /\ buf'.len = r - s
  <2>1. buf.idx \in Nat
    BY BufferFields DEF IInv, TypeOK
  <2>2. r - s \in Nat
    BY <1>0, <1>2
  <2>3. CASE s < r
    BY <1>0, <1>2, <1>4, <2>1, <2>2, <2>3 DEF Buffers
  <2>4. CASE ~(s < r)
    BY <1>0, <1>2, <1>4, <2>1, <2>2, <2>4 DEF Buffers
  <2> QED
    BY <2>3, <2>4
<1>7. got' \in Nat /\ Len(toClient') <= got'
  BY <1>0, <1>2, <1>4, <1>5
<1>8. TypeOK'
  BY <1>0, <1>1, <1>5, <1>6, <1>7 DEF IInv, TypeOK, ServerWatchers
<1>9. Shape'
  BY <1>0, <1>1, <1>3 DEF IInv, Shape, Early
<1>10. InOrder'
  BY <1>0, <1>1, <1>5 DEF IInv, InOrder
<1>11. Bounded'
  BY <1>1, <1>7 DEF IInv, Bounded
<1>12. ASSUME s < r PROVE IInv'
  <2>1. /\ buf'.len > 0
        /\ Len(toClient') + buf'.len = got'
        /\ buf'.first + buf'.idx = Len(toClient') + 1
    <3>1. /\ Len(toClient') = got + s /\ got' = got + r /\ buf'.len = r - s
          /\ buf'.first = got + 1 /\ buf'.idx = s
      BY <1>0, <1>4, <1>5, <1>6, <1>12
    <3> QED
      BY <3>1, <1>2, <1>4, <1>12
  <2>2. "remote_recv" \notin active'
    BY <1>0, <1>12
  <2>3. Account'
    BY <1>0, <1>1, <1>3, <1>12, <2>1, <2>2 DEF IInv, Account, Early
  <2> QED
    BY <1>8, <1>9, <1>10, <1>11, <2>3 DEF IInv
<1>13. ASSUME ~(s < r) PROVE IInv'
  <2>1. Len(toClient') = got'
    <3>1. s = r
      BY <1>0, <1>2, <1>13
    <3> QED
      BY <3>1, <1>0, <1>4, <1>5
  <2>2. Account'
    BY <1>0, <1>1, <1>3, <1>13, <2>1 DEF IInv, Account, Early
  <2> QED
    BY <1>8, <1>9, <1>10, <1>11, <2>2 DEF IInv
<1>g. Grows
  <2>1. out' = out /\ toRemote' = toRemote /\ out \in Nat /\ Len(toRemote) \in Nat
    BY <1>1 DEF IInv, TypeOK
  <2>2. got <= got'
    BY <1>0, <1>2, <1>4
  <2>3. Len(toClient) <= Len(toClient')
    BY <1>4, <1>5
  <2> QED
    BY <2>1, <2>2, <2>3 DEF Grows
<1> QED
  BY <1>12, <1>13, <1>g

LEMMA ServerSendStep == IInv /\ ServerSend => IInv' /\ Grows
<1> SUFFICES ASSUME IInv, ServerSend PROVE IInv' /\ Grows
  OBVIOUS
<1>0. PICK s \in 0..buf.len :
        /\ toClient' = toClient \o Bytes(buf.first + buf.idx, s)
        /\ IF s < buf.len
           THEN /\ buf' = Advance(buf, s)
                /\ UNCHANGED active
           ELSE /\ buf' = [buf EXCEPT !.idx = 0, !.len = 0]
                /\ active' = (active \ {"server_send"}) \cup {"remote_recv"}
  BY DEF ServerSend, Switch
<1>1. /\ "server_send" \in active
      /\ UNCHANGED <<running, fast_open, strikes, kind, srv, stage, hdr, rem, rbuf,
                     connected, query, asked, found, wire, out, toRemote, got>>
  BY DEF ServerSend, global, remote, resolver
<1>2. srv /\ stage = "STREAM" /\ "remote_recv" \notin active
  BY <1>1 DEF IInv, TypeOK, Shape, Early, Stages, ServerWatchers
<1>3. /\ buf \in Buffers /\ buf.len \in Nat /\ buf.first \in Nat /\ buf.idx \in Nat
      /\ buf.len > 0
      /\ toClient \in Seq(Nat) /\ Len(toClient) \in Nat /\ got \in Nat
      /\ Len(toClient) + buf.len = got
      /\ buf.first + buf.idx = Len(toClient) + 1
      /\ toClient = Bytes(1, Len(toClient))
  BY <1>1, BufferFields DEF IInv, TypeOK, Account, InOrder
<1>4. s \in Nat /\ Len(toClient) + 1 \in Nat
  BY <1>3
<1>5. /\ toClient' \in Seq(Nat)
      /\ Len(toClient') = Len(toClient) + s
      /\ toClient' = Bytes(1, Len(toClient'))
  <2>1. toClient' = toClient \o Bytes(Len(toClient) + 1, s)
    BY <1>0, <1>3
  <2> QED
    BY <2>1, <1>3, <1>4, AppendBytes
<1>6. InOrder'
  <2>1. "remote_send" \in active' => "remote_send" \in active
    BY <1>0
  <2> QED
    BY <1>1, <1>5, <2>1 DEF IInv, InOrder
<1>7. ASSUME s < buf.len PROVE IInv'
  <2>1. /\ buf' \in Buffers /\ buf'.first = buf.first
        /\ buf'.idx = buf.idx + s /\ buf'.len = buf.len - s
        /\ active' = active
    BY <1>0, <1>3, <1>7, BufferAdvanced
  <2>2. TypeOK'
    BY <1>1, <1>5, <2>1 DEF IInv, TypeOK
  <2>3. Shape'
    BY <1>1, <2>1 DEF IInv, Shape
  <2>4. /\ buf'.len > 0
        /\ Len(toClient') + buf'.len = got'
        /\ buf'.first + buf'.idx = Len(toClient') + 1
        /\ Len(toClient') <= got'
    <3>1. 0 + Len(toClient) + buf.len = got /\ 0 \in Nat
      BY <1>3
    <3>2. /\ 0 + (Len(toClient) + s) + (buf.len - s) = got
          /\ 0 + (Len(toClient) + s) <= got
          /\ buf.len - s > 0
      BY <3>1, <1>3, <1>7, Moved
    <3>3. buf.first + buf.idx = 0 + Len(toClient) + 1
      BY <1>3
    <3>4. buf.first + (buf.idx + s) = 0 + (Len(toClient) + s) + 1
      <4> DEFINE f == buf.first
                 i == buf.idx
                 l == Len(toClient)
      <4>1. f \in Nat /\ i \in Nat /\ l \in Nat /\ 0 \in Nat /\ s \in Nat
        BY <1>3, <1>4
      <4>2. f + i = 0 + l + 1
        BY <3>3
      <4> HIDE DEF f, i, l
      <4>3. f + (i + s) = 0 + (l + s) + 1
        BY <4>1, <4>2, MovedFirst
      <4> QED
        BY <4>3 DEF f, i, l
    <3>5. 0 + (Len(toClient) + s) = Len(toClient) + s
      BY <1>3, <1>4
    <3> QED
      BY <3>2, <3>4, <3>5, <1>1, <1>5, <2>1
  <2>5. Account' /\ Bounded'
    BY <1>1, <1>2, <2>1, <2>4 DEF IInv, Account, Bounded, Early
  <2> QED
    BY <1>6, <2>2, <2>3, <2>5 DEF IInv
<1>8. ASSUME ~(s < buf.len) PROVE IInv'
  <2>1. /\ buf' = [buf EXCEPT !.idx = 0, !.len = 0]
        /\ active' = (active \ {"server_send"}) \cup {"remote_recv"}
        /\ s = buf.len
    BY <1>0, <1>3, <1>8
  <2>2. buf' \in Buffers
    BY <1>3, <2>1, BufferZero
  <2>3. TypeOK'
    BY <1>1, <1>5, <2>1, <2>2 DEF IInv, TypeOK, RemoteWatchers
  <2>4. Shape'
    BY <1>1, <1>2, <2>1 DEF IInv, Shape, Early
  <2>5. Len(toClient') = got' /\ Len(toClient') <= got'
    BY <1>1, <1>3, <1>5, <2>1
  <2>6. Account' /\ Bounded'
    BY <1>1, <1>2, <2>1, <2>5 DEF IInv, Account, Bounded, Early
  <2> QED
    BY <1>6, <2>3, <2>4, <2>6 DEF IInv
<1>g. Grows
  <2>1. /\ out' = out /\ toRemote' = toRemote /\ got' = got
        /\ out \in Nat /\ Len(toRemote) \in Nat
    BY <1>1 DEF IInv, TypeOK
  <2> QED
    BY <1>3, <1>4, <1>5, <2>1 DEF Grows
<1> QED
  BY <1>7, <1>8, <1>g

LEMMA ClearBlockListStep == IInv /\ ClearBlockList => IInv'
<1> SUFFICES ASSUME IInv, ClearBlockList PROVE IInv'
  OBVIOUS
<1>1. /\ strikes' \in Nat
      /\ UNCHANGED <<running, fast_open, kind, srv, stage, buf, hdr, wire, out, rem,
                     rbuf, connected, query, asked, found, active, toRemote, got,
                     toClient>>
  BY DEF ClearBlockList, server, remote, resolver, ghost
<1>2. TypeOK'
  BY <1>1 DEF IInv, TypeOK
<1>3. Shape' /\ Account' /\ InOrder' /\ Bounded'
  BY <1>1 DEF IInv, Shape, Account, InOrder, Bounded
<1> QED
  BY <1>2, <1>3 DEF IInv

\* The steps that close the whole connection.
Closing ==
  \/ ServerRecvClosed
  \/ RemoteSendClosed
  \/ RemoteRecvClosed
  \/ ServerSendClosed
  \/ Timeout
  \/ Shutdown

LEMMA ClosingFacts ==
  ASSUME TypeOK, Closing
  PROVE  /\ CloseBoth /\ running' \in BOOLEAN /\ fast_open' = fast_open
         /\ strikes' \in Nat /\ UNCHANGED ghost
<1>1. strikes \in Nat /\ running \in BOOLEAN
  BY DEF TypeOK
<1>2. \A l \in {1, 2, 4, 8} : Reported(l) \in Nat
  BY <1>1, ReportedType
<1>3. strikes' = strikes \/ strikes' = 0 \/ \E l \in {1, 2, 4, 8} : strikes' = Reported(l)
  BY DEF Closing, ServerRecvClosed, RemoteSendClosed, RemoteRecvClosed,
     ServerSendClosed, Timeout, Shutdown, global, report_addr, MALICIOUS, BAD,
     SUSPICIOUS
<1>4. strikes' \in Nat
  BY <1>1, <1>2, <1>3
<1>5. CloseBoth /\ running' \in {running, FALSE} /\ fast_open' = fast_open /\ UNCHANGED ghost
  BY DEF Closing, ServerRecvClosed, RemoteSendClosed, RemoteRecvClosed,
     ServerSendClosed, Timeout, Shutdown, global
<1> QED
  BY <1>1, <1>4, <1>5

LEMMA ClosingStep == IInv /\ Closing => IInv'
<1> SUFFICES ASSUME IInv, Closing PROVE IInv'
  OBVIOUS
<1>1. TypeOK
  BY DEF IInv
<1> QED
  BY <1>1, ClosingFacts, CloseBothStep

LEMMA StutterStep == IInv /\ UNCHANGED vars => IInv'
<1> SUFFICES ASSUME IInv, UNCHANGED vars PROVE IInv'
  OBVIOUS
<1> USE DEF vars
<1>1. TypeOK'
  BY DEF IInv, TypeOK
<1>2. Shape' /\ Account' /\ InOrder' /\ Bounded'
  BY DEF IInv, Shape, Account, InOrder, Bounded
<1> QED
  BY <1>1, <1>2 DEF IInv

LEMMA NextIInv == IInv /\ [Next]_vars => IInv'
<1> SUFFICES ASSUME IInv, [Next]_vars PROVE IInv'
  OBVIOUS
<1> QED
  BY AcceptStep, ServerRecvDiscardStep, ServerRecvWaitStep, ServerRecvHoldStep,
     ServerRecvHeaderStep, ParseFailsStep, ParseConnectStep, ParseQueryStep,
     ServerRecvStreamStep, DnsAnswerStep, ResolveFailsStep, ResolveConnectStep,
     RemoteConnectedStep, RemoteSendStep, RemoteRecvStep, ServerSendStep,
     ClearBlockListStep, ClosingStep, StutterStep
  DEF Next, ServerRecv, Resolver, Relay, Closing

\* The inductive invariant holds in every reachable state.
THEOREM Invariance == Spec => []IInv
<1>1. IInv /\ [Next]_vars => IInv'
  BY NextIInv
<1> QED
  BY <1>1, InitIInv, PTL DEF Spec

-----------------------------------------------------------------------------
(* What follows from it.                                                   *)

\* Every variable of the connection keeps its type.
THEOREM TypeCorrect == Spec => []TypeOK
<1>1. IInv => TypeOK
  BY DEF IInv
<1> QED
  BY <1>1, Invariance, PTL

\* No libev watcher and no DNS query outlives the object its callback uses.
THEOREM CallbacksSafe == Spec => []NoStrayCallback
<1>1. IInv => NoStrayCallback
  <2> SUFFICES ASSUME IInv PROVE NoStrayCallback
    OBVIOUS
  <2>1. active \cap ServerWatchers # {} => srv
    BY DEF IInv, Shape, ServerWatchers
  <2>2. active \cap RemoteWatchers # {} => rem
    BY DEF IInv, TypeOK, Shape, RemoteWatchers, Early, Stages
  <2>3. asked # {} => srv /\ query /\ ~rem
    BY AskedFacts DEF IInv, Shape
  <2>4. rem => srv
    BY DEF IInv, Shape
  <2> QED
    BY <2>1, <2>2, <2>3, <2>4 DEF NoStrayCallback
<1> QED
  BY <1>1, Invariance, PTL

\* server_recv_cb runs only where server->remote is what the stage needs.
THEOREM RecvStageSafe == Spec => []RecvStage
<1>1. IInv => RecvStage
  BY DEF IInv, TypeOK, Shape, RecvStage, Early, Stages, ServerWatchers
<1> QED
  BY <1>1, Invariance, PTL

\* Without fast open both streams arrive intact.
THEOREM StreamsIntact == ~FastOpen => (Spec => []StreamIntact)
<1> SUFFICES ASSUME ~FastOpen PROVE Spec => []StreamIntact
  OBVIOUS
<1>1. IInv => StreamIntact
  BY DEF IInv, InOrder, StreamIntact
<1> QED
  BY <1>1, Invariance, PTL

\* Nothing is received over unsent bytes.
THEOREM NeverOverwrites == Spec => []NothingOverwritten
<1>1. IInv => NothingOverwritten
  <2> SUFFICES ASSUME IInv PROVE NothingOverwritten
    OBVIOUS
  <2>1. HdrLen \in Nat /\ Len(toRemote) \in Nat
    BY LenAssumption DEF IInv, TypeOK
  <2>2. "server_recv" \in active => srv
    BY DEF IInv, Shape, ServerWatchers
  <2>3. "server_recv" \in active /\ stage = "STREAM" => HdrLen + Len(toRemote) = out
    BY <2>2 DEF IInv, Account
  <2>4. "server_recv" \in active /\ stage = "STREAM" => Len(toRemote) + HdrLen = out
    BY <2>1, <2>3
  <2>5. "remote_recv" \in active => Len(toClient) = got
    BY DEF IInv, Account
  <2> QED
    BY <2>4, <2>5 DEF NothingOverwritten
<1> QED
  BY <1>1, Invariance, PTL

\* No send watcher runs into the "close and free" of an empty buffer.
THEOREM NeverClosesIdle == Spec => []NoSpuriousClose
<1>1. IInv => NoSpuriousClose
  BY DEF IInv, Account, NoSpuriousClose
<1> QED
  BY <1>1, Invariance, PTL

\* A live connection always has its timer and something to wait for.
THEOREM AlwaysWaiting == Spec => []SomebodyWaits
<1>1. IInv => SomebodyWaits
  BY DEF IInv, TypeOK, Shape, SomebodyWaits, Early, Stages
<1> QED
  BY <1>1, Invariance, PTL

-----------------------------------------------------------------------------
(* The refinement of SsrPipe.                                              *)

\* Two numbers and what they are compared with.
LEMMA NumberFacts ==
  ASSUME IInv
  PROVE  /\ out \in Nat /\ got \in Nat
         /\ toRemote \in Seq(Nat) /\ toClient \in Seq(Nat)
         /\ Len(toRemote) \in Nat /\ Len(toClient) \in Nat
  BY DEF IInv, TypeOK

\* What is behind h bytes of a stream grows with the stream.
LEMMA BehindGrows ==
  ASSUME NEW h \in Nat, NEW o \in Nat, NEW p \in Nat, NEW l \in Nat, o <= p,
         l = 0 \/ h + l <= p
  PROVE  /\ (IF o > h THEN o - h ELSE 0) <= (IF p > h THEN p - h ELSE 0)
         /\ (IF p > h THEN p - h ELSE 0) \in Nat
         /\ l <= (IF p > h THEN p - h ELSE 0)
  OBVIOUS

\* The streams only grow while a connection lives.
LEMMA NextGrows ==
  ASSUME IInv, IInv', Next, ~Accept
  PROVE  Grows /\ (~srv => ~srv' /\ UNCHANGED <<out, toRemote, got, toClient>>)
<1>1. /\ out \in Nat /\ got \in Nat
      /\ toRemote \in Seq(Nat) /\ toClient \in Seq(Nat)
      /\ Len(toRemote) \in Nat /\ Len(toClient) \in Nat
  BY NumberFacts
<1>2. out' \in Nat /\ Len(toRemote') \in Nat
  BY DEF IInv, TypeOK
<1>3. ~srv => active = {} /\ asked = {}
  BY DEF IInv, TypeOK, Shape, ServerWatchers, RemoteWatchers
<1>4. ASSUME UNCHANGED <<out, toRemote, got, toClient>>
      PROVE  Grows
  BY <1>1, <1>4 DEF Grows
<1>5. CASE Closing
  <2>1. ~srv' /\ UNCHANGED <<out, toRemote, got, toClient>>
    BY <1>5, ClosingFacts DEF IInv, CloseBoth, CloseServer, Freed, ghost
  <2> QED
    BY <2>1, <1>4
<1>6. CASE ServerRecvDiscard \/ ServerRecvWait
  BY <1>3, <1>4, <1>6 DEF ServerRecvDiscard, ServerRecvWait, ghost
<1>7. CASE ServerRecvHold
  <2>1. out' = out + 0 /\ srv
    BY <1>3, <1>7 DEF ServerRecvHold, Release, Received
  <2>2. UNCHANGED <<out, toRemote, got, toClient>>
    BY <1>1, <1>7, <2>1 DEF ServerRecvHold, ghost
  <2> QED
    BY <2>1, <2>2, <1>4
<1>8. CASE ServerRecvHeader
  <2>1. PICK r \in RecvSizes, k \in ReleaseSizes : Release(r, k) /\ Received(r, k)
    BY <1>8 DEF ServerRecvHeader
  <2>2. k \in Nat /\ out' = out + k /\ srv
    BY <2>1, ReleaseFacts DEF Received
  <2>3. UNCHANGED <<toRemote, got, toClient>>
    BY <1>8 DEF ServerRecvHeader, ghost
  <2> QED
    BY <1>1, <2>2, <2>3 DEF Grows
<1>9. CASE ParseFails
  <2>1. UNCHANGED <<out, toRemote, got, toClient>> /\ ~srv'
    BY <1>9 DEF ParseFails, CloseServerOnly, CloseServer, Freed, ghost
  <2> QED
    BY <2>1, <1>4
<1>10. CASE ParseConnect \/ ParseQuery
  <2>1. PICK r \in RecvSizes, k \in ReleaseSizes :
          HeaderTaken(r, k) /\ Received(r, k) /\ hdr + k >= HdrLen
    BY <1>10 DEF ParseConnect, ParseQuery
  <2>2. toRemote = <<>> /\ srv
    BY <2>1, HeaderFacts
  <2>3. k \in Nat /\ out' = out + k
    BY <2>1, ReleaseFacts DEF Received, HeaderTaken
  <2>4. UNCHANGED <<got, toClient>>
    BY <1>10 DEF ParseConnect, ParseQuery, ghost
  <2>5. Len(toRemote) <= Len(toRemote')
    BY <1>2, <2>2, NoBytes
  <2> QED
    BY <1>1, <2>2, <2>3, <2>4, <2>5 DEF Grows
<1>11. CASE ServerRecvStream
  <2>1. srv
    BY <1>3, <1>11 DEF ServerRecvStream, Release
  <2> QED
    BY <2>1, <1>11, ServerRecvStreamStep
<1>12. CASE DnsAnswer \/ ResolveFails
  BY <1>3, <1>4, <1>12 DEF DnsAnswer, ResolveFails, Freed, server, ghost
<1>13. CASE ResolveConnect
  <2>1. asked # {}
    BY <1>13 DEF ResolveConnect
  <2>2. srv /\ stage = "RESOLVE" /\ ~rem
    BY <2>1, AskedFacts
  <2>3. toRemote = <<>>
    BY <2>2 DEF IInv, Account
  <2>4. UNCHANGED <<out, got, toClient>>
    BY <1>13 DEF ResolveConnect
  <2>5. Len(toRemote) <= Len(toRemote')
    BY <1>2, <2>3, NoBytes
  <2> QED
    BY <1>1, <2>2, <2>4, <2>5 DEF Grows
<1>14. CASE RemoteConnected \/ ClearBlockList
  BY <1>3, <1>4, <1>14 DEF RemoteConnected, ClearBlockList, server, ghost
<1>15. CASE RemoteSend
  BY <1>3, <1>15, RemoteSendStep DEF RemoteSend
<1>16. CASE RemoteRecv
  BY <1>3, <1>16, RemoteRecvStep DEF RemoteRecv
<1>17. CASE ServerSend
  BY <1>3, <1>17, ServerSendStep DEF ServerSend
<1> QED
  BY <1>5, <1>6, <1>7, <1>8, <1>9, <1>10, <1>11, <1>12, <1>13, <1>14, <1>15,
     <1>16, <1>17
  DEF Next, ServerRecv, Resolver, Relay, Closing

\* Without fast open the connection implements the byte pipe of SsrPipe: its
\* initial states are the pipe's, and every step opens, relays or stutters.
THEOREM Refinement == ~FastOpen => (Spec => IsPipe)
<1> SUFFICES ASSUME ~FastOpen PROVE Spec => IsPipe
  OBVIOUS
<1> DEFINE E == {"remote", "client"}
           Taken == [e \in E |-> IF e = "client" THEN got
                                 ELSE IF out > HdrLen THEN out - HdrLen ELSE 0]
           Given == [e \in E |-> IF e = "client" THEN toClient ELSE toRemote]
<1>1. Init => Pipe!Init
  <2> SUFFICES ASSUME Init PROVE Pipe!Init
    OBVIOUS
  <2>1. ~(0 > HdrLen)
    BY LenAssumption
  <2> QED
    BY <2>1 DEF Init, Pipe!Init
<1>2. ASSUME IInv, IInv', [Next]_vars PROVE [Pipe!Next]_(Pipe!vars)
  <2> USE <1>2
  <2>0. /\ out \in Nat /\ got \in Nat /\ HdrLen \in Nat
        /\ Len(toRemote) \in Nat /\ Len(toClient) \in Nat
    BY NumberFacts, LenAssumption
  <2>1. /\ out' \in Nat /\ got' \in Nat
        /\ toRemote' \in Seq(Nat) /\ toClient' \in Seq(Nat) /\ srv' \in BOOLEAN
    BY DEF IInv, TypeOK
  <2>2. CASE UNCHANGED vars
    BY <2>2 DEF vars, Pipe!vars
  <2>3. CASE Accept
    <3>1. ~(0 > HdrLen)
      BY LenAssumption
    <3>2. Pipe!Open
      BY <2>3, <3>1 DEF Accept, Pipe!Open
    <3> QED
      BY <3>2 DEF Pipe!Next
  <2>4. CASE Next /\ ~Accept
    <3>1. Grows /\ (~srv => ~srv' /\ UNCHANGED <<out, toRemote, got, toClient>>)
      BY <2>4, NextGrows
    <3>2. CASE ~srv
      <4>1. srv' = srv
        BY <3>1, <3>2, <2>1 DEF IInv, TypeOK
      <4> QED
        BY <3>1, <3>2, <4>1 DEF Pipe!vars
    <3>3. CASE srv
      <4>1. /\ toRemote' = Bytes(1, Len(toRemote')) /\ toClient' = Bytes(1, Len(toClient'))
            /\ Len(toRemote') = 0 \/ HdrLen + Len(toRemote') <= out'
            /\ Len(toClient') <= got'
        BY DEF IInv, InOrder, Bounded
      <4>2. Len(toRemote') \in Nat /\ Len(toClient') \in Nat
        BY <2>1
      <4> DEFINE T == IF out > HdrLen THEN out - HdrLen ELSE 0
                 U == IF out' > HdrLen THEN out' - HdrLen ELSE 0
      <4>3. /\ T <= U /\ U \in Nat
            /\ Len(toRemote') <= U
        <5>1. out <= out' /\ out \in Nat /\ out' \in Nat /\ HdrLen \in Nat
          BY <2>0, <2>1, <3>1 DEF Grows
        <5> QED
          BY <5>1, <4>1, <4>2, BehindGrows
      <4>4. /\ got <= got' /\ Len(toRemote) <= Len(toRemote')
            /\ Len(toClient) <= Len(toClient')
        BY <3>1 DEF Grows
      <4>5. Taken' \in [E -> Nat] /\ Given' \in [E -> Seq(Nat)]
        BY <2>1, <4>3
      <4>6. /\ Taken["client"] = got /\ Taken'["client"] = got'
            /\ Taken["remote"] = T /\ Taken'["remote"] = U
            /\ Given["client"] = toClient /\ Given'["client"] = toClient'
            /\ Given["remote"] = toRemote /\ Given'["remote"] = toRemote'
        OBVIOUS
      <4> HIDE DEF T, U
      <4>7. \A e \in E :
              /\ Taken[e] <= Taken'[e]
              /\ Len(Given[e]) <= Len(Given'[e])
              /\ Len(Given'[e]) <= Taken'[e]
              /\ Given'[e] = Bytes(1, Len(Given'[e]))
        <5> HIDE DEF Taken, Given
        <5> QED
          BY <4>1, <4>3, <4>4, <4>6
      <4>8. Pipe!Relay
        BY <2>1, <3>3, <4>5, <4>7 DEF Pipe!Relay, Pipe!Bytes, Bytes
      <4> QED
        BY <4>8 DEF Pipe!Next
    <3> QED
      BY <3>2, <3>3
  <2> QED
    BY <2>2, <2>3, <2>4
<1> QED
  BY <1>1, <1>2, Invariance, PTL DEF Spec, IsPipe, Pipe!Spec
=============================================================================
