--------------------------- MODULE XlNetAccProof ---------------------------
(***************************************************************************)
(* Proofs about the acceleration daemon, for every retry limit and every   *)
(* number of signals.                                                      *)
(***************************************************************************)
EXTENDS XlNetAcc, TLAPS

(* The sites between a login and the first upgrade: nothing is upgraded. *)
BeforeUpgrade ==
  {"login", "getuserinfo", "renewal", "portal1", "portal2", "bandwidth1",
   "bandwidth2", "upgrade1"}

(* The sites reached only with a session, and in the main loop. *)
LoggedIn ==
  (BeforeUpgrade \ {"login"}) \cup {"upgrade2", "sleep", "keepalive1", "keepalive2"}

(* An answer in hand belongs to a call in progress, and says what it says. *)
ReplyInv ==
  /\ reply # "none" => pc \in CallSites /\ ~Skipped(pc)
  /\ pc \in {"recover1", "recover2", "logout"} =>
       reply \in {"none", "ok", "lost", "refused"}
  /\ pc = "logout" /\ reply = "ok" => "cur" \notin live
  /\ \A d \in Dirs : Op(pc) = "recover" /\ DirOf(pc) = d /\ reply = "ok" => ~line[d]

(* Where the daemon has a session, and where it has none. *)
SessionInv ==
  /\ pc \in LoggedIn => session /\ leaving = "loop"
  /\ pc = "login" => ~session /\ leaving = "loop"
  /\ pc \in {"recover1", "recover2", "logout"} => session
  /\ pc = "exited" => ~session
  /\ pc = "finish" /\ session => TheSession \in unacked

(* Where a direction may be upgraded, and where that is no longer known. *)
UpgradeInv ==
  /\ pc \in BeforeUpgrade => \A d \in Dirs : acc[d] # 2
  /\ pc = "upgrade2" => acc[2] # 2
  /\ (pc = "bind_ip" \/ (pc = "enter_logout" /\ leaving = "loop")) /\ ~session
       => \A d \in Dirs : acc[d] # 2
  /\ pc = "recover2" /\ acc[1] = 2 => 1 \in unacked
  /\ \A d \in Dirs : acc[d] = 2 /\ (~session \/ pc \in {"logout", "finish"})
       => d \in unacked

(* The sites that call a portal come after the query for it. *)
PortalInv ==
  /\ \A d \in Dirs : acc[d] = 2 => portal[d]
  /\ pc = "portal2" /\ acc[1] = 1 => portal[1]
  /\ pc \in {"bandwidth1", "bandwidth2", "upgrade1", "upgrade2"} =>
       \A d \in Dirs : acc[d] = 1 => portal[d]

(* The keepalive loop is entered with every wanted direction upgraded. *)
WantedInv ==
  /\ pc \in {"renewal", "portal1", "portal2", "bandwidth1", "upgrade1", "upgrade2"}
       => ~NoneWanted(acc)
  /\ pc = "upgrade2" => acc[1] # 1
  /\ KeepaliveComplete

IInv ==
  TypeOK /\ ReplyInv /\ SessionInv /\ UpgradeInv /\ PortalInv /\ WantedInv
  /\ Accounted




(* The invariant holds when xlnetacc_main starts. *)
LEMMA InitIInv == Init => IInv
<1> SUFFICES ASSUME Init PROVE IInv
  OBVIOUS
<1> USE DEF Init, Dirs, TheSession, Sites, CallSites, RetrySites, Replies
<1>1. TypeOK
  <2>1. acc \in [Dirs -> 0..2]
    OBVIOUS
  <2>2. portal \in [Dirs -> BOOLEAN] /\ line \in [Dirs -> BOOLEAN]
    OBVIOUS
  <2>3. live \in SUBSET {"cur", "old"} /\ unacked \in SUBSET (Dirs \cup {TheSession})
    OBVIOUS
  <2>4. pc \in Sites /\ retry \in Nat \ {0} /\ reply \in Replies \cup {"none"}
    OBVIOUS
  <2>5. /\ session \in BOOLEAN /\ loginkey \in BOOLEAN /\ dial \in BOOLEAN
        /\ healthy \in BOOLEAN /\ leaving \in {"loop", "end", "trap"}
        /\ signals \in Nat
    OBVIOUS
  <2> QED BY <2>1, <2>2, <2>3, <2>4, <2>5 DEF TypeOK
<1>2. ReplyInv /\ SessionInv /\ UpgradeInv
  BY DEF ReplyInv, SessionInv, UpgradeInv, LoggedIn, BeforeUpgrade, Op
<1>3. PortalInv /\ WantedInv /\ Accounted
  BY DEF PortalInv, WantedInv, KeepaliveComplete, Accounted
<1>4. QED
  BY <1>1, <1>2, <1>3 DEF IInv

(* Setting one flag of a pair of flags gives a pair of flags. *)
LEMMA FlagUpdate ==
  ASSUME NEW f \in [Dirs -> BOOLEAN], NEW d \in Dirs, NEW b \in BOOLEAN
  PROVE  [f EXCEPT ![d] = b] \in [Dirs -> BOOLEAN]
OBVIOUS

(* The end of a session on the server takes a line at most down. *)
LEMMA ExpireLine ==
  ASSUME line \in [Dirs -> BOOLEAN], Expire
  PROVE  line' \in [Dirs -> BOOLEAN]
  BY DEF Expire

(* Every step of the daemon, the servers and the signals preserves it. *)
LEMMA NextIInv == IInv /\ [Next]_vars => IInv'
<1> SUFFICES ASSUME IInv, [Next]_vars PROVE IInv'
  OBVIOUS
<1> USE TriesAssumption DEF Dirs, TheSession, Sites, CallSites, RetrySites, Replies,
      LoggedIn, BeforeUpgrade, Op, DirOf, Need, Skipped, NoneWanted, IInv,
      TypeOK, ReplyInv, SessionInv, UpgradeInv, PortalInv, WantedInv,
      KeepaliveComplete, Accounted
<1>1. CASE BindIp
  BY <1>1 DEF BindIp, server
<1>2. CASE EnterLogout
  BY <1>2 DEF EnterLogout, AfterLogout, server
<1>3. CASE FinishLogout
  <2>1. TypeOK'
    <3>1. (pc \in Sites /\ retry \in Nat \ {0} /\ reply \in Replies \cup {"none"})'
      BY <1>3 DEF FinishLogout, AfterLogout, Success, server
    <3>2. (acc \in [Dirs -> 0..2])'
      BY <1>3 DEF FinishLogout, AfterLogout, Success, server
    <3>3. (session \in BOOLEAN /\ loginkey \in BOOLEAN /\ dial \in BOOLEAN)'
      BY <1>3 DEF FinishLogout, AfterLogout, Success, server
    <3>4. (portal \in [Dirs -> BOOLEAN] /\ leaving \in {"loop", "end", "trap"} /\ signals \in Nat)'
      BY <1>3 DEF FinishLogout, AfterLogout, Success, server
    <3>5. (live \in SUBSET {"cur", "old"})'
      BY <1>3 DEF FinishLogout, AfterLogout, Success, server
    <3>6. (line \in [Dirs -> BOOLEAN])'
      BY <1>3 DEF FinishLogout, AfterLogout, Success, server
    <3>7. (healthy \in BOOLEAN /\ unacked \in SUBSET (Dirs \cup {TheSession}))'
      BY <1>3 DEF FinishLogout, AfterLogout, Success, server
    <3> QED BY <3>1, <3>2, <3>3, <3>4, <3>5, <3>6, <3>7
  <2>2. ReplyInv'
    BY <1>3 DEF FinishLogout, AfterLogout, Success, server
  <2>3. SessionInv'
    BY <1>3 DEF FinishLogout, AfterLogout, Success, server
  <2>4. UpgradeInv'
    BY <1>3 DEF FinishLogout, AfterLogout, Success, server
  <2>5. PortalInv'
    BY <1>3 DEF FinishLogout, AfterLogout, Success, server
  <2>6. WantedInv'
    BY <1>3 DEF FinishLogout, AfterLogout, Success, server
  <2>7. Accounted'
    BY <1>3 DEF FinishLogout, AfterLogout, Success, server
  <2> QED BY <2>1, <2>2, <2>3, <2>4, <2>5, <2>6, <2>7
<1>4. CASE SkipCall
  <2>1. TypeOK'
    <3>1. (pc \in Sites /\ retry \in Nat \ {0} /\ reply \in Replies \cup {"none"})'
      BY <1>4 DEF SkipCall, AfterOk, Success, server
    <3>2. (acc \in [Dirs -> 0..2])'
      BY <1>4 DEF SkipCall, AfterOk, Success, server
    <3>3. (session \in BOOLEAN /\ loginkey \in BOOLEAN /\ dial \in BOOLEAN)'
      BY <1>4 DEF SkipCall, AfterOk, Success, server
    <3>4. (portal \in [Dirs -> BOOLEAN] /\ leaving \in {"loop", "end", "trap"} /\ signals \in Nat)'
      BY <1>4 DEF SkipCall, AfterOk, Success, server
    <3>5. (live \in SUBSET {"cur", "old"})'
      BY <1>4 DEF SkipCall, AfterOk, Success, server
    <3>6. (line \in [Dirs -> BOOLEAN])'
      BY <1>4 DEF SkipCall, AfterOk, Success, server
    <3>7. (healthy \in BOOLEAN /\ unacked \in SUBSET (Dirs \cup {TheSession}))'
      BY <1>4 DEF SkipCall, AfterOk, Success, server
    <3> QED BY <3>1, <3>2, <3>3, <3>4, <3>5, <3>6, <3>7
  <2>2. ReplyInv'
    BY <1>4 DEF SkipCall, AfterOk, Success, server
  <2>3. SessionInv'
    BY <1>4 DEF SkipCall, AfterOk, Success, server
  <2>4. UpgradeInv'
    BY <1>4 DEF SkipCall, AfterOk, Success, server
  <2>5. PortalInv'
    BY <1>4 DEF SkipCall, AfterOk, Success, server
  <2>6. WantedInv'
    BY ZenonT(60), <1>4 DEF SkipCall, AfterOk, Success, server
  <2>7. Accounted'
    BY <1>4 DEF SkipCall, AfterOk, Success, server
  <2> QED BY <2>1, <2>2, <2>3, <2>4, <2>5, <2>6, <2>7
<1>5. CASE Send
  <2>1. TypeOK'
    <3>1. (pc \in Sites /\ retry \in Nat \ {0} /\ reply \in Replies \cup {"none"})'
      BY <1>5 DEF Send, Serve, ServeLogin, ServeLogout, ServeUpgrade, ServeRecover,
        ServeKeepalive, ServeQuery, Known, server, Success
    <3>2. (acc \in [Dirs -> 0..2])'
      BY <1>5 DEF Send, Serve, ServeLogin, ServeLogout, ServeUpgrade, ServeRecover,
        ServeKeepalive, ServeQuery, Known, server, Success
    <3>3. (session \in BOOLEAN /\ loginkey \in BOOLEAN /\ dial \in BOOLEAN)'
      BY <1>5 DEF Send, Serve, ServeLogin, ServeLogout, ServeUpgrade, ServeRecover,
        ServeKeepalive, ServeQuery, Known, server, Success
    <3>4. (portal \in [Dirs -> BOOLEAN] /\ leaving \in {"loop", "end", "trap"} /\ signals \in Nat)'
      BY <1>5 DEF Send, Serve, ServeLogin, ServeLogout, ServeUpgrade, ServeRecover,
        ServeKeepalive, ServeQuery, Known, server, Success
    <3>5. (live \in SUBSET {"cur", "old"})'
      BY <1>5 DEF Send, Serve, ServeLogin, ServeLogout, ServeUpgrade, ServeRecover,
        ServeKeepalive, ServeQuery, Known, server, Success
    <3>6. (line \in [Dirs -> BOOLEAN])'
      <4>1. PICK r \in Replies : Serve(pc, r)
        BY <1>5 DEF Send
      <4>2. CASE Op(pc) = "upgrade"
        <5>1. ServeUpgrade(DirOf(pc), r) /\ DirOf(pc) \in Dirs
          BY <1>5, <4>1, <4>2 DEF Serve, Send
        <5>2. PICK d \in Dirs : ServeUpgrade(d, r)
          BY <5>1
        <5>3. line \in [Dirs -> BOOLEAN]
          OBVIOUS
        <5>4. line' = line \/ line' = [line EXCEPT ![d] = TRUE]
          BY <5>2 DEF ServeUpgrade
        <5>5. [line EXCEPT ![d] = TRUE] \in [Dirs -> BOOLEAN]
          BY <5>3, FlagUpdate
        <5> QED BY <5>3, <5>4, <5>5
      <4>3. CASE Op(pc) = "recover"
        <5>1. ServeRecover(DirOf(pc), r) /\ DirOf(pc) \in Dirs
          BY <1>5, <4>1, <4>3 DEF Serve, Send
        <5>2. PICK d \in Dirs : ServeRecover(d, r)
          BY <5>1
        <5>3. line \in [Dirs -> BOOLEAN]
          OBVIOUS
        <5>4. line' = line \/ line' = [line EXCEPT ![d] = FALSE]
          BY <5>2 DEF ServeRecover
        <5>5. [line EXCEPT ![d] = FALSE] \in [Dirs -> BOOLEAN]
          BY <5>3, FlagUpdate
        <5> QED BY <5>3, <5>4, <5>5
      <4>4. CASE Op(pc) \notin {"upgrade", "recover"}
        <5>1. UNCHANGED line
          BY <4>1, <4>4 DEF Serve, ServeLogin, ServeLogout, ServeKeepalive, ServeQuery
        <5> QED BY <5>1
      <4> QED BY <4>2, <4>3, <4>4
    <3>7. (healthy \in BOOLEAN /\ unacked \in SUBSET (Dirs \cup {TheSession}))'
      BY <1>5 DEF Send, Serve, ServeLogin, ServeLogout, ServeUpgrade, ServeRecover,
        ServeKeepalive, ServeQuery, Known, server, Success
    <3> QED BY <3>1, <3>2, <3>3, <3>4, <3>5, <3>6, <3>7
  <2>2. ReplyInv'
    BY <1>5 DEF Send, Serve, ServeLogin, ServeLogout, ServeUpgrade, ServeRecover,
        ServeKeepalive, ServeQuery, Known, server, Success
  <2>3. SessionInv'
    BY <1>5 DEF Send, Serve, ServeLogin, ServeLogout, ServeUpgrade, ServeRecover,
        ServeKeepalive, ServeQuery, Known, server, Success
  <2>4. UpgradeInv'
    BY <1>5 DEF Send, Serve, ServeLogin, ServeLogout, ServeUpgrade, ServeRecover,
        ServeKeepalive, ServeQuery, Known, server, Success
  <2>5. PortalInv'
    BY <1>5 DEF Send, Serve, ServeLogin, ServeLogout, ServeUpgrade, ServeRecover,
        ServeKeepalive, ServeQuery, Known, server, Success
  <2>6. WantedInv'
    BY <1>5 DEF Send, Serve, ServeLogin, ServeLogout, ServeUpgrade, ServeRecover,
        ServeKeepalive, ServeQuery, Known, server, Success
  <2>7. Accounted'
    BY <1>5 DEF Send, Serve, ServeLogin, ServeLogout, ServeUpgrade, ServeRecover,
        ServeKeepalive, ServeQuery, Known, server, Success
  <2> QED BY <2>1, <2>2, <2>3, <2>4, <2>5, <2>6, <2>7
<1>6. CASE HandleLogin
  <2>1. TypeOK'
    <3>1. (pc \in Sites /\ retry \in Nat \ {0} /\ reply \in Replies \cup {"none"})'
      BY <1>6 DEF HandleLogin, Success, server
    <3>2. (acc \in [Dirs -> 0..2])'
      BY <1>6 DEF HandleLogin, Success, server
    <3>3. (session \in BOOLEAN /\ loginkey \in BOOLEAN /\ dial \in BOOLEAN)'
      BY <1>6 DEF HandleLogin, Success, server
    <3>4. (portal \in [Dirs -> BOOLEAN] /\ leaving \in {"loop", "end", "trap"} /\ signals \in Nat)'
      BY <1>6 DEF HandleLogin, Success, server
    <3>5. (live \in SUBSET {"cur", "old"})'
      BY <1>6 DEF HandleLogin, Success, server
    <3>6. (line \in [Dirs -> BOOLEAN])'
      BY <1>6 DEF HandleLogin, Success, server
    <3>7. (healthy \in BOOLEAN /\ unacked \in SUBSET (Dirs \cup {TheSession}))'
      BY <1>6 DEF HandleLogin, Success, server
    <3> QED BY <3>1, <3>2, <3>3, <3>4, <3>5, <3>6, <3>7
  <2>2. ReplyInv'
    BY <1>6 DEF HandleLogin, Success, server
  <2>3. SessionInv'
    BY <1>6 DEF HandleLogin, Success, server
  <2>4. UpgradeInv'
    BY <1>6 DEF HandleLogin, Success, server
  <2>5. PortalInv'
    BY <1>6 DEF HandleLogin, Success, server
  <2>6. WantedInv'
    BY <1>6 DEF HandleLogin, Success, server
  <2>7. Accounted'
    BY <1>6 DEF HandleLogin, Success, server
  <2> QED BY <2>1, <2>2, <2>3, <2>4, <2>5, <2>6, <2>7
<1>7. CASE HandleOk
  <2>1. CASE pc = "recover1"
    <3>1. TypeOK'
      BY <1>7, <2>1 DEF HandleOk, NewAcc, AfterOk, Success, server
    <3>2. ReplyInv' /\ SessionInv'
      BY <1>7, <2>1 DEF HandleOk, NewAcc, AfterOk, Success, server
    <3>3. UpgradeInv' /\ PortalInv' /\ WantedInv'
      BY <1>7, <2>1 DEF HandleOk, NewAcc, AfterOk, Success, server
    <3>4. Accounted'
      BY <1>7, <2>1 DEF HandleOk, NewAcc, AfterOk, Success, server
    <3> QED BY <3>1, <3>2, <3>3, <3>4
  <2>2. CASE pc = "recover2"
    <3>1. TypeOK'
      BY <1>7, <2>2 DEF HandleOk, NewAcc, AfterOk, Success, server
    <3>2. ReplyInv' /\ SessionInv'
      BY <1>7, <2>2 DEF HandleOk, NewAcc, AfterOk, Success, server
    <3>3. UpgradeInv' /\ PortalInv' /\ WantedInv'
      BY <1>7, <2>2 DEF HandleOk, NewAcc, AfterOk, Success, server
    <3>4. Accounted'
      BY <1>7, <2>2 DEF HandleOk, NewAcc, AfterOk, Success, server
    <3> QED BY <3>1, <3>2, <3>3, <3>4
  <2>3. CASE pc = "logout"
    <3>1. TypeOK'
      BY <1>7, <2>3 DEF HandleOk, NewAcc, AfterOk, Success, server
    <3>2. ReplyInv' /\ SessionInv'
      BY <1>7, <2>3 DEF HandleOk, NewAcc, AfterOk, Success, server
    <3>3. UpgradeInv' /\ PortalInv' /\ WantedInv'
      BY <1>7, <2>3 DEF HandleOk, NewAcc, AfterOk, Success, server
    <3>4. Accounted'
      BY <1>7, <2>3 DEF HandleOk, NewAcc, AfterOk, Success, server
    <3> QED BY <3>1, <3>2, <3>3, <3>4
  <2>4. CASE pc = "getuserinfo"
    <3>1. TypeOK'
      BY <1>7, <2>4 DEF HandleOk, NewAcc, AfterOk, Success, server
    <3>2. ReplyInv' /\ SessionInv'
      BY <1>7, <2>4 DEF HandleOk, NewAcc, AfterOk, Success, server
    <3>3. UpgradeInv' /\ PortalInv' /\ WantedInv'
      <4>1. UpgradeInv'
        BY <1>7, <2>4 DEF HandleOk, NewAcc, AfterOk, Success, server
      <4>2. PortalInv'
        BY <1>7, <2>4 DEF HandleOk, NewAcc, AfterOk, Success, server
      <4>3. WantedInv'
        BY SMTT(30), <1>7, <2>4 DEF HandleOk, NewAcc, AfterOk, Success, server
      <4> QED BY <4>1, <4>2, <4>3
    <3>4. Accounted'
      BY <1>7, <2>4 DEF HandleOk, NewAcc, AfterOk, Success, server
    <3> QED BY <3>1, <3>2, <3>3, <3>4
  <2>5. CASE pc = "renewal"
    <3>1. TypeOK'
      BY <1>7, <2>5 DEF HandleOk, NewAcc, AfterOk, Success, server
    <3>2. ReplyInv' /\ SessionInv'
      BY <1>7, <2>5 DEF HandleOk, NewAcc, AfterOk, Success, server
    <3>3. UpgradeInv' /\ PortalInv' /\ WantedInv'
      BY <1>7, <2>5 DEF HandleOk, NewAcc, AfterOk, Success, server
    <3>4. Accounted'
      BY <1>7, <2>5 DEF HandleOk, NewAcc, AfterOk, Success, server
    <3> QED BY <3>1, <3>2, <3>3, <3>4
  <2>6. CASE pc = "portal1"
    <3>1. TypeOK'
      BY <1>7, <2>6 DEF HandleOk, NewAcc, AfterOk, Success, server
    <3>2. ReplyInv' /\ SessionInv'
      BY <1>7, <2>6 DEF HandleOk, NewAcc, AfterOk, Success, server
    <3>3. UpgradeInv' /\ PortalInv' /\ WantedInv'
      BY <1>7, <2>6 DEF HandleOk, NewAcc, AfterOk, Success, server
    <3>4. Accounted'
      BY <1>7, <2>6 DEF HandleOk, NewAcc, AfterOk, Success, server
    <3> QED BY <3>1, <3>2, <3>3, <3>4
  <2>7. CASE pc = "portal2"
    <3>1. TypeOK'
      BY <1>7, <2>7 DEF HandleOk, NewAcc, AfterOk, Success, server
    <3>2. ReplyInv' /\ SessionInv'
      BY <1>7, <2>7 DEF HandleOk, NewAcc, AfterOk, Success, server
    <3>3. UpgradeInv' /\ PortalInv' /\ WantedInv'
      BY <1>7, <2>7 DEF HandleOk, NewAcc, AfterOk, Success, server
    <3>4. Accounted'
      BY <1>7, <2>7 DEF HandleOk, NewAcc, AfterOk, Success, server
    <3> QED BY <3>1, <3>2, <3>3, <3>4
  <2>8. CASE pc = "bandwidth1"
    <3>1. TypeOK'
      BY <1>7, <2>8 DEF HandleOk, NewAcc, AfterOk, Success, server
    <3>2. ReplyInv' /\ SessionInv'
      BY <1>7, <2>8 DEF HandleOk, NewAcc, AfterOk, Success, server
    <3>3. UpgradeInv' /\ PortalInv' /\ WantedInv'
      BY <1>7, <2>8 DEF HandleOk, NewAcc, AfterOk, Success, server
    <3>4. Accounted'
      BY <1>7, <2>8 DEF HandleOk, NewAcc, AfterOk, Success, server
    <3> QED BY <3>1, <3>2, <3>3, <3>4
  <2>9. CASE pc = "bandwidth2"
    <3>1. TypeOK'
      BY <1>7, <2>9 DEF HandleOk, NewAcc, AfterOk, Success, server
    <3>2. ReplyInv' /\ SessionInv'
      BY <1>7, <2>9 DEF HandleOk, NewAcc, AfterOk, Success, server
    <3>3. UpgradeInv' /\ PortalInv' /\ WantedInv'
      <4>1. UpgradeInv'
        BY <1>7, <2>9 DEF HandleOk, NewAcc, AfterOk, Success, server
      <4>2. PortalInv'
        BY <1>7, <2>9 DEF HandleOk, NewAcc, AfterOk, Success, server
      <4>3. WantedInv'
        BY SMTT(30), <1>7, <2>9 DEF HandleOk, NewAcc, AfterOk, Success, server
      <4> QED BY <4>1, <4>2, <4>3
    <3>4. Accounted'
      BY <1>7, <2>9 DEF HandleOk, NewAcc, AfterOk, Success, server
    <3> QED BY <3>1, <3>2, <3>3, <3>4
  <2>10. CASE pc = "upgrade1"
    <3>1. TypeOK'
      BY <1>7, <2>10 DEF HandleOk, NewAcc, AfterOk, Success, server
    <3>2. ReplyInv' /\ SessionInv'
      BY <1>7, <2>10 DEF HandleOk, NewAcc, AfterOk, Success, server
    <3>3. UpgradeInv' /\ PortalInv' /\ WantedInv'
      BY <1>7, <2>10 DEF HandleOk, NewAcc, AfterOk, Success, server
    <3>4. Accounted'
      BY <1>7, <2>10 DEF HandleOk, NewAcc, AfterOk, Success, server
    <3> QED BY <3>1, <3>2, <3>3, <3>4
  <2>11. CASE pc = "upgrade2"
    <3>1. TypeOK'
      BY <1>7, <2>11 DEF HandleOk, NewAcc, AfterOk, Success, server
    <3>2. ReplyInv' /\ SessionInv'
      BY <1>7, <2>11 DEF HandleOk, NewAcc, AfterOk, Success, server
    <3>3. UpgradeInv' /\ PortalInv' /\ WantedInv'
      BY <1>7, <2>11 DEF HandleOk, NewAcc, AfterOk, Success, server
    <3>4. Accounted'
      BY <1>7, <2>11 DEF HandleOk, NewAcc, AfterOk, Success, server
    <3> QED BY <3>1, <3>2, <3>3, <3>4
  <2>12. CASE pc = "keepalive1"
    <3>1. TypeOK'
      BY <1>7, <2>12 DEF HandleOk, NewAcc, AfterOk, Success, server
    <3>2. ReplyInv' /\ SessionInv'
      BY <1>7, <2>12 DEF HandleOk, NewAcc, AfterOk, Success, server
    <3>3. UpgradeInv' /\ PortalInv' /\ WantedInv'
      BY <1>7, <2>12 DEF HandleOk, NewAcc, AfterOk, Success, server
    <3>4. Accounted'
      BY <1>7, <2>12 DEF HandleOk, NewAcc, AfterOk, Success, server
    <3> QED BY <3>1, <3>2, <3>3, <3>4
  <2>13. CASE pc = "keepalive2"
    <3>1. TypeOK'
      BY <1>7, <2>13 DEF HandleOk, NewAcc, AfterOk, Success, server
    <3>2. ReplyInv' /\ SessionInv'
      BY <1>7, <2>13 DEF HandleOk, NewAcc, AfterOk, Success, server
    <3>3. UpgradeInv' /\ PortalInv' /\ WantedInv'
      BY <1>7, <2>13 DEF HandleOk, NewAcc, AfterOk, Success, server
    <3>4. Accounted'
      BY <1>7, <2>13 DEF HandleOk, NewAcc, AfterOk, Success, server
    <3> QED BY <3>1, <3>2, <3>3, <3>4
  <2> QED BY <1>7, <2>1, <2>2, <2>3, <2>4, <2>5, <2>6, <2>7, <2>8, <2>9, <2>10, <2>11, <2>12, <2>13 DEF HandleOk
<1>8. CASE HandleAgain
  BY <1>8 DEF HandleAgain, GivesUp, Limit, server
<1>9. CASE HandleGiveUp
  BY <1>9 DEF HandleGiveUp, AfterFail, Releases, server
<1>10. CASE Wake
  BY <1>10 DEF Wake, server
<1>11. CASE Sigterm
  BY <1>11 DEF Sigterm, Success, server
<1>12. CASE Expire
  <2>1. TypeOK'
    <3>1. (pc \in Sites /\ retry \in Nat \ {0} /\ reply \in Replies \cup {"none"})'
      BY <1>12 DEF Expire, daemon
    <3>2. (acc \in [Dirs -> 0..2])'
      BY <1>12 DEF Expire, daemon
    <3>3. (session \in BOOLEAN /\ loginkey \in BOOLEAN /\ dial \in BOOLEAN)'
      BY <1>12 DEF Expire, daemon
    <3>4. (portal \in [Dirs -> BOOLEAN] /\ leaving \in {"loop", "end", "trap"} /\ signals \in Nat)'
      BY <1>12 DEF Expire, daemon
    <3>5. (live \in SUBSET {"cur", "old"})'
      BY <1>12 DEF Expire, daemon
    <3>6. (line \in [Dirs -> BOOLEAN])'
      BY <1>12, ExpireLine
    <3>7. (healthy \in BOOLEAN /\ unacked \in SUBSET (Dirs \cup {TheSession}))'
      BY <1>12 DEF Expire, daemon
    <3> QED BY <3>1, <3>2, <3>3, <3>4, <3>5, <3>6, <3>7
  <2>2. ReplyInv'
    BY <1>12 DEF Expire, daemon
  <2>3. SessionInv'
    BY <1>12 DEF Expire, daemon
  <2>4. UpgradeInv'
    BY <1>12 DEF Expire, daemon
  <2>5. PortalInv'
    BY <1>12 DEF Expire, daemon
  <2>6. WantedInv'
    BY <1>12 DEF Expire, daemon
  <2>7. Accounted'
    BY <1>12 DEF Expire, daemon
  <2> QED BY <2>1, <2>2, <2>3, <2>4, <2>5, <2>6, <2>7
<1>13. CASE Heal
  BY <1>13 DEF Heal, daemon, server
<1>14. CASE Exited
  BY <1>14 DEF Exited, vars
<1>15. CASE UNCHANGED vars
  BY <1>15 DEF vars
<1> QED BY <1>1, <1>2, <1>3, <1>4, <1>5, <1>6, <1>7, <1>8, <1>9, <1>10, <1>11, <1>12, <1>13, <1>14, <1>15 DEF Next, Daemon

(* The invariant holds in every state the daemon can reach. *)
THEOREM Invariant == Spec => []IInv
BY InitIInv, NextIInv, PTL DEF Spec

(* The variables of xlnetacc.sh keep their types for every choice of the    *)
(* retry limits.                                                           *)
THEOREM TypeCorrect == Spec => []TypeOK
<1>1. IInv => TypeOK
  BY DEF IInv
<1> QED BY <1>1, Invariant, PTL

(* What the servers hold is recorded, in hand or unacknowledged, through    *)
(* every failure of a call and every signal (isp_upgrade, xlnetacc_logout). *)
THEOREM AlwaysAccounted == Spec => []Accounted
<1>1. IInv => Accounted
  BY DEF IInv
<1> QED BY <1>1, Invariant, PTL

(* The daemon never ends with a session or an upgrade it was told of        *)
(* (sigterm, xlnetacc_main).                                               *)
THEOREM ExitsClean == Spec => []CleanExit
<1>1. IInv => CleanExit
  BY DEF IInv, CleanExit, Accounted, SessionInv, UpgradeInv, TypeOK, Dirs,
     Op, TheSession
<1> QED BY <1>1, Invariant, PTL

(* The keepalive loop runs only with every wanted direction upgraded        *)
(* (xlnetacc_main).                                                        *)
THEOREM KeepsAliveComplete == Spec => []KeepaliveComplete
<1>1. IInv => KeepaliveComplete
  BY DEF IInv, WantedInv
<1> QED BY <1>1, Invariant, PTL

(* No request is sent to a portal that was not asked for (swjsq_portal).    *)
THEOREM AlwaysPortalKnown == Spec => []PortalKnown
<1>1. IInv => PortalKnown
  BY DEF IInv, PortalKnown, PortalInv, SessionInv, UpgradeInv, TypeOK, RetrySites,
     Op, DirOf, Need, Skipped, Dirs, LoggedIn, BeforeUpgrade
<1> QED BY <1>1, Invariant, PTL
=============================================================================
