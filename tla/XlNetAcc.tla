------------------------------ MODULE XlNetAcc ------------------------------
(***************************************************************************)
(* The bandwidth-acceleration daemon /usr/bin/xlnetacc.sh against the      *)
(* account server and the ISP's portal.                                    *)
(*                                                                         *)
(* The daemon is one shell process.  Its control state is the call site    *)
(* pc it has reached; every site but a few is one call of xlnetacc_retry.  *)
(* An HTTP call is two steps, because a shell trap runs between a command  *)
(* substitution and the code that reads its result: Send (the request, and *)
(* what the server does with it) and Handle (the case on lasterr).  The    *)
(* signal handler may run before any step.                                 *)
(*                                                                         *)
(* down_acc and up_acc are acc[1] and acc[2]: 0 not wanted, 1 wanted,      *)
(* 2 upgraded.  The servers are external; live and line are what they hold *)
(* for this account.  While healthy is FALSE any request or answer may be  *)
(* lost or refused.                                                        *)
(***************************************************************************)
EXTENDS Integers

CONSTANTS
  LogoutTries,      \* retry limit of the logout made by the main loop: 3
  IspTries,         \* retry limit of isp_bandwidth and isp_upgrade: 10
  KeepTries,        \* retry limit of isp_keepalive: 5
  Relogin,          \* TRUE if the "relogin" interval is not 0
  MaxSignals        \* bound on the INT, QUIT and TERM signals received

ASSUME TriesAssumption ==
  /\ LogoutTries \in Nat \ {0}
  /\ IspTries \in Nat \ {0}
  /\ KeepTries \in Nat \ {0}
  /\ Relogin \in BOOLEAN
  /\ MaxSignals \in Nat

VARIABLES
  pc,         \* the call site the daemon has reached
  retry,      \* xlnetacc_retry's counter
  reply,      \* the answer of a call not yet looked at, or "none"
  acc,        \* <<down_acc, up_acc>>
  session,    \* _sessionid is not empty
  loginkey,   \* _userid and _loginkey are not empty
  portal,     \* <<_portal_down is set, _portal_up is set>>
  dial,       \* _dial_account is not empty
  leaving,    \* the xlnetacc_logout in force: "loop", "end" or "trap"
  signals,    \* number of signals received
  live,       \* server: sessions it holds, "cur" the latest, "old" earlier
  line,       \* server: <<downlink upgraded, uplink upgraded>>
  healthy,    \* environment: requests and answers arrive from now on
  unacked     \* history: what was granted or given back unacknowledged

daemon == <<pc, retry, reply, acc, session, loginkey, portal, dial, leaving>>
server == <<live, line>>
vars == <<pc, retry, reply, acc, session, loginkey, portal, dial, leaving,
          signals, live, line, healthy, unacked>>

Dirs == {1, 2}
TheSession == 0     \* the session's name in unacked, next to the directions

(***************************************************************************)
(* The call sites, in the order of xlnetacc_main and xlnetacc_logout.      *)
(***************************************************************************)
RetrySites ==
  {"recover1", "recover2", "logout", "getuserinfo", "renewal", "portal1",
   "portal2", "bandwidth1", "bandwidth2", "upgrade1", "upgrade2",
   "keepalive1", "keepalive2"}
CallSites == RetrySites \cup {"login"}
Sites == CallSites \cup {"bind_ip", "enter_logout", "finish", "sleep", "exited"}

Op(s) ==
  CASE s \in {"recover1", "recover2"} -> "recover"
    [] s \in {"portal1", "portal2"} -> "portal"
    [] s \in {"bandwidth1", "bandwidth2"} -> "bandwidth"
    [] s \in {"upgrade1", "upgrade2"} -> "upgrade"
    [] s \in {"keepalive1", "keepalive2"} -> "keepalive"
    [] OTHER -> s

(* The $2 of xlnetacc_retry: the direction of the call, 0 if it has none. *)
DirOf(s) ==
  CASE s \in {"recover1", "portal1", "bandwidth1", "upgrade1", "keepalive1"} -> 1
    [] s \in {"recover2", "portal2", "bandwidth2", "upgrade2", "keepalive2"} -> 2
    [] OTHER -> 0

(* The $3: the call is skipped unless acc of its direction has this value. *)
Need(s) ==
  CASE Op(s) \in {"recover", "keepalive"} -> 2
    [] Op(s) \in {"portal", "bandwidth", "upgrade"} -> 1
    [] OTHER -> 0

Skipped(s) == Need(s) # 0 /\ acc[DirOf(s)] # Need(s)

(* Mutant of Limit: the logout of the trap retries until it succeeds. *)
LimitLogoutForever(s) ==
  CASE s \in {"recover1", "recover2", "logout"} ->
         IF leaving = "loop" THEN LogoutTries ELSE 0
    [] Op(s) \in {"bandwidth", "upgrade"} -> IspTries
    [] Op(s) = "keepalive" -> KeepTries
    [] OTHER -> 0

(* Mutant of Limit: the keepalive call has no limit. *)
LimitKeepaliveForever(s) ==
  CASE s \in {"recover1", "recover2", "logout"} ->
         IF leaving = "loop" THEN LogoutTries ELSE 1
    [] Op(s) \in {"bandwidth", "upgrade"} -> IspTries
    [] OTHER -> 0

(* The $4: 0 stands for the calls made without one, which retry for ever. *)
Limit(s) ==
  CASE s \in {"recover1", "recover2", "logout"} ->
         IF leaving = "loop" THEN LogoutTries ELSE 1
    [] Op(s) \in {"bandwidth", "upgrade"} -> IspTries
    [] Op(s) = "keepalive" -> KeepTries
    [] OTHER -> 0

NoneWanted(a) == \A d \in Dirs : a[d] = 0

(* Mutant of AfterOk: the uplink is never recovered. *)
AfterOkOneRecover(s, a) ==
  CASE s = "recover1"    -> "logout"
    [] s = "recover2"    -> "logout"
    [] s = "logout"      -> "finish"
    [] s = "getuserinfo" -> IF NoneWanted(a) THEN "enter_logout" ELSE "renewal"
    [] s = "renewal"     -> "portal1"
    [] s = "portal1"     -> "portal2"
    [] s = "portal2"     -> "bandwidth1"
    [] s = "bandwidth1"  -> "bandwidth2"
    [] s = "bandwidth2"  -> IF NoneWanted(a) THEN "enter_logout" ELSE "upgrade1"
    [] s = "upgrade1"    -> "upgrade2"
    [] s = "upgrade2"    -> "sleep"
    [] s = "keepalive1"  -> "keepalive2"
    [] OTHER             -> "sleep"

(* Mutant of AfterOk: the uplink's portal is never asked for. *)
AfterOkOnePortal(s, a) ==
  CASE s = "recover1"    -> "recover2"
    [] s = "recover2"    -> "logout"
    [] s = "logout"      -> "finish"
    [] s = "getuserinfo" -> IF NoneWanted(a) THEN "enter_logout" ELSE "renewal"
    [] s = "renewal"     -> "portal1"
    [] s = "portal1"     -> "bandwidth1"
    [] s = "portal2"     -> "bandwidth1"
    [] s = "bandwidth1"  -> "bandwidth2"
    [] s = "bandwidth2"  -> IF NoneWanted(a) THEN "enter_logout" ELSE "upgrade1"
    [] s = "upgrade1"    -> "upgrade2"
    [] s = "upgrade2"    -> "sleep"
    [] s = "keepalive1"  -> "keepalive2"
    [] OTHER             -> "sleep"

(***************************************************************************)
(* Where the daemon goes from site s when xlnetacc_retry returned 0.  The  *)
(* two "[ $down_acc = 0 -a $up_acc = 0 ] && break" tests look at a, the    *)
(* value of acc after the call.                                            *)
(***************************************************************************)
AfterOk(s, a) ==
  CASE s = "recover1"    -> "recover2"
    [] s = "recover2"    -> "logout"
    [] s = "logout"      -> "finish"
    [] s = "getuserinfo" -> IF NoneWanted(a) THEN "enter_logout" ELSE "renewal"
    [] s = "renewal"     -> "portal1"
    [] s = "portal1"     -> "portal2"
    [] s = "portal2"     -> "bandwidth1"
    [] s = "bandwidth1"  -> "bandwidth2"
    [] s = "bandwidth2"  -> IF NoneWanted(a) THEN "enter_logout" ELSE "upgrade1"
    [] s = "upgrade1"    -> "upgrade2"
    [] s = "upgrade2"    -> "sleep"
    [] s = "keepalive1"  -> "keepalive2"
    [] OTHER             -> "sleep"

(* ... and when it returned 1: the logout goes on, the main loop starts over. *)
AfterFail(s) ==
  CASE s = "recover1" -> "recover2"
    [] s = "recover2" -> "logout"
    [] s = "logout"   -> "finish"
    [] OTHER          -> "bind_ip"

Init ==
  /\ pc = "bind_ip" /\ retry = 1 /\ reply = "none"
  /\ acc \in {a \in [Dirs -> {0, 1}] : ~NoneWanted(a)}
  /\ session = FALSE /\ loginkey = FALSE /\ dial = FALSE
  /\ portal = [d \in Dirs |-> FALSE]
  /\ leaving = "loop" /\ signals = 0
  /\ live = {} /\ line = [d \in Dirs |-> FALSE]
  /\ healthy \in BOOLEAN
  /\ unacked = {}

(***************************************************************************)
(* The servers (external).  The answers they give to a request; "lost" is  *)
(* a request or an answer that did not arrive, and "refused" any error     *)
(* code the daemon has no case for.                                        *)
(***************************************************************************)
Replies ==
  {"ok", "lost", "refused", "fatal", "busy", "expired_key", "already",
   "no_down", "no_up", "no_vip", "cannot", "mismatch", "no_dial"}

Known == session /\ "cur" \in live

ServeLogin(r) ==
  \/ /\ \/ r = "ok" /\ UNCHANGED unacked
        \/ r = "lost" /\ ~healthy /\ unacked' = unacked \cup {TheSession}
     /\ live' = {"cur"} \cup (IF live = {} THEN {} ELSE {"old"})
     /\ UNCHANGED line
  \/ /\ \/ r = "expired_key" /\ loginkey
        \/ r = "refused"
        \/ r \in {"lost", "busy", "fatal"} /\ ~healthy
     /\ UNCHANGED <<live, line, unacked>>

ServeLogout(r) ==
  \/ /\ Known
     /\ r = "ok" \/ (r = "lost" /\ ~healthy)
     /\ live' = live \ {"cur"}
     /\ UNCHANGED <<line, unacked>>
  \/ /\ (r = "refused" /\ ~Known) \/ (r \in {"lost", "refused"} /\ ~healthy)
     /\ UNCHANGED <<live, line, unacked>>

ServeUpgrade(d, r) ==
  \/ /\ Known /\ ~line[d]
     /\ \/ r = "ok" /\ UNCHANGED unacked
        \/ r = "lost" /\ ~healthy /\ unacked' = unacked \cup {d}
     /\ line' = [line EXCEPT ![d] = TRUE]
     /\ UNCHANGED live
  \/ /\ \/ r = "already" /\ Known /\ line[d]
        \/ r = "refused" /\ ~Known
        \/ r \in {"lost", "refused", "fatal"} /\ ~healthy
     /\ UNCHANGED <<live, line, unacked>>

ServeRecover(d, r) ==
  \/ /\ r = "ok" \/ (r = "lost" /\ ~healthy)
     /\ line' = [line EXCEPT ![d] = FALSE]
     /\ UNCHANGED <<live, unacked>>
  \/ /\ (r = "refused" /\ ~Known) \/ (r \in {"lost", "refused"} /\ ~healthy)
     /\ UNCHANGED <<live, line, unacked>>

ServeKeepalive(d, r) ==
  /\ \/ r = "ok" /\ Known /\ line[d]
     \/ r = "fatal" /\ ~line[d]
     \/ r = "refused" /\ ~Known
     \/ r \in {"lost", "refused"} /\ ~healthy
  /\ UNCHANGED <<live, line, unacked>>

ServeQuery(op, r) ==
  /\ \/ op = "getuserinfo" /\ Known /\ r \in {"ok", "no_down", "no_up", "no_vip"}
     \/ op = "bandwidth" /\ Known /\ r \in {"ok", "no_dial", "cannot", "mismatch"}
     \/ op = "bandwidth" /\ ~healthy /\ r = "fatal"
     \/ op \in {"renewal", "portal"} /\ r = "ok"
     \/ op \in {"getuserinfo", "bandwidth"} /\ ~Known /\ r = "refused"
     \/ r \in {"lost", "refused"} /\ ~healthy
  /\ UNCHANGED <<live, line, unacked>>

Serve(s, r) ==
  CASE Op(s) = "login"     -> ServeLogin(r)
    [] Op(s) = "logout"    -> ServeLogout(r)
    [] Op(s) = "upgrade"   -> ServeUpgrade(DirOf(s), r)
    [] Op(s) = "recover"   -> ServeRecover(DirOf(s), r)
    [] Op(s) = "keepalive" -> ServeKeepalive(DirOf(s), r)
    [] OTHER               -> ServeQuery(Op(s), r)

(* A session or an upgrade ends on the server's side while nothing is sent. *)
Expire ==
  /\ pc = "sleep"
  /\ \/ live' \in SUBSET live \ {live} /\ UNCHANGED line
     \/ /\ \E d \in Dirs : line[d] /\ line' = [line EXCEPT ![d] = FALSE]
        /\ UNCHANGED live
  /\ UNCHANGED <<daemon, signals, healthy, unacked>>

Heal == ~healthy /\ healthy' = TRUE /\ UNCHANGED <<daemon, signals, server, unacked>>

(***************************************************************************)
(* The daemon.                                                             *)
(***************************************************************************)
(* get_bind_ip, retried until the interface has an address. *)
BindIp ==
  /\ pc = "bind_ip"
  /\ pc' = "enter_logout" /\ leaving' = "loop"
  /\ UNCHANGED <<retry, reply, acc, session, loginkey, portal, dial, signals,
                 server, healthy, unacked>>

(* What follows xlnetacc_logout, for each of its three callers. *)
AfterLogout == IF leaving = "loop" THEN "login" ELSE "exited"

(* Mutant of EnterLogout: the trap exits without logging out. *)
EnterLogoutLoopOnly ==
  /\ pc = "enter_logout"
  /\ pc' = IF session /\ leaving = "loop" THEN "recover1" ELSE AfterLogout
  /\ retry' = 1
  /\ UNCHANGED <<reply, acc, session, loginkey, portal, dial, leaving, signals,
                 server, healthy, unacked>>

(* xlnetacc_logout returns at once when there is no session. *)
EnterLogout ==
  /\ pc = "enter_logout"
  /\ pc' = IF session THEN "recover1" ELSE AfterLogout
  /\ retry' = 1
  /\ UNCHANGED <<reply, acc, session, loginkey, portal, dial, leaving, signals,
                 server, healthy, unacked>>

(* The end of xlnetacc_logout: whatever the calls returned, all is forgotten. *)
FinishLogout ==
  /\ pc = "finish"
  /\ acc' = [d \in Dirs |-> IF acc[d] # 0 THEN 1 ELSE 0]
  /\ session' = FALSE /\ dial' = FALSE
  /\ pc' = AfterLogout
  /\ UNCHANGED <<retry, reply, loginkey, portal, leaving, signals, server,
                 healthy, unacked>>

(* xlnetacc_retry returns 0 without a call in the wrong state of acc. *)
SkipCall ==
  /\ pc \in RetrySites /\ reply = "none" /\ Skipped(pc)
  /\ pc' = AfterOk(pc, acc)
  /\ retry' = 1
  /\ UNCHANGED <<reply, acc, session, loginkey, portal, dial, leaving, signals,
                 server, healthy, unacked>>

(* The request of a call: curl runs and its output is in hand. *)
Send ==
  /\ pc \in CallSites /\ reply = "none" /\ ~Skipped(pc)
  /\ \E r \in Replies : Serve(pc, r) /\ reply' = r
  /\ UNCHANGED <<pc, retry, acc, session, loginkey, portal, dial, leaving,
                 signals, healthy>>

(***************************************************************************)
(* swjsq_login's case on lasterr and the one of the login loop around it.  *)
(***************************************************************************)
HandleLogin ==
  /\ pc = "login" /\ reply # "none"
  /\ reply' = "none" /\ retry' = 1
  /\ session' = (session \/ reply = "ok")
  /\ loginkey' = CASE reply = "ok" -> TRUE
                   [] reply = "expired_key" -> FALSE
                   [] OTHER -> loginkey
  /\ pc' = CASE reply = "ok" -> "getuserinfo"
             [] reply \in {"fatal", "refused"} -> "exited"
             [] OTHER -> "login"
  /\ UNCHANGED <<acc, portal, dial, leaving, signals, server, healthy, unacked>>

(* The answers on which a call of xlnetacc_retry returns 0. *)
Success == {"ok", "already", "no_down", "no_up", "no_vip", "cannot", "mismatch",
            "no_dial"}

(* acc after the answer r to the call at site s. *)
NewAcc(s, r) ==
  CASE Op(s) = "getuserinfo" ->
         [acc EXCEPT ![1] = IF r \in {"no_down", "no_vip"} THEN 0 ELSE @,
                     ![2] = IF r \in {"no_up", "no_vip"} THEN 0 ELSE @]
    [] Op(s) = "bandwidth" /\ r = "mismatch" -> [d \in Dirs |-> 0]
    [] Op(s) = "bandwidth" /\ r = "cannot" -> [acc EXCEPT ![DirOf(s)] = 0]
    [] Op(s) = "upgrade" -> [acc EXCEPT ![DirOf(s)] = 2]
    [] Op(s) = "recover" -> [acc EXCEPT ![DirOf(s)] = 1]
    [] OTHER -> acc

(* A call that succeeds: the case of its function, xlnetacc_retry returns 0. *)
HandleOk ==
  /\ pc \in RetrySites /\ reply \in Success
  /\ acc' = NewAcc(pc, reply)
  /\ session' = (session /\ pc # "logout")
  /\ portal' = IF Op(pc) = "portal" THEN [portal EXCEPT ![DirOf(pc)] = TRUE]
                                    ELSE portal
  /\ dial' = (dial \/ (Op(pc) = "bandwidth" /\ reply = "ok"))
  /\ leaving' = IF AfterOk(pc, acc') = "enter_logout" THEN "end" ELSE leaving
  /\ unacked' = IF Op(pc) = "upgrade" THEN unacked \ {DirOf(pc)} ELSE unacked
  /\ pc' = AfterOk(pc, acc')
  /\ reply' = "none" /\ retry' = 1
  /\ UNCHANGED <<loginkey, signals, server, healthy>>

(* The resource whose release was asked for at site s. *)
Releases(s) ==
  CASE s = "logout" -> {TheSession}
    [] Op(s) = "recover" -> {DirOf(s)}
    [] OTHER -> {}

GivesUp(s) == (Limit(s) # 0 /\ retry >= Limit(s)) \/ reply = "fatal"

(* A call that fails is made again ... *)
HandleAgain ==
  /\ pc \in RetrySites /\ reply # "none" /\ reply \notin Success /\ ~GivesUp(pc)
  /\ retry' = IF Limit(pc) = 0 THEN retry ELSE retry + 1
  /\ reply' = "none"
  /\ UNCHANGED <<pc, acc, session, loginkey, portal, dial, leaving, signals,
                 server, healthy, unacked>>

(* ... until xlnetacc_retry returns 1. *)
HandleGiveUp ==
  /\ pc \in RetrySites /\ reply # "none" /\ reply \notin Success /\ GivesUp(pc)
  /\ pc' = AfterFail(pc)
  /\ unacked' = unacked \cup Releases(pc)
  /\ reply' = "none" /\ retry' = 1
  /\ UNCHANGED <<acc, session, loginkey, portal, dial, leaving, signals, server,
                 healthy>>

(* The keepalive loop wakes up, sooner or later past the relogin interval. *)
Wake ==
  /\ pc = "sleep"
  /\ pc' \in {"keepalive1"} \cup (IF Relogin THEN {"bind_ip"} ELSE {})
  /\ retry' = 1
  /\ UNCHANGED <<reply, acc, session, loginkey, portal, dial, leaving, signals,
                 server, healthy, unacked>>

(***************************************************************************)
(* The trap.  It may run between the end of curl and the look at its       *)
(* answer, and then the answer is never looked at.                         *)
(***************************************************************************)
Sigterm ==
  /\ pc # "exited" /\ signals < MaxSignals
  /\ signals' = signals + 1
  /\ pc' = "enter_logout" /\ leaving' = "trap"
  /\ reply' = "none" /\ retry' = 1
  /\ unacked' = unacked \cup
       (IF pc = "login" /\ reply = "ok" THEN {TheSession} ELSE {}) \cup
       (IF Op(pc) = "upgrade" /\ reply \in Success THEN {DirOf(pc)} ELSE {})
  /\ UNCHANGED <<acc, session, loginkey, portal, dial, server, healthy>>

Exited == pc = "exited" /\ UNCHANGED vars

Daemon ==
  \/ BindIp \/ EnterLogout \/ FinishLogout \/ SkipCall \/ Send \/ HandleLogin
  \/ HandleOk \/ HandleAgain \/ HandleGiveUp \/ Wake

Next == Daemon \/ Sigterm \/ Expire \/ Heal \/ Exited

Spec == Init /\ [][Next]_vars
FairSpec == Spec /\ WF_vars(Daemon)

-----------------------------------------------------------------------------
TypeOK ==
  /\ pc \in Sites /\ retry \in Nat \ {0} /\ reply \in Replies \cup {"none"}
  /\ acc \in [Dirs -> 0..2]
  /\ session \in BOOLEAN /\ loginkey \in BOOLEAN /\ dial \in BOOLEAN
  /\ portal \in [Dirs -> BOOLEAN]
  /\ leaving \in {"loop", "end", "trap"} /\ signals \in Nat
  /\ live \in SUBSET {"cur", "old"} /\ line \in [Dirs -> BOOLEAN]
  /\ healthy \in BOOLEAN
  /\ unacked \in SUBSET (Dirs \cup {TheSession})

(***************************************************************************)
(* What the servers hold for the account is always accounted for: it is    *)
(* recorded in the daemon's variables, named by an answer in hand, or its  *)
(* grant or release was never acknowledged (unacked).  swjsq_login,        *)
(* isp_upgrade, isp_recover and xlnetacc_logout must keep the shell        *)
(* variables in step with the servers through every failure and signal.    *)
(***************************************************************************)
Accounted ==
  /\ "cur" \in live => session \/ (pc = "login" /\ reply = "ok")
                               \/ TheSession \in unacked
  /\ "old" \in live => TheSession \in unacked
  /\ \A d \in Dirs : line[d] => \/ acc[d] = 2
                                \/ Op(pc) = "upgrade" /\ DirOf(pc) = d
                                     /\ reply \in Success
                                \/ d \in unacked

(***************************************************************************)
(* A daemon that has ended, by a signal, after finding nothing to upgrade  *)
(* or on a login error, has left neither a session nor an upgraded line    *)
(* behind, unless an answer was lost on the way (sigterm, xlnetacc_main).  *)
(***************************************************************************)
CleanExit ==
  pc = "exited" /\ unacked = {} => live = {} /\ \A d \in Dirs : ~line[d]

(***************************************************************************)
(* The keepalive loop is entered, and run, only with a session and with    *)
(* every wanted direction upgraded: no direction is left at 1, and they    *)
(* are not all switched off (xlnetacc_main, 585-600).                      *)
(***************************************************************************)
KeepaliveComplete ==
  pc \in {"sleep", "keepalive1", "keepalive2"} =>
    session /\ ~NoneWanted(acc) /\ \A d \in Dirs : acc[d] # 1

(***************************************************************************)
(* No request goes to a portal that is not known: the queries for the two  *)
(* portals are skipped on one value of acc, the requests to them on        *)
(* another, and a relogin repeats only part of it.                         *)
(***************************************************************************)
PortalKnown ==
  pc \in RetrySites /\ ~Skipped(pc)
    /\ Op(pc) \in {"bandwidth", "upgrade", "keepalive", "recover"}
      => portal[DirOf(pc)] /\ session

(***************************************************************************)
(* A signal ends the daemon however the servers behave: the handler's      *)
(* calls are made once each (xlnetacc_logout without an argument).         *)
(***************************************************************************)
SignalExits == leaving = "trap" ~> pc = "exited"

(***************************************************************************)
(* Once the servers answer, the daemon gets back to an upgraded line with  *)
(* its keepalive loop running, or stops because nothing can be upgraded.   *)
(***************************************************************************)
EventuallyUpgraded == healthy ~> pc \in {"sleep", "exited"}
=============================================================================
