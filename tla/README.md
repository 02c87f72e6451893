# Verification of the OpenWrt-Compile services and drivers

The repository builds an OpenWrt firmware.  This project models the parts of it
that keep state and meet concurrency, failures or long call sequences: the shell
services **overwall** (a transparent proxy) and **xlnetacc** (a line-acceleration
daemon), the **shadowsocksr** server, and the **RTL8367S** and **AN8855** switch
drivers.  They are modelled in TLA+, checked with TLC, and their main safety
properties are proved with TLAPS.

Paths: `ipk/` is `src/Small_5/package/ipk/`, `ssr/` is
`ipk/shadowsocksr-libev/src/server/`, `mtk/` is
`src/target/target/mediatek/target/linux/mediatek/`, `rtk/` is
`mtk/files/drivers/net/phy/rtk/`.

## Inventory

### xlnetacc (`ipk/luci-app-xlnetacc/root/usr/bin/xlnetacc.sh`)

A daemon that logs in to an account server, asks the ISP's portals to upgrade
the downlink and the uplink, keeps the upgrades alive every few minutes and logs
out on a signal.

* State: `down_acc`, `up_acc` (0 not wanted, 1 wanted, 2 upgraded), `_sessionid`,
  `_userid`/`_loginkey`, `_portal_down`/`_portal_up`, `_dial_account`.
* Operations: login, logout, getuserinfo, renewal, portal, bandwidth, upgrade,
  keepalive, recover, each (but login) through `xlnetacc_retry`; `sigterm`.
* Hard: every request or its answer may be lost; the trap may run between an
  answer and the code that looks at it; one direction may fail and the other not;
  the servers may drop a session or an upgrade by themselves.
* Correct when: what the servers hold is what the daemon's variables say; an exit
  leaves nothing behind; the keepalive loop runs only on a complete upgrade; a
  signal ends the daemon; it gets back to an upgraded line.

### overwall (`ipk/luci-app-overwall/root`)

* **Init script** `etc/init.d/overwall`: `start`, `stop`, `restart`, `boot`.  It
  writes configurations, starts a redirector per node, firewall rules and DNS
  servers, and the helper daemons.  State: the processes, the firewall, the files
  `/var/lock/overwall.lock` (`LOC`), `overwall-update.lock`, `overwall-uci.lock`
  and the lists in `/tmp/overwall`.
* **monitor** restarts the service if a redirector is gone and respawns DNS
  servers; **switch** watches the node in service and restarts the service on
  another one; **update** downloads the lists, from cron or as `update --First`
  for a start that found none; **checknetwork** waits for the network on behalf of
  a start; **rules** builds and flushes the firewall chains and ipsets.

They interact only through calls of the init script, `kill`, files and cron.  Hard:
any of them may call the init script at any time; `restart` honours `LOC`, `start`
and `stop` do not; locks are a test and a `touch`; a start that cannot go on leaves
its lock to another process; a restart kills its own caller.  Correct when: after
an invocation the redirector, the firewall and DNS belong together; no lock
outlives its owner; the service comes back after crashes and outages; the switch
daemon finds a working node, returns to the main one, and its probes leave no
trace in the firewall.

### shadowsocksr server (`ssr/`)

* **TCP relay** `server.c`: a `server_t` per client, a `remote_t` per destination,
  two buffers, five libev watchers, and a stage from INIT to STREAM.  Operations
  are the callbacks: accept, receive and send on either side, resolve, timeout.
* **Resolver** `resolv.c`: two udns queries per name, answered in either order or
  cancelled; **block list** `acl.c`: a count of offences per client address.
* **UDP relay** `udprelay.c` over the **cache** `cache.c`: a socket per client and
  address family, found in an LRU table, closed by its timer or by eviction; a
  name is resolved first.

One thread, but every callback leaves state for a later one in an order the network
decides: sockets take part of a buffer, answers come after the connection has gone,
timers race answers.  Correct when: no callback runs on freed memory; each end gets
the other's bytes once and in order; a connection that waits is watched by
somebody; sockets and cache entries stay in step; silent peers cost nothing for ever.

### RTL8367S switch (`rtk/`)

* **VLAN API** `rtl8367c/vlan.c`: the chip's 4k table, a short table of member
  configurations (MC) which PVIDs and protocol rules point into, and the driver's
  shadow of it.
* **Probe and swconfig** `rtl8367s_mdio.c`, `rtl8367s.c`: sequences of API calls
  whose results are ignored.

Hard: three copies of the same facts; reads that time out; a full table; slots
shared by VLANs, ports and rules.  Correct when the copies agree, a port keeps the
PVID it was given, and LAN and WAN stay apart.

### AN8855 switch (`mtk/files-6.6/drivers/net/dsa/an8855.c`)

A DSA driver.  Under rtnl the core calls it to join and leave bridges, isolate
ports, filter VLANs, mirror and set the ageing time; hosts are added to the address
table from a work queue at the same time.  State: port matrix, modes, PVIDs and VLAN
table in the chip, `port_isolated_map` and the mirror maps in the driver, the
registers of the address table under `reg_mutex`.  Hard: a call rewrites what other
ports depend on; commands time out half way; two threads build commands in shared
registers.  Correct when bridges and isolated ports stay apart, modes, VLANs, PVIDs
and mirrors are what the core has asked for, and no static address is lost.

### Other parts

See *Not modelled*; every part is listed in `PROJECT.json`.

## Modules

| module | models | variables and the code they stand for |
|---|---|---|
| `XlNetAcc` | xlnetacc.sh | `pc` the call site; `retry` the counter of `xlnetacc_retry`; `reply` an answer not yet looked at; `acc`, `session`, `loginkey`, `portal`, `dial` the shell variables; `live`, `line` what the servers hold; `unacked` history |
| `Overwall` | init script, monitor, update, checknetwork, the callers and locks | `call[c]` the invocation of caller `c`; `loc`, `updlock`, `lists` files; `tcp`, `fw`, `dns`, `dnsconf`, `monitor`, `switch`, `update`, `check` processes and what they serve; `overlap` history |
| `OverwallSwitch` | the switch daemon and the ipset `over_wan_ac` | `SERVER_B`, `SERVER_C`, `c`, `i` as in the script; `acl`, `added` the ipset; `active`, `up`, `net` the world; `good` history |
| `OverwallShunt` | `rules` 283-459 and `shunt_rules`: nodes and ports of the four services | `conf`, `relay`, `trojan`, `lport`, `run_mode` the configuration; `server` is `YB_SERVER` ... `TG_SERVER`; `gl`, `same` the flags; `port` the `*_local_port`; `ipsets` |
| `SsrPipe` | what a proxied connection promises | `open`, `taken`, `given` |
| `SsrServer` | server.c, resolv.c, the block list of acl.c, for one connection at a time | `srv`, `rem` the two structs; `stage`, `hdr`, `connected`; `buf`, `rbuf` the buffers by position; `query`, `asked`, `found` the resolver; `active` the watchers; `strikes` the block list; `toRemote`, `toClient`, `got` history |
| `UdpNat` | what the UDP relay promises | `table` the socket of each client and kind of destination; `older` who was heard before whom; `waiting`, `relayed`, `up` |
| `LruCache`, `UdpRelay` | cache.c; udprelay.c (MODULE_REMOTE) | `cache`; `ctx`, `live`, `watched` the sockets; `pending`, `qctx` the queries; `last` history |
| `RtkVlan` | vlan.c | `vlan4k`, `mc`, `pvid`, `group`, `ppb` the chip; `usage`, `mcVid` the shadow; `want`, `raw` history |
| `RtlSwconfig` | probe and swconfig, on top of `RtkVlan` | `todo` the calls still to be made; `wan` the port map; `job` history: the handler's VLAN, its ports, those whose call failed, and the PVIDs it found |
| `An8855Bridge` | bridging, isolation, filtering, VLANs, PVIDs, mirror, ageing | `bridge`, `filtering` the core's; `isolated`, `mirrored` the driver's maps; `matrix`, `mode`, `acc`, `pvid`, `vtable`, `mirBits`, `mir`, `aac` registers; `left`, `asked`, `doubt`, `target`, `age` history |
| `An8855Fdb` | the address table, two threads | `table`, `hash` the chip's entries and the row of each address; `ata`, `atwd` registers; `mutex`; `pc`, `op`, `mask` per thread; `dump` the dump at work; `wanted`, `unsure`, `disturbed` history |
| `An8855` | both together | `mix` which calls meet (bound) |

`...Proof` modules hold the theorems of the module they are named for, `RtkVlanProof`
also those of `RtlSwconfig`; `MC...` modules hold model values and symmetries.

**XlNetAcc.**  `Send` is the request with its effect on the server, `HandleLogin`,
`HandleOk`, `HandleAgain`, `HandleGiveUp` the code that looks at the answer.
`AfterOk` and `AfterFail` are the control flow of `xlnetacc_main` and
`xlnetacc_logout`; `Limit`, `Need`, `DirOf` the arguments of `xlnetacc_retry`.
`Sigterm` may come before any step, and then the answer in hand is dropped.
`local ret=$(...)` hides curl's exit status in most shells, so that login's error
codes -2 and -3 may never occur; the model allows them.  The servers are external:
when `healthy` they answer as the code expects them to, otherwise any request or
answer may be lost or refused.  They drop sessions and upgrades only while the
daemon sleeps.  `unacked` is what was granted or given back without the daemon having
learnt of it.

**Overwall.**  Each caller (user, monitor, switch, cron's update, update --First,
checknetwork) has a slot for the invocation it made.  The steps of an invocation are
the parts between which another process can see or undo its work.  A restart is
`test`, `grab`, then stop's and start's steps.  The redirectors of the shunt and UDP
nodes come and go with the main one and are not told apart.  The five downloaded
lists are one flag.  `overlap` records that two invocations were at work at once.

**OverwallSwitch.**  A node that is up resolves, answers the probe and lets curl
through.  The shell has one scope, and `get_ip` and `curl_check` assign `i`, the loop
variable of `select_proxy`: when a node is taken, `c=$i` stores 0.  The next scan
therefore starts at the head of the list.  The model follows the code; the mutant
`ProbedRemembersIndex` is the apparent intention, and with it a scan misses the
nodes before the remembered one.

**OverwallShunt.**  A sequential algorithm, one action per line or block: the values
are read, six tests in a fixed order make services share redirectors, ports are moved
apart, and `shunt_rules` fills the ipsets.  Every configuration is an initial state.
`PortOf` is one definition for the four blocks: a port not yet given is 0 and equals
none, as the empty string does in the tests.  Names that do not resolve end the
invocation; that is `RulesUnresolved` of `Overwall`.

**SsrServer.**  A callback is an action; which watcher fires next is arbitrary.  A byte
is named by its position in its stream, so a buffer is the position of `array[0]` with
`idx` and `len`, and "in order" is a statement about positions.  Decryption and plugins
are a nondeterministic release of bytes they have been given.  A fragment that starts
inside the header is read by `is_header_complete` as if its first byte were the address
type, so any result may come out.  `Pipe == INSTANCE SsrPipe WITH ...` maps the
connection to the abstract pipe: `open` is the existence of the `server_t`, `taken` what
has been released for an end, `given` what it got.

**UdpRelay.**  `LruCache` is the uthash table as a sequence, oldest first.  Memory for
sockets and queries is a finite set of places, so that a pointer may outlive what it
pointed to; `Patient` says whether a socket can be closed while a query points to it.
One name, `lit6`, spells an IPv6 address: the code converts it with `AF_INET` and is left
with the zero address.  `Table == INSTANCE UdpNat WITH ...` maps the cache to the abstract
table: `table` is its entries as a function from keys to sockets, `older` the order of the
entries, `waiting` the client of each query, `relayed` the client and the owner of the socket
of the packet the callback has sent.

**RtkVlan, RtlSwconfig.**  One action per API call, on the tables.  The only register
access of this build that can fail is the read of a 4k entry.  `RtlSwconfig` extends
`RtkVlan` and runs the probe's and the handlers' calls one by one on the same tables.
`vlan.c` has more operations than these two callers use (enhanced ids, raw slots,
protocol rules): `RtkVlan` is the whole API, `RtlSwconfig` what the kernel module does
with it.

**An8855.**  One action per call of the DSA core in `An8855Bridge`; one per register
write or command in `An8855Fdb`, where the threads interleave.  The core's own rules are
guards: a port filters only inside a bridge and stops after it has left; VLANs are
removed only where they were added.  The address table is `Rows` rows of four records;
a search answers row by row, and the callback of a dump may refuse any entry.  The two parts share no register, and a behaviour
need not mix all kinds of calls: `Mixes` says which ones meet.

## Runs

| run | result | distinct states | shows |
|---|---|---|---|
| `xlnetacc` | pass | 143,978 | `Accounted`, `CleanExit`, `PortalKnown`, `SignalExits`, `EventuallyUpgraded`, with the code's own retry limits (3, 10, 5) and two signals: the second may hit the handler of the first |
| `overwall_safety` | pass | 2,142,398 | `Consistent`; one command, outage, crash, switch and cron update each, all failures allowed |
| `overwall_recovery` | pass | 294,007 | `LockReleased`, `ServiceRecovers`, `NoBlackHole`; three commands, so that a start, a stop and a restart may interleave, with an outage and a crash |
| `switch` | pass | 23,999 | `NoServerMeansNone`, `AclRestored`, `MainRegained`, `FindsNode`; four nodes, one not enabled, two shunt nodes, restarts may be refused, six changes of health |
| `shunt` | pass | 4,840,416 | `RoutesKept`, `PortsDistinct`; every assignment of five nodes, a deleted one or none to the four services, any of three UDP relays, four possible trojans, three run modes |
| `ssr_server` | pass | 17,433 | `NoStrayCallback`, `SomebodyWaits`, the refinement `IsPipe`, and `Drained`, `Reaped`; five bytes of payload and four of reply through buffers of four |
| `ssr_server_fastopen` | violation | - | `StreamIntact` with TCP fast open: see Findings |
| `udprelay_safety` | pass | 29,634 | `OneSocketPerClient`, `SocketsFiled`, `QueriesHoldTheirOwn`, `AddressesRespected`, the refinement `IsNat`; two clients, two hosts, two queries, a cache that evicts |
| `udprelay_idle` | pass | 1,396 | `EventuallyIdle`, with sockets closed under a waiting query |
| `rtk_vlan` | pass | 504,476 | `ShadowTrue`, `MembersTracked`, `PvidRespected`, `GroupsSound`; two slots for three ids, so that the table is full; two protocols for two groups |
| `swconfig` | pass | 224,389 | `LanWanApart`, `HandlerClassifies`; both port maps and the boards without one, any PVID call may fail |
| `an8855` | pass | 770,366 | `BridgesSeparate`, `ModesFollow`, `VlansTrue`, `PvidSound`, `MirrorsTrue`, `AgesInTime`, `EntriesKept`, `DumpComplete`; three ports, two bridges, two VLANs, two threads, an address table of two rows |

The type invariants and some safety properties (`KeepaliveComplete`, `LockOwned`,
`OneRedirector`, `RecvStage`, `NothingOverwritten`, `NoSpuriousClose`, `OneSlotPerVlan`,
`IsolatedApart`, and `StreamIntact` without fast open) are proved for every instance and
not checked again in a passing run.

Bounds are constants named `Max...` in the guards of the environment's actions, or the
sizes of the sets; the programs themselves are not bounded, except for `MaxChecks`
checknetwork processes.  `an8855` mixes bridging with filtering on three ports, both with
VLANs on one port and the CPU port, and runs mirroring, ageing and the address table by
themselves (`MCMixes`): calls of different mixes write different registers.  Its
constraint `Undisturbed` stops a behaviour where fast ageing first meets another
call; `EntriesKept` claims nothing from there on.  It also leaves the placement of addresses
in rows alone where the address table is not used; there the host and the group share a row
or the group has the later one (`MCHashes`), which is what a dump that fails in a row can tell
apart: the rest of that row, and a row after it.  `MCAges` holds the ends of
both fields and some two hundred times in between.

`CHECK_DEADLOCK FALSE` is used where the system may rest: Overwall after the last command,
OverwallShunt, which ends, the shadowsocksr server after its shutdown, and a probed board
with a port map.  Symmetries: sources, hosts, sockets and queries in `udprelay_safety`,
protocols in `rtk_vlan`, the ports of the address table in `an8855`; runs with liveness
properties use none.

What the runs and the theorems assume, and why:

* `LockOwned`, `LockReleased`, with cron updates off (`MaxCronUpdates = 0`): while a
  cron update holds its lock, the `update --First` of a start exits, and nobody
  removes the `overwall.lock` that start left.  The update lock itself is a test
  (`update` line 6) and a `touch`, so two updates may both get in.
* `ServiceRecovers`, `NoBlackHole`, with names that resolve, programs that are
  installed and downloads that succeed when the network is up: the code retries none
  of these failures.
* `Consistent` speaks of behaviours in which no two invocations have been at work at
  once.  The lock does not guarantee that.
* `PortsDistinct`, with the default `local_port` on every node, and not with a trojan
  main node beside another, non-trojan UDP relay (`DefaultPorts`): an increment is not
  compared again, and outside of these cases two redirectors can get one port.
* `RoutesKept` leaves Telegram on the main node outside gfw mode to the rules of the
  run mode: line 302 clears `TG_GL` there.
* `QueriesHoldTheirOwn`, while neither a timeout nor an eviction strikes a socket a query
  points to (`Patient`); nothing in udprelay.c prevents that, and the pointer is then
  stale (`ResolveStale`, udprelay.c 1316).
* `AddressesRespected`, under the same condition, since a packet sent after its client's
  socket was closed may leave through the one that took its place.  Its second part speaks of
  packets whose destination is an address: after a second
  name was resolved on a socket its `dst_addr` is replaced and its `addr_header` is not
  (udprelay.c 1236), and a packet for the first name then goes to the second host.
* `OneSlotPerVlan`, `MembersTracked`, until somebody writes slots himself (`raw`).
  `PvidRespected`, until the VLAN is emptied: its slot is then free, and reused, while the
  port still points at it (vlan.c 244).
* `BridgesSeparate` exempts ports that have left a bridge, `EntriesKept` behaviours in
  which fast ageing has met another call, and `VlansTrue`, `PvidSound` and `EntriesKept`
  what a command that timed out was about; see below.  `BridgesSeparate` compares with the
  driver's own map of isolated ports, not with what the core last asked for.
* `DumpComplete` speaks of dumps whose commands did not time out, and leaves out the rows in
  which the callback refused an entry.
* `AgesInTime` has its lower bound for times that fit into the count.
* `HandlerClassifies` does not promise that a listed port whose own PVID call failed has a
  PVID: the handler tests for negative results, and the API's errors are positive.

### Fairness

`XlNetAcc`: weak fairness of the daemon: every request has a timeout (`curl -m 5`).
`healthy`, once true, stays true; nothing forces it.  `Overwall`: every invocation
and update that was started runs on, the monitor and checknetwork poll, and the
network comes back.  No fairness for the user, cron, the switch daemon or crashes.
`OverwallSwitch`: weak fairness of the daemon, which loops for ever and whose probes
have timeouts; health changes at most `MaxChanges` times.  `SsrServer`: libev serves a
descriptor that is ready for sending; the timer is assumed to expire only in `Reaped`, so
that `Drained` holds without it.  `UdpRelay`: udns answers every query or gives up on it,
and a socket's timer expires; both are timers of the code.

## Findings

`connect_to_remote` (`ssr/server.c` 1055) advances `server->buf->idx` past what TCP fast
open sent with the SYN, under the comment `XXX: should handle buffer carefully`.  For a
destination given as an address, `server_recv_cb` then copies from `server->buf->array`
without adding `idx`, which `server_resolve_cb` (1223) does.  In the trace of
`ssr_server_fastopen` two payload bytes come with the header, the SYN carries one, and the
next byte sent is the first one again; the last one is dropped.

Behaviours met while modelling.  The models have them, and the properties above are stated
around them:

* A header that comes in two fragments is usually refused: the second fragment is parsed by
  itself (`ssr/server.c` 800), and the connection goes to STAGE_ERROR.
* The UDP cache holds one socket less than its capacity (`ssr/cache.c` 291).
* An enhanced VLAN id gets a second slot on its second `rtk_vlan_set` (`vlan.c` 300).
* A swconfig VLAN gets a slot only if one of its ports has no PVID yet (`rtl8367s.c` 424),
  although the comment there (417-420) means "to ensure that we have a valid MC entry for
  this VLAN".  After `rtk_vlan_init` every port has PVID 1, so setting VLAN 2 makes none:
  its ports are members of the 4k entry, and untagged frames stay in VLAN 1.
  `HandlerClassifies` states what the code does instead.
* A port that leaves a bridge of the AN8855 is given every user port outside that bridge,
  ports of other bridges included (`an8855.c` 229-231).  Two isolated ports still reach each
  other one way, and `port_isolated_map` outlives the membership (290).
* When filtering goes on, a port that has a PVID is set to take only tagged frames, and one
  without takes all (644); the comment above the test (643, "Only accept tagged frames if PVID
  is not set") says the reverse.
* A dump's callback that fails ends only the loop over the row (446); the next command
  overwrites the error (454), and the dump may return 0 with entries unreported.
* `an8855_port_fast_age` (169-188) writes the registers of the address table without
  `reg_mutex`, and may combine its address with another call's command.
* A group whose entry could not be read is written back without its other members (821).
* Ageing times beyond 511 units can be cut short: the unit is derived from the width of
  `AGE_UNIT`, and the count has the narrower field (310).

## Proofs

Every theorem is proved for all values of the constants that satisfy the named assumptions
(`TriesAssumption`; `NodesAssumption`, `FlagsAssumption`; `SwitchAssumption`;
`ShuntAssumption`; `LenAssumption`; `MaxAssumption`, `PatientAssumption`,
`NoneAssumption`; `VlanAssumption`, `SwAssumption`; `BridgeAssumption`, `FdbAssumption`,
`MixAssumption`), so for any number of signals, commands, outages, nodes, clients,
sockets, ports, VLANs, slots and bytes.

* `XlNetAccProof`.  `IInv` is `TypeOK`, `Accounted` and: an answer in hand belongs to
  the call site (`ReplyInv`); from the login's answer on there is a session
  (`SessionInv`); between the upgrade calls and the keepalive loop the directions are
  0 or 2 in the order of the calls (`UpgradeInv`); a direction at 2, or past its
  portal call, has a portal (`PortalInv`); not both directions are 0 after the tests
  for it (`WantedInv`).  `Accounted` alone is not inductive: that a logout removes the
  session the server holds needs the session's place in the control flow.  Theorems:
  `TypeCorrect`, `AlwaysAccounted`, `ExitsClean`, `KeepsAliveComplete`,
  `AlwaysPortalKnown`.
* `OverwallProof`.  `IInv` is `TypeOK`; `Locks`: with cron off the update lock exists
  only while update --First is past its touch or an invocation will remove it, and
  `LockOwned`; `Serial`: without overlap at most one caller is at work; `Phase`: what
  tcp, fw, dns and dnsconf are at each step of the one at work.  `LockOwned` needs the
  update lock's owner, since a start relies on update --First not finding the lock of
  an update that was killed.  Theorems: `TypeCorrect`, `LockAlwaysOwned`,
  `AlwaysConsistent`.
* `OverwallSwitchProof`.  `IInv` adds to `TypeOK` that during a probe `acl` is the base
  set with the probed node and `added` tells whether it was new, and that every
  enabled node the scan has passed has been down since it began.  Theorems:
  `TypeCorrect`, `AclAlwaysRestored`, `NoServerIsTrue`.
* `OverwallShuntProof`.  `IInv` adds to `TypeOK`: every service has its own node, follows
  one that keeps the node, or has none (`ReadInv`); it follows only an earlier one and
  no sooner than its own tests (`OrderInv`), without which a later test could clear the
  node of a service that is followed; the pairs already compared differ (`ApartInv`);
  the ports given so far are the first free one and its successors (`UdpInv`,
  `PortInv`).  Theorems: `TypeCorrect`, `NoNodeTwice`, `RoutesAlwaysKept`,
  `PortsAlwaysDistinct`.
* `SsrServerProof`.  `IInv` adds to `TypeOK`: which watchers, structs and queries go with
  each stage (`Shape`); that bytes sent, bytes waiting in a buffer and bytes released add
  up (`Account`); that what waits is the continuation of what was sent (`InOrder`, for the
  payload without fast open); and that counts stay in proportion after a close (`Bounded`).
  `StreamIntact` is not inductive, since it does not say where the next byte comes from.
  Theorems: `TypeCorrect`, `CallbacksSafe`, `RecvStageSafe`, `StreamsIntact`,
  `NeverOverwrites`, `NeverClosesIdle`, `AlwaysWaiting`, and `Refinement`: without fast
  open the connection implements `SsrPipe`.
* `UdpRelayProof`.  `IInv` is `SocketInv` (`OneSocketPerClient` and `SocketsFiled`, which
  need each other: a lookup that misses shows that no socket of the client is filed under
  the key only because sockets are filed under the keys computed from them), `QueryInv`
  (queries are made for names), `OwnInv` (while no socket a query points to is closed, the
  query points to its own client's socket for names, and the address kept in a socket for
  addresses is that of its header) and `AddressesRespected`.  The operations of `LruCache`
  are first described by what they do to the set of entries and to their order.  Theorems:
  `TypeCorrect`, `OneSocketSafe`, `SocketsSafe`, `QueriesSafe`, `AddressesSafe`; the action
  property `TimeoutClosesItsOwn`; and `Refinement`: each callback is a step of `UdpNat`, one
  lemma per callback (`HitMaps`, `NameMaps`, `NewMaps`, `LostMaps`, `AnsweredMaps`,
  `AnsweredNewMaps`, `TimeoutMaps`, `ReplyMaps`, `StopMaps`).
* `RtkVlanProof`.  `TypeOK` with `ShadowTrue` is inductive.  On top of it `Own` (unique and
  tracked slots of the 4k ids while nobody wrote slots himself) and `Held` (the slot of a
  PVID that stands is not blank, so no free slot is handed out twice).  Theorems:
  `TypeCorrect`, `ShadowSafe`, `GroupsSafe`, `OneSlot`, `Tracked`, `PvidsSafe`.  For
  `RtlSwconfig` the invariant `SwInv` relates the tables to the calls still to be made:
  nothing there writes raw slots, so the above holds unconditionally (`TablesInv`); on a
  port-mapped board VLANs 1 and 2 hold their side or nothing, or the call that sets VLAN 1
  is still to come (`MapInv`); while a handler
  is at work (`JobInv`), ports of other VLANs, and of its own unless it is emptied, keep their
  PVIDs, the others have none or its VLAN, and the call of a listed port without a PVID is still
  to come or has failed; `HandlerClassifies` is what is left of it when no call is.  It rests on `Held`: a
  slot made for the handler's VLAN is none that a standing PVID points to.  Theorems:
  `SwTablesSound`, `LanWanSafe`, `HandlerSafe`.
* `An8855Proof`.  Five inductive invariants over disjoint variables: `PortsInv`,
  `VlanInv`, `MirrorInv`, `AgeInv`, and for the address table `FdbInv`: a thread is between lock and
  unlock exactly when it holds the mutex (`HeldBy`); undisturbed fast ageing runs with the
  mutex free (`AgeApart`); the registers hold what the thread that owns them has
  written so far (`RegsOwn`), its mask is the group's other members (`MasksOwn`), its call is
  one the core makes (`OpsSound`), and groups are never dynamic entries (`GroupsStatic`).
  `EntriesKept` alone says nothing of a command half built.  For the dump `DumpInv`: every
  entry of its port in a row it is past was reported or lies in a refused row, and it has
  counted at most four records for each of these rows, so the stop at
  `AN8855_NUM_FDB_RECORDS` comes after the last row.  Theorems: `BridgesSafe`, `IsolationSafe`, `ModesSafe`, `VlansSafe`, `PvidsSafe`, `MirrorsSafe`,
  `AgesSafe`, `EntriesSafe`, `DumpSafe`.  `AgesSafe` is arithmetic (`AgeKept`): rounding
  down and the cut to the field only shorten the count, so an address is kept too long by at
  most the unit the chip adds.

Only model-checked: the liveness properties (`SignalExits`, `EventuallyUpgraded`,
`LockReleased`, `ServiceRecovers`, `NoBlackHole`, `MainRegained`, `FindsNode`, `Drained`,
`Reaped`, `EventuallyIdle`), which are out of the prover's reach.  Every safety property of
a passing run is proved.

## Not modelled

The C code of the tree is 125,000 lines, and the models cover 4,600 of them: the switch
driver's VLAN tables, the AN8855's table operations and the server.  The rest holds little
that a state machine could say more about than the code:

* `rtl8367c_reg.h` and the other headers (a third of all lines) name registers and bits.
* The other `rtl8367c/*.c` files are the vendor's API, one function per register field.  The
  built module calls nothing of `svlan.c`, `acl.c` or `qos.c`, and of `l2.c`, `port.c` and
  `igmp.c` only reads, clears and fixed settings.
* The PHY drivers (`rtl8261n`, `en8801sc.c`, `air_an8855.c`), `pinctrl-mt7988.c`,
  `rk3328_dmc.c` and `rockchip-rng.c` are tables of words and pins and register sequences.
* Of `an8855.c`: STP states, learning and flood flags (one register write each), counters, MTU,
  and the set-up of links and the PCS.
* shadowsocksr's ciphers, plugins (`encrypt.c`, `auth.c`, `http_simple.c`, `tls1.2_ticket.c`)
  and `json.c` work on bytes, whose values the models leave out; the rule lists of the ACL.
* In overwall: the content of generated configurations, the DNS and firewall data path, the
  choice of DNS servers, the local socks5 and proxy servers (the monitor counts the latter), the
  subscription and `overwall-uci.lock`, the hotplug script and LuCI pages.
* xlnetacc's init script: a restart waits at most 10 s for a daemon whose trap may take 15,
  and the lock against a second start is tested and touched in two commands.
  Unlimited retries of `getuserinfo`, `renewal` and `portal` are modelled, but nothing is
  promised while the servers refuse them.
* adblock-plus, the dynamic DNS updaters, https-dns-proxy, zerotier, openvpn, vsftpd and n3n
  are short sequential scripts; `tcping` is a connection timer; `diy.sh` downloads and patches.

## Plan

1. `XlService`: the xlnetacc init script and the daemon's lock, a restart that races the logout.
2. `Subscribe`: the merge of feeds into the node list, and `overwall-uci.lock`.
3. An abstract service life cycle that `Overwall` without overlap refines.
4. STP and learning in `An8855Bridge`, once a property relates them to bridging.
