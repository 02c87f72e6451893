----------------------------- MODULE An8855Fdb -----------------------------
(***************************************************************************)
(* The address table of the AN8855 driver (an8855.c).  A command is put    *)
(* together in the registers ATA, ATWD and ATWD2 and started by a write of *)
(* ATC; reg_mutex keeps the users of these registers apart.  The DSA core  *)
(* calls from two threads: addresses of hosts are added and removed from   *)
(* its work queue, multicast groups, dumps and fast ageing come under      *)
(* rtnl.  an8855_port_fast_age writes the registers without reg_mutex.     *)
(*                                                                         *)
(* An address stands for a MAC with its VLAN.  A command takes effect when *)
(* it is written, or its poll runs out and it may have taken effect or     *)
(* not; other register accesses succeed.  The chip learns and ages         *)
(* dynamic entries by itself.                                              *)
(***************************************************************************)
EXTENDS Naturals

CONSTANTS
    FdbPorts,       \* the ports addresses are set for
    Hosts,          \* addresses of hosts
    Groups,         \* addresses of multicast groups
    Garbled,        \* an address put together from two writers' registers
    Rows,           \* the rows of the address table, of four records each
    Hashes          \* the ways the chip spreads addresses over its rows

Threads == {"rtnl", "wq"}
Addrs == Hosts \cup Groups \cup {Garbled}
Records == 4 * Rows     \* AN8855_NUM_FDB_RECORDS

ASSUME FdbAssumption ==
    /\ Hosts \cap Groups = {} /\ Garbled \notin Hosts \cup Groups
    /\ Rows \in Nat \ {0} /\ Hashes \subseteq [Addrs -> 0..(Rows - 1)]

VARIABLES
    table,          \* the address table of the chip
    hash,           \* the row of each address
    ata,            \* AN8855_ATA1, AN8855_ATA2: the address and its type
    atwd,           \* AN8855_ATWD_VLD and AN8855_ATWD2_PORT
    mutex,          \* who holds reg_mutex
    pc,             \* where each thread is
    op,             \* the call each thread is in
    mask,           \* port_mask of that call
    dump,           \* the dump at work: the rows it is past, its count, what
                    \* it has reported, the rows in which its callback failed
    wanted,         \* history: the ports asked for each address
    unsure,         \* history: addresses a command for which timed out
    disturbed       \* history: fast ageing met another user of the registers

regVars == <<ata, atwd>>
callVars == <<pc, op, mask>>
fdbVars == <<table, hash, regVars, mutex, callVars, dump, wanted, unsure, disturbed>>

Absent == [ports |-> {}, dyn |-> FALSE]
EntryOf(P, d) == [ports |-> P, dyn |-> d]
NoOp == [kind |-> "none", addr |-> Garbled, port |-> {}]
Nobody == "nobody"
DumpState == [row : Nat, count : Nat, seen : SUBSET Addrs, refused : SUBSET Nat]
NoDump == [row |-> 0, count |-> 0, seen |-> {}, refused |-> {}]

Static(a) == table[a].ports # {} /\ ~table[a].dyn

FastAging == pc["rtnl"] \in {"ata2", "atwd2", "flush"}
Note == disturbed' = (disturbed \/ (FastAging' /\ mutex' # Nobody))

-----------------------------------------------------------------------------
(* The chip *)

(* What a write command makes of the registers. *)
Written ==
    [table EXCEPT ![ata.addr] =
        IF atwd.vld THEN EntryOf(atwd.ports, ata.dyn) ELSE Absent]

(* A flush by type and port: entries of the type in ATA2 that use a port   *)
(* of ATWD2.                                                               *)
Flushed ==
    [a \in Addrs |-> IF table[a].dyn = ata.dyn /\ table[a].ports \cap atwd.ports # {}
                     THEN Absent ELSE table[a]]

Learn(a, p) ==
    /\ ~Static(a)
    /\ table' = [table EXCEPT ![a] = EntryOf({p}, TRUE)]
    /\ UNCHANGED <<regVars, mutex, callVars, dump, wanted, unsure, disturbed>>

Age(a) ==
    /\ table[a].ports # {} /\ table[a].dyn
    /\ table' = [table EXCEPT ![a] = Absent]
    /\ UNCHANGED <<regVars, mutex, callVars, dump, wanted, unsure, disturbed>>

-----------------------------------------------------------------------------
(* The calls of the core *)

Call(t, k, a, P, at) ==
    /\ pc[t] = "idle"
    /\ pc' = [pc EXCEPT ![t] = at]
    /\ op' = [op EXCEPT ![t] = [kind |-> k, addr |-> a, port |-> P]]
    /\ UNCHANGED <<table, regVars, mutex, mask, dump, wanted, unsure>>
    /\ Note

(* The core removes from a port only what it has given it. *)
FdbAdd(a, p) == Call("wq", "fdb_add", a, {p}, "lock")
FdbDel(a, p) == wanted[a] = {p} /\ Call("wq", "fdb_del", a, {p}, "lock")
MdbAdd(a, p) == Call("rtnl", "mdb_add", a, {p}, "lock")
MdbDel(a, p) == p \in wanted[a] /\ Call("rtnl", "mdb_del", a, {p}, "lock")
FdbDump(p)   == Call("rtnl", "dump", Garbled, {p}, "lock")

(* Mutant: fast ageing leaves the type of the last command in ATA2. *)
FastAgeNoType(p) == Call("rtnl", "fast_age", Garbled, {p}, "atwd2")

FastAge(p)   == Call("rtnl", "fast_age", Garbled, {p}, "ata2")

(* Mutant: the register mutex is not taken. *)
LockIgnored(t) == TRUE

LockFree(t) == mutex = Nobody

(* mutex_lock; port_mask starts as the port of the call, or empty for the  *)
(* calls that fetch the entry first.                                       *)
Lock(t) ==
    /\ pc[t] = "lock" /\ LockFree(t)
    /\ mutex' = t
    /\ pc' = [pc EXCEPT ![t] = CASE op[t].kind = "dump" -> "search"
                                 [] op[t].kind \in {"mdb_add", "mdb_del"} -> "key"
                                 [] OTHER -> "ata"]
    /\ mask' = [mask EXCEPT ![t] = IF op[t].kind \in {"mdb_add", "mdb_del"}
                                   THEN {} ELSE op[t].port]
    /\ UNCHANGED <<table, regVars, op, dump, wanted, unsure>>
    /\ Note

Unlocked(t) ==
    /\ mutex' = Nobody
    /\ pc' = [pc EXCEPT ![t] = "idle"]
    /\ op' = [op EXCEPT ![t] = NoOp]
    /\ mask' = [mask EXCEPT ![t] = {}]

-----------------------------------------------------------------------------
(* The registers *)

(* an8855_fdb_write: the address makes the entry a static one, its data    *)
(* follow.  A call that fetches the entry first writes it with no ports.   *)
WriteAta(t) ==
    /\ pc[t] \in {"key", "ata"}
    /\ ata' = [addr |-> op[t].addr, dyn |-> FALSE]
    /\ pc' = [pc EXCEPT ![t] = IF @ = "key" THEN "keydata" ELSE "data"]
    /\ UNCHANGED <<table, atwd, mutex, op, mask, dump, wanted, unsure>>
    /\ Note

WriteData(t) ==
    /\ pc[t] \in {"keydata", "data"}
    /\ atwd' = IF pc[t] = "keydata" THEN [vld |-> FALSE, ports |-> {}]
               ELSE [vld |-> op[t].kind # "fdb_del" /\ mask[t] # {}, ports |-> mask[t]]
    /\ pc' = [pc EXCEPT ![t] = IF @ = "keydata" THEN "fetch" ELSE "store"]
    /\ UNCHANGED <<table, ata, mutex, op, mask, dump, wanted, unsure>>
    /\ Note

(* The members of a group with the port of the call added or removed. *)
Changed(t, P) == IF op[t].kind = "mdb_add" THEN P \cup op[t].port ELSE P \ op[t].port

(* AN8855_FDB_READ and the read of ATRD3, which no other call writes.  If  *)
(* the poll runs out the call goes on as if the group had no members.      *)
Fetch(t) ==
    /\ pc[t] = "fetch"
    /\ \/ /\ mask' = [mask EXCEPT ![t] = Changed(t, table[ata.addr].ports)]
          /\ UNCHANGED unsure
       \/ /\ mask' = [mask EXCEPT ![t] = Changed(t, {})]
          /\ unsure' = unsure \cup {op[t].addr}
    /\ pc' = [pc EXCEPT ![t] = "ata"]
    /\ UNCHANGED <<table, regVars, mutex, op, dump, wanted>>
    /\ Note

(* What the core counts on once the call has returned without an error. *)
WantedBy(t) ==
    CASE op[t].kind = "fdb_add" -> op[t].port
      [] op[t].kind = "fdb_del" -> {}
      [] OTHER -> Changed(t, wanted[op[t].addr])

(* AN8855_FDB_WRITE, after which the mutex is released. *)
Store(t) ==
    /\ pc[t] = "store"
    /\ table' = Written
    /\ wanted' = [wanted EXCEPT ![op[t].addr] = WantedBy(t)]
    /\ unsure' = IF op[t].kind \in {"fdb_add", "fdb_del"}
                 THEN unsure \ {op[t].addr} ELSE unsure
    /\ Unlocked(t)
    /\ UNCHANGED <<regVars, dump>>
    /\ Note

StoreFails(t) ==
    /\ pc[t] = "store"
    /\ table' \in {table, Written}
    /\ unsure' = unsure \cup {op[t].addr}
    /\ Unlocked(t)
    /\ UNCHANGED <<regVars, dump, wanted>>
    /\ Note

-----------------------------------------------------------------------------
(* an8855_port_fdb_dump *)

SearchPort ==
    /\ pc["rtnl"] = "search"
    /\ atwd' = [atwd EXCEPT !.ports = op["rtnl"].port]
    /\ pc' = [pc EXCEPT !["rtnl"] = "next"]
    /\ UNCHANGED <<table, ata, mutex, op, mask, dump, wanted, unsure>>
    /\ Note

(* What the search finds in a row, and the rows still ahead with a match.  *)
Hits(r) == {a \in Addrs : hash[a] = r /\ table[a].ports \cap atwd.ports # {}}
HitRows == {r \in dump.row..(Rows - 1) : Hits(r) # {}}

(* The records of row r, counted as far as the loop over them comes. *)
Passed(r, S, n, F) ==
    dump' = [row |-> r + 1, count |-> dump.count + n,
             seen |-> dump.seen \cup S, refused |-> dump.refused \cup F]

(* AN8855_FDB_START and AN8855_FDB_NEXT answer with the matches of the     *)
(* next row, which go to the callback one by one.  When it fails the rest  *)
(* of the row is skipped, and the next command overwrites the error.       *)
SearchNext ==
    /\ pc["rtnl"] = "next" /\ dump.count < Records
    /\ \E r \in HitRows :
          /\ \A s \in HitRows : r <= s
          /\ \/ Passed(r, Hits(r), 4, {})
             \/ \E n \in 1..4, S \in SUBSET Hits(r) : S # Hits(r) /\ Passed(r, S, n, {r})
    /\ UNCHANGED <<table, regVars, mutex, callVars, wanted, unsure>>
    /\ Note

(* The dump stops: no match is left, or it has counted as many records as  *)
(* the table has.                                                          *)
SearchEnds ==
    /\ pc["rtnl"] = "next" /\ (HitRows = {} \/ dump.count >= Records)
    /\ dump' = NoDump
    /\ Unlocked("rtnl")
    /\ UNCHANGED <<table, regVars, wanted, unsure>>
    /\ Note

(* The poll of the command ran out: the dump ends with an error. *)
SearchFails ==
    /\ pc["rtnl"] = "next" /\ dump.count < Records
    /\ pc' = [pc EXCEPT !["rtnl"] = "exit"]
    /\ dump' = NoDump
    /\ UNCHANGED <<table, regVars, mutex, op, mask, wanted, unsure>>
    /\ Note

SearchExit ==
    /\ pc["rtnl"] = "exit"
    /\ Unlocked("rtnl")
    /\ UNCHANGED <<table, regVars, dump, wanted, unsure>>
    /\ Note

-----------------------------------------------------------------------------
(* an8855_port_fast_age, without reg_mutex *)

(* The write of ATA2 wipes the end of an address that is there. *)
AgeAta2 ==
    /\ pc["rtnl"] = "ata2"
    /\ ata' = [addr |-> Garbled, dyn |-> TRUE]
    /\ pc' = [pc EXCEPT !["rtnl"] = "atwd2"]
    /\ UNCHANGED <<table, atwd, mutex, op, mask, dump, wanted, unsure>>
    /\ Note

AgeAtwd2 ==
    /\ pc["rtnl"] = "atwd2"
    /\ atwd' = [atwd EXCEPT !.ports = op["rtnl"].port]
    /\ pc' = [pc EXCEPT !["rtnl"] = "flush"]
    /\ UNCHANGED <<table, ata, mutex, op, mask, dump, wanted, unsure>>
    /\ Note

(* Nobody looks at the result of the command. *)
AgeFlush ==
    /\ pc["rtnl"] = "flush"
    /\ table' \in {table, Flushed}
    /\ pc' = [pc EXCEPT !["rtnl"] = "idle"]
    /\ op' = [op EXCEPT !["rtnl"] = NoOp]
    /\ UNCHANGED <<regVars, mutex, mask, dump, wanted, unsure>>
    /\ Note

-----------------------------------------------------------------------------
FdbInit ==
    /\ table = [a \in Addrs |-> Absent]
    /\ ata = [addr |-> Garbled, dyn |-> FALSE]
    /\ atwd = [vld |-> FALSE, ports |-> {}]
    /\ mutex = Nobody
    /\ pc = [t \in Threads |-> "idle"]
    /\ op = [t \in Threads |-> NoOp]
    /\ mask = [t \in Threads |-> {}]
    /\ hash \in Hashes /\ dump = NoDump
    /\ wanted = [a \in Addrs |-> {}]
    /\ unsure = {}
    /\ disturbed = FALSE

Step(t) ==
    \/ Lock(t) \/ WriteAta(t) \/ WriteData(t)
    \/ Fetch(t) \/ Store(t) \/ StoreFails(t)
    \/ t = "rtnl" /\ (SearchPort \/ SearchNext \/ SearchEnds
                      \/ SearchFails \/ SearchExit)
    \/ t = "rtnl" /\ (AgeAta2 \/ AgeAtwd2 \/ AgeFlush)

FdbNext ==
    /\ UNCHANGED hash
    /\ \/ \E p \in FdbPorts :
             \/ \E a \in Hosts : FdbAdd(a, p) \/ FdbDel(a, p) \/ Learn(a, p)
             \/ \E a \in Groups : MdbAdd(a, p) \/ MdbDel(a, p)
             \/ FdbDump(p) \/ FastAge(p)
       \/ \E a \in Hosts : Age(a)
       \/ \E t \in Threads : Step(t)

-----------------------------------------------------------------------------
(* Properties *)

FdbTypeOK ==
    /\ table \in [Addrs -> [ports : SUBSET FdbPorts, dyn : BOOLEAN]]
    /\ ata \in [addr : Addrs, dyn : BOOLEAN]
    /\ atwd \in [vld : BOOLEAN, ports : SUBSET FdbPorts]
    /\ mutex \in Threads \cup {Nobody}
    /\ pc \in [Threads -> {"idle", "lock", "key", "keydata", "fetch", "ata",
                           "data", "store", "search", "next", "exit", "ata2", "atwd2", "flush"}]
    /\ op \in [Threads -> [kind : {"none", "fdb_add", "fdb_del", "mdb_add", "mdb_del",
                                   "dump", "fast_age"},
                           addr : Addrs, port : SUBSET FdbPorts]]
    /\ mask \in [Threads -> SUBSET FdbPorts]
    /\ dump \in DumpState
    /\ wanted \in [Addrs -> SUBSET FdbPorts]
    /\ unsure \subseteq Addrs
    /\ disturbed \in BOOLEAN

(* The chip holds exactly the static entries the calls that returned have  *)
(* asked for: no group loses a member to a call of the other thread, to    *)
(* the learning of the chip or to fast ageing.  Addresses of commands that *)
(* timed out are left out, and so are behaviours in which fast ageing ran  *)
(* into another call, from which nothing in an8855_port_fast_age protects. *)
EntriesKept ==
    ~disturbed => \A a \in Addrs \ unsure :
        IF wanted[a] # {} THEN table[a] = EntryOf(wanted[a], FALSE) ELSE ~Static(a)

(* A dump whose commands did not time out has, when it returns, reported   *)
(* every static entry of its port, but for the rows in which the callback  *)
(* refused an entry: the search port in ATWD2 stays its own from the first *)
(* command to the last, since it keeps reg_mutex, a refusal costs no later *)
(* row, and counting four records to a row the stop at                     *)
(* AN8855_NUM_FDB_RECORDS does not come before the last row (an8855.c      *)
(* 405-462).  The exception is the code's: the error of the callback ends  *)
(* the loop over the row only (line 446) and is overwritten by the next    *)
(* command (454), so a dump that has skipped entries may return 0.         *)
DumpComplete ==
    [][pc["rtnl"] = "next" /\ pc'["rtnl"] = "idle" =>
          \A a \in Addrs : Static(a) /\ table[a].ports \cap op["rtnl"].port # {}
                               => a \in dump.seen \/ hash[a] \in dump.refused]_fdbVars
=============================================================================
