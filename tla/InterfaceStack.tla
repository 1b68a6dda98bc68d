--------------------------- MODULE InterfaceStack ---------------------------
(***************************************************************************)
(* Device.InterfaceStack: the table that says which interface lies on      *)
(* which.  Asking for the number of rows throws the table away and builds  *)
(* a new one from four looks at the kernel's interfaces, between which     *)
(* they may change: the bridges and their members, the IP interfaces, the  *)
(* Ethernet and the MoCA interfaces.  A client's Get and the updateHandler *)
(* poll both do this; getLock initialises its mutex again on every call    *)
(* and keeps neither out.  A look that fails, in whole or in part, leaves  *)
(* out what could not be read, and the rebuild goes on without it.         *)
(*                                                                         *)
(* Interface names are numbers in their alphabetical order.                *)
(***************************************************************************)
EXTENDS Naturals, FiniteSets

CONSTANTS Bridges,   \* names of interfaces that are bridges
          Eths,      \* names that begin with "eth"
          MoCAs,     \* the name the MoCA driver reports, if there is one
          Others,    \* names no profile below IP serves
          MaxName,   \* bound on the names
          MaxChanges,  \* bound on how often the kernel's interfaces change
          MaxFailures  \* bound on how many looks at them fail

Names   == Bridges \cup Eths \cup MoCAs \cup Others
Threads == {"get", "poll"}

(* The sizes the code has room for: MAX_IFCS indexes, and a list of the    *)
(* members of a bridge in MAX_BUF_LEN (128) bytes, which any 8 names of at *)
(* most 15 characters and their commas fit.                                *)
MAX_IFCS   == 256
MaxMembers == 8

ASSUME InterfaceNames == /\ Names \subseteq 1 .. MaxName /\ MaxName \in Nat
                         /\ Cardinality(Names) <= MAX_IFCS
                         /\ Cardinality(MoCAs) <= 1
                         /\ Bridges \cap (Eths \cup MoCAs \cup Others) = {}
                         /\ MaxChanges \in Nat /\ MaxFailures \in Nat

VARIABLES index,     \* the kernel: the index of every interface there is
          changes,   \* the kernel: how often that or the next has changed
          master,    \* the kernel: the bridge an interface is a member of, 0 if none
          bridges,   \* stBridgeTableHash: the bridges and their members
          table,     \* stIshash: row number -> the row
          th,        \* the rebuild each thread is in, and what it has seen so far
          still,     \* since the last rebuild began no interface has changed and
                     \* no look at the kernel has failed
          alone,     \* the rebuild the table comes from met no other one
          failures   \* how many looks have failed, in whole or in part

kernel == <<index, changes, master>>
vars   == <<kernel, bridges, table, th, still, alone, failures>>

(* A layer: an interface of a profile, a port of "bridge 1", or none. *)
Layer(profile, n) == [profile |-> profile, n |-> n]
NoLayer           == Layer("none", 0)

Idle    == [pc |-> "idle", ip |-> <<>>, lower |-> {}]
Present == DOMAIN index

Members(b) == {n \in Names : master[n] = b}

Init == /\ index \in {[n \in S |-> n] : S \in SUBSET Names}
        /\ changes = 0
        /\ master \in [Names -> (Present \cap Bridges) \cup {0}]
        /\ \A n \in Names : master[n] # 0 => n \in Present \ Bridges
        /\ \A b \in Bridges : Cardinality(Members(b)) <= MaxMembers
        /\ bridges = <<>>
        /\ table   = <<>>
        /\ th      = [t \in Threads |-> Idle]
        /\ still   = TRUE
        /\ alone   = TRUE
        /\ failures = 0

-----------------------------------------------------------------------------
(* What the kernel does meanwhile. *)
Unplug(n) == /\ n \in Present
             /\ index'  = [m \in Present \ {n} |-> index[m]]
             /\ master' = [m \in Names |-> IF n \in {m, master[m]} THEN 0 ELSE master[m]]
(* A new interface has an index that none had before. *)
Plug(n)   == /\ n \notin Present
             /\ index' = [m \in Present \cup {n} |->
                             IF m = n THEN MaxName + changes + 1 ELSE index[m]]
             /\ UNCHANGED master
Enslave(n, b) == /\ n \in Present \ Bridges /\ b \in Present \cap Bridges
                 /\ master[n] = 0 /\ Cardinality(Members(b)) < MaxMembers
                 /\ master' = [master EXCEPT ![n] = b]
                 /\ UNCHANGED index
Change == /\ changes < MaxChanges
          /\ changes' = changes + 1
          /\ \E n \in Names : Unplug(n) \/ Plug(n) \/ \E b \in Bridges : Enslave(n, b)
          /\ still' = FALSE
          /\ UNCHANGED <<bridges, table, th, alone, failures>>

-----------------------------------------------------------------------------
(* The place of a name in an alphabetical list, and that of an interface   *)
(* in the list that if_nameindex gives, in the order of the indexes.       *)
Place(n, S)   == Cardinality({m \in S : m <= n})
IfPlace(n, S) == Cardinality({m \in S : index[m] <= index[n]})

(* populateBridgeTable: every bridge with its members. *)
BridgeTable == [b \in Present \cap Bridges |-> {n \in Present : master[n] = b}]

(* getIPInterfaces: the interfaces in alphabetical order, numbered from 0. *)
Numbered(S)  == [n \in S |-> Place(n, S) - 1]
IPInterfaces == Numbered(Present)

(* The entries of the multimap layerInfo.  The key is an interface's own   *)
(* name or "<bridge>-child".                                               *)
Entry(name, key, higher, lower) ==
    [name |-> name, key |-> key, higher |-> higher, lower |-> lower]

(* buildLowerLayerInfo for Ethernet and for MoCA: one entry for every      *)
(* interface whose name could be read, numbered among them all.            *)
EthernetInterfaces == Present \cap Eths
LowerLayerInfo(eths, moca) ==
    {Entry(n, "own", NoLayer, Layer("Ethernet", IfPlace(n, EthernetInterfaces))) :
        n \in eths}
    \cup {Entry(n, "own", NoLayer, Layer("MoCA", 1)) : n \in moca}

(* find: the entry of a name that was inserted first, the MoCA one last.   *)
Find(info, name) ==
    LET S == {e \in info : e.name = name /\ e.key = "own"}
    IN {e \in S : e.lower.profile = "MoCA" => S = {e}}

Port(k) == Layer("Bridge", k)
(* Every bridge of the table gets its port 1 below it. *)
addBridgeNameLayerInfo(info) ==
    {IF e.name \in DOMAIN bridges /\ e \in Find(info, e.name)
     THEN [e EXCEPT !.lower = Port(1)] ELSE e : e \in info}
    \cup {Entry(b, "own", NoLayer, Port(1)) : b \in {c \in DOMAIN bridges : Find(info, c) = {}}}
(* A member's entry gets the member's port above it.  The bridge table is  *)
(* looked up by the address of a name, so a member that has no entry is    *)
(* not found there either and is left out.                                 *)
MemberPort(n, b) == Port(1 + Place(n, bridges[b]))
BridgesOf(n)     == {b \in DOMAIN bridges : n \in bridges[b]}
addBridgeChildLayerInfo(info) ==
    {IF e \in Find(info, e.name) /\ BridgesOf(e.name) # {}
     THEN [e EXCEPT !.higher = MemberPort(e.name, CHOOSE b \in BridgesOf(e.name) : TRUE)]
     ELSE e : e \in info}
(* Mutant of addBridgeUnmanagedLayerInfo: the first member's port is left   *)
(* out (a loop from 2 instead of from 1).                                  *)
addBridgeUnmanagedFromSecond(info, b) ==
    {Entry(b, "child", Port(1), MemberPort(m, b)) :
        m \in {n \in bridges[b] : Find(info, n) # {} /\ Place(n, bridges[b]) > 1}}

(* The links from the ports of a bridge's members to the port of the bridge. *)
addBridgeUnmanagedLayerInfo(info, b) ==
    {Entry(b, "child", Port(1), MemberPort(m, b)) :
        m \in {n \in bridges[b] : Find(info, n) # {}}}

(* Port 1 is the bridge's own; the members, those left out too, have the   *)
(* ports from 2 on.  Every bridge is bridge 1.  No bridge is a member of a *)
(* bridge, and no interface of two, so the order in which the hash gives   *)
(* the bridges makes no difference and they are all entered at once.       *)
buildBridgeTableLayerInfo(info) ==
    LET base == addBridgeNameLayerInfo(info)
    IN addBridgeChildLayerInfo(base)
       \cup UNION {addBridgeUnmanagedLayerInfo(base, b) : b \in DOMAIN bridges}

(* Mutant of fillHigherLayersWithIP: the layer above is replaced even when  *)
(* there is one, as for the members of a bridge.                           *)
fillHigherLayersAlways(info, ip) ==
    {IF e.name \in DOMAIN ip /\ e.key = "own"
     THEN [e EXCEPT !.higher = Layer("IP", ip[e.name])] ELSE e : e \in info}

fillHigherLayersWithIP(info, ip) ==
    {IF e.higher = NoLayer /\ e.name \in DOMAIN ip
     THEN [e EXCEPT !.higher = Layer("IP", ip[e.name])] ELSE e : e \in info}

(* The rows, in the order of the keys, "<bridge>-child" right after the    *)
(* bridge, and equal keys in the order of insertion.                       *)
Before(d, e) ==
    \/ d.name < e.name
    \/ /\ d.name = e.name
       /\ \/ d.key = "own" /\ e.key = "child"
          \/ d.key = e.key /\ d # e /\ e.lower.profile = "MoCA"
          \/ d.key = "child" /\ e.key = "child" /\ d.lower.n < e.lower.n
Rows(info) ==
    [k \in 1 .. Cardinality(info) |->
        LET e == CHOOSE e \in info : Cardinality({d \in info : Before(d, e)}) = k - 1
        IN [higher |-> e.higher, lower |-> e.lower]]

-----------------------------------------------------------------------------
(* get_Device_InterfaceStackNumberOfEntries in the thread t: the old rows  *)
(* go and the bridges are read, then the IP interfaces, then the Ethernet  *)
(* and MoCA ones, and the rows are made.  Of its readings none ends it:    *)
(* the result of populateBridgeTable is ignored, an if_nameindex that      *)
(* fails counts as no interface, and the profiles' getInstance never fails.*)
OthersIdle(t) == \A u \in Threads \ {t} : th[u].pc = "idle"

(* A look that read all there was to read, or one that failed to. *)
Look(full) == \/ full /\ UNCHANGED failures
              \/ ~full /\ failures < MaxFailures /\ failures' = failures + 1

(* A directory that cannot be scanned gives no bridge at all, a list of    *)
(* members that cannot be read leaves its bridge out.                      *)
CloseAll(t) ==
    /\ th[t].pc = "idle"
    /\ table' = <<>>
    /\ \E read \in SUBSET (Present \cap Bridges) :
          /\ bridges' = [b \in read |-> BridgeTable[b]]
          /\ still'   = (read = Present \cap Bridges)
          /\ Look(read = Present \cap Bridges)
    /\ th'      = [th EXCEPT ![t].pc = "ip"]
    /\ alone'   = OthersIdle(t)
    /\ UNCHANGED kernel
(* The interfaces whose index and name could be read are numbered.  (An    *)
(* index that could not be read leaves a place of ifindexes uninitialised, *)
(* which may name an interface by chance; it then counts as read.)         *)
ReadIP(t) ==
    /\ th[t].pc = "ip"
    /\ \E read \in SUBSET Present :
          /\ th'    = [th EXCEPT ![t].pc = "lower", ![t].ip = Numbered(read)]
          /\ still' = (still /\ read = Present)
          /\ Look(read = Present)
    /\ UNCHANGED <<kernel, bridges, table, alone>>
ReadLower(t) ==
    /\ th[t].pc = "lower"
    /\ \E eths \in SUBSET EthernetInterfaces, moca \in SUBSET MoCAs :
          /\ th'    = [th EXCEPT ![t].pc = "create", ![t].lower = LowerLayerInfo(eths, moca)]
          /\ still' = (still /\ eths = EthernetInterfaces)
          /\ Look(eths = EthernetInterfaces)
    /\ UNCHANGED <<kernel, bridges, table, alone>>
(* createInstance for every row; rows another rebuild has made meanwhile   *)
(* are replaced where the numbers are the same and stay where they are not.*)
CreateAll(t) ==
    /\ th[t].pc = "create"
    /\ LET r == Rows(fillHigherLayersWithIP(buildBridgeTableLayerInfo(th[t].lower), th[t].ip))
       IN table' = [i \in DOMAIN r \cup DOMAIN table |->
                       IF i \in DOMAIN r THEN r[i] ELSE table[i]]
    /\ th' = [th EXCEPT ![t] = Idle]
    /\ UNCHANGED <<kernel, bridges, still, alone, failures>>

NumberOfEntries(t) == CloseAll(t) \/ ReadIP(t) \/ ReadLower(t) \/ CreateAll(t)
handleGetMsg    == NumberOfEntries("get")
checkForUpdates == NumberOfEntries("poll")

Next == Change \/ handleGetMsg \/ checkForUpdates
Spec == Init /\ [][Next]_vars

-----------------------------------------------------------------------------
(* What lies above a layer: the layers reached by going up from row to row. *)
RowSet     == {table[i] : i \in DOMAIN table}
Over(R, S) == {r.higher : r \in {q \in R : q.lower \in S}}
Up(R, S)   == LET over == Over(R, S) IN IF over = {} THEN S ELSE over
Top(R, l)  == Up(R, Up(R, Up(R, {l})))

(* A port that a row has above it is the port some row has below it, and   *)
(* no row is without a lower layer: a manager that follows the table from  *)
(* an interface upwards never ends at a bridge port.  So it is whatever    *)
(* the kernel changed between the four looks and whatever they failed to   *)
(* read, provided that no other rebuild was under way.                     *)
PortsLinked ==
    alone => \A r \in RowSet : /\ r.lower # NoLayer
                               /\ r.higher.profile = "Bridge" => Over(RowSet, {r.higher}) # {}

(* When the interfaces have been left alone, every look has read them all  *)
(* and there is at most one bridge, going up from an Ethernet interface    *)
(* leads to one IP interface: that of its bridge when it is a member of    *)
(* one, its own when it is not.                                            *)
StackFollowsKernel ==
    (still /\ alone /\ DOMAIN table # {} /\ Cardinality(Present \cap Bridges) <= 1) =>
        \A n \in EthernetInterfaces :
            Top(RowSet, Layer("Ethernet", IfPlace(n, EthernetInterfaces))) =
                {Layer("IP", IPInterfaces[IF master[n] = 0 THEN n ELSE master[n]])}
=============================================================================
