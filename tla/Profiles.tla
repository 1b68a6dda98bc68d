------------------------------ MODULE Profiles ------------------------------
(***************************************************************************)
(* The kinds of parameter pairs the profiles have.  Two parameters matter  *)
(* to each other when they go through the same static field, compare with  *)
(* the same backup, share a called flag, or one is polled, overwritten or  *)
(* set through the other; and the same parameter of two rows always does.  *)
(***************************************************************************)
EXTENDS Naturals, FiniteSets, Getters

IP   == INSTANCE ProfileIP
Eth  == INSTANCE ProfileEthernet
MoCA == INSTANCE ProfileMoCA
DHCP == INSTANCE ProfileDHCPv4
Time == INSTANCE ProfileTime
STB  == INSTANCE ProfileSTB
Thn  == INSTANCE ProfileThunder
Info == INSTANCE ProfileDeviceInfo
BT   == INSTANCE ProfileBluetooth

(* The profiles whose checkForUpdates the updateHandler thread calls on    *)
(* every round; those of Time and of STBService are commented out.  That   *)
(* of DHCPv4 only counts the clients: its part for the subscribed values   *)
(* names a variable it does not declare, so no build has it.               *)
RunPolls == {"MoCA", "Ethernet", "IP", "Device", "DHCPv4", "InterfaceStack", "Bluetooth"}

NoPolls == Same({})
NoSets  == Same({})

(* A class with its tables: getters, setters, and what the if-chains of    *)
(* Get, of the poll and of Set send a name to.                             *)
Tables(profile, class, get, gets, polls, set, sets) ==
    [rows |-> class.rows, lock |-> class.lock, attr |-> class.attr, renamed |-> class.renamed,
     get |-> get, gets |-> gets, polls |-> IF profile \in RunPolls THEN polls ELSE NoPolls,
     set |-> set, sets |-> sets]

IPClasses ==
    { Tables("IP", IP!InterfaceClass, IP!InterfaceGetters, IP!InterfaceGets, IP!InterfacePolls,
             IP!InterfaceSetters, IP!InterfaceSets),
      Tables("IP", IP!StatsClass, IP!StatsGetters, IP!StatsGets, IP!StatsPolls, <<>>, NoSets),
      Tables("IP", IP!IPv4Class, IP!IPv4Getters, IP!IPv4Gets, NoPolls, IP!IPv4Setters, IP!IPv4Sets),
      Tables("IP", IP!IPv6Class, IP!IPv6Getters, IP!IPv6Gets, NoPolls,
             IP!IPv6Setters @@ IP!IPv6PrefixSetters, IP!IPv6Sets),
      Tables("IP", IP!RootClass, IP!RootGetters, IP!RootGets, IP!RootPolls, IP!RootSetters,
             IP!RootSets),
      Tables("IP", IP!PortClass, IP!PortGetters, IP!PortGets, IP!PortPolls, <<>>, NoSets),
      Tables("IP", IP!PingClass, IP!PingGetters, Same(DOMAIN IP!PingGetters), NoPolls,
             IP!PingSetters, Same(DOMAIN IP!PingSetters)) }
LinkClasses ==
    { Tables("Ethernet", Eth!InterfaceClass, Eth!InterfaceGetters, Eth!InterfaceGets,
             Eth!InterfacePolls, Eth!InterfaceSetters, Eth!InterfaceSets),
      Tables("Ethernet", Eth!StatsClass, Eth!StatsGetters, Eth!StatsGets, Eth!StatsPolls,
             <<>>, NoSets),
      Tables("MoCA", MoCA!InterfaceClass, MoCA!InterfaceGetters, MoCA!InterfaceGets,
             MoCA!InterfacePolls, MoCA!InterfaceSetters, MoCA!InterfaceSets),
      Tables("MoCA", MoCA!InterfaceClass, MoCA!StatsGetters, MoCA!StatsGets, MoCA!StatsPolls,
             <<>>, NoSets),
      Tables("MoCA", MoCA!RowClass, MoCA!FlowGetters @@ MoCA!QoSGetters, MoCA!FlowGets,
             MoCA!FlowPolls @@ MoCA!QoSPolls, <<>>, NoSets),
      Tables("MoCA", MoCA!RowClass, MoCA!PeerGetters, MoCA!PeerGets, MoCA!PeerPolls, <<>>, NoSets),
      Tables("MoCA", MoCA!RowClass, MoCA!MeshGetters, MoCA!MeshGets, NoPolls, <<>>, NoSets),
      Tables("DHCPv4", DHCP!ClientClass, DHCP!ClientGetters, DHCP!ClientGets, NoPolls,
             <<>>, NoSets),
      Tables("Time", Time!TimeClass, Time!TimeGetters, Time!TimeGets, Time!TimePolls,
             Time!TimeSetters, Time!TimeSets) }
STBClasses ==
    { Tables("STB", STB!ServiceClass, STB!ServiceGetters, STB!ServiceGets, NoPolls, <<>>, NoSets),
      Tables("STB", STB!AudioClass, STB!AudioGetters, STB!AudioGets, STB!AudioPolls,
             STB!AudioSetters, STB!AudioSets),
      Tables("STB", STB!HDMIClass, STB!HDMIGetters, STB!HDMIGets, STB!HDMIPolls,
             STB!HDMISetters, STB!HDMISets),
      Tables("STB", STB!DisplayClass, STB!DisplayGetters, STB!DisplayGets, STB!DisplayPolls,
             <<>>, NoSets),
      Tables("STB", STB!SPDIFClass, STB!SPDIFGetters @@ STB!SPDIFPortGetters, STB!SPDIFGets,
             STB!SPDIFPolls, STB!SPDIFStubSetters @@ STB!SPDIFSetters, STB!SPDIFSets),
      Tables("STB", STB!OutputClass, STB!OutputGetters, STB!OutputGets, STB!OutputPolls,
             <<>>, NoSets),
      Tables("STB", STB!DecoderClass, STB!DecoderGetters @@ STB!DecoderFixed, STB!DecoderGets,
             STB!DecoderPolls, STB!DecoderSetters, STB!DecoderSets),
      Tables("STB", STB!CapabilityClass,
             STB!CapabilityGetters @@ STB!ProfileGetters @@ STB!ResolutionGetters,
             STB!CapabilityGets, NoPolls, <<>>, NoSets),
      Tables("STB", STB!CardClass, STB!CardGetters @@ STB!CardMaker @@ STB!CardStateGetters,
             STB!CardGets, NoPolls, <<>>, NoSets),
      Tables("STB", STB!FlashClass, STB!FlashInfoGetters @@ STB!FlashHealthGetters,
             STB!FlashGets, NoPolls, <<>>, NoSets) }
ThunderClasses ==
    { Tables("STB", Thn!AudioClass, Thn!AudioStateGetters @@ Thn!AudioModeGetters, Thn!AudioGets,
             Thn!AudioPolls, <<>>, NoSets),
      Tables("STB", Thn!HDMIClass, Thn!HDMIResolutionGetters @@ Thn!HDMIStatusGetters,
             Thn!HDMIGets, Thn!HDMIPolls, <<>>, NoSets),
      Tables("STB", Thn!DisplayClass, Thn!DisplayModeGetters @@ Thn!DisplayEDIDGetters,
             Thn!DisplayGets, Thn!DisplayPolls, <<>>, NoSets),
      Tables("STB", Thn!SPDIFClass, Thn!SPDIFGetters, Thn!SPDIFGets, Thn!SPDIFPolls, <<>>, NoSets),
      Tables("STB", Thn!OutputClass, Thn!OutputGetters, Thn!OutputGets, Thn!OutputPolls,
             <<>>, NoSets),
      Tables("STB", Thn!DecoderClass, Thn!DecoderGetters @@ Thn!DecoderFixed, Thn!DecoderGets,
             Thn!DecoderPolls, <<>>, NoSets),
      Tables("STB", Thn!CapabilityClass,
             Thn!CapabilityGetters @@ Thn!ProfileGetters @@ Thn!ResolutionGetters,
             Thn!CapabilityGets, NoPolls, <<>>, NoSets) }
DeviceClasses ==
    { Tables("Device", Info!InfoClass, Info!InfoGetters, Info!InfoGets, Info!InfoPolls,
             Info!InfoSetters, Info!InfoSets),
      Tables("Device", Info!ProcessorClass, Info!ProcessorGetters, Info!ProcessorGets,
             Info!ProcessorPolls, <<>>, NoSets),
      Tables("Device", Info!StatusClass, Info!StatusGetters, Info!StatusGets, Info!StatusPolls,
             <<>>, NoSets),
      Tables("Device", Info!ProcessClass, Info!ProcessGetters, Info!ProcessGets,
             Info!ProcessPolls, <<>>, NoSets),
      Tables("Bluetooth", BT!AdapterClass, BT!AdapterGetters, BT!AdapterGets, NoPolls,
             BT!AdapterSetters, BT!AdapterSets),
      Tables("Bluetooth", BT!RowClass, BT!RowGetters, BT!RowGets, NoPolls, <<>>, NoSets) }
Classes == DeviceClasses \cup IPClasses \cup LinkClasses \cup STBClasses \cup ThunderClasses

(* A member shared by the two is member 1 of both, otherwise each has the  *)
(* one with its own number; 0 is none.                                     *)
Number(c, mine, others, same) ==
    IF mine = "" THEN 0 ELSE IF same /\ mine = others THEN 1 ELSE c

(* The kind of pair (p, q), p and q of different rows when r is TRUE.      *)
Kind(k, p, q, r) ==
    LET name(c) == IF c = 1 THEN p ELSE q
        peer(c) == IF c = 1 THEN q ELSE p
        getter(c) == IF k.rows = "never" THEN Stub ELSE k.get[k.gets[name(c)]]
        other(c)  == k.get[k.gets[peer(c)]]
        object == ~r \/ k.rows # "own"          \* both parameters belong to one object
        cell(c, n) == CASE n = name(c) -> c [] ~r /\ n = peer(c) -> 3 - c [] OTHER -> 0
        get(c) == LET g == getter(c) h == other(c)
                  IN [g EXCEPT !.buf  = Number(c, g.buf, h.buf, g.src \notin {"cached", "listed"}),
                               !.slot = Number(c, g.slot, h.slot, object),
                               !.flag = Number(c, g.flag, h.flag, object),
                               !.also = IF g.also # "" /\ g.also = h.buf
                                        THEN Number(3 - c, h.buf, g.buf, TRUE) ELSE 0,
                               !.marks = IF object /\ g.marks # "" /\ g.marks = h.slot
                                         THEN 3 - c ELSE 0]
        setter(c) == IF name(c) \in DOMAIN k.sets THEN k.set[k.sets[name(c)]] ELSE NotWritten
        set(c) == LET s == setter(c)
                  IN [s EXCEPT !.effect = CASE s.effect = "self" -> c
                                            [] s.effect = "none" -> 0
                                            [] OTHER -> cell(c, s.effect),
                               !.drags = IF s.drags = "" THEN 0 ELSE cell(c, s.drags),
                               !.needs = IF /\ object \/ other(c).src = "memo"
                                            /\ s.needs # ""
                                            /\ s.needs \in {other(c).slot, other(c).buf}
                                         THEN 3 - c ELSE 0]
    IN [lock |-> k.lock, attr |-> k.attr, renamed |-> k.renamed,
        get  |-> [c \in {1, 2} |-> get(c)],
        poll |-> [c \in {1, 2} |-> IF name(c) \in DOMAIN k.polls
                                   THEN cell(c, k.polls[name(c)]) ELSE 0],
        set  |-> [c \in {1, 2} |-> set(c)]]

(* The two parameters of a kind have something to do with each other. *)
Interact(x) ==
    \/ \E m \in {"buf", "slot", "flag"} : x.get[1][m] # 0 /\ x.get[1][m] = x.get[2][m]
    \/ \E c \in {1, 2} : \/ x.get[c].also # 0
                         \/ x.get[c].marks # 0
                         \/ x.set[c].drags # 0
                         \/ x.set[c].needs # 0
                         \/ x.set[c].effect = 3 - c
                         \/ x.poll[c] = 3 - c

(* Parameters that share nothing are covered by the pair of a parameter    *)
(* with itself in another row, or with any other one when there is one row.*)
Pairs(k) ==
    LET N == DOMAIN k.gets
        two == {Kind(k, x[1], x[2], FALSE) : x \in {y \in N \X N : y[1] # y[2]}}
        any(p) == CHOOSE q \in N : q # p
    IN {x \in two : Interact(x)}
       \cup {IF k.rows = "one" THEN Kind(k, p, any(p), FALSE) ELSE Kind(k, p, p, TRUE) : p \in N}
AllKinds == UNION {Pairs(k) : k \in Classes}
=============================================================================
