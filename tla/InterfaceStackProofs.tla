------------------------ MODULE InterfaceStackProofs ------------------------
(* Proofs about InterfaceStack: the table that a rebuild makes is complete *)
(* and leads from every interface to the one that lies on it.              *)
EXTENDS InterfaceStack, FiniteSetTheorems, TLAPS

-----------------------------------------------------------------------------
(* What a function takes from a finite set is finite. *)
LEMMA ImageFinite ==
    ASSUME NEW S, IsFiniteSet(S), NEW f, DOMAIN f = S
    PROVE  IsFiniteSet({f[x] : x \in S})
<1> DEFINE T == {f[x] : x \in S}
           g == [x \in S |-> f[x]]
<1>1. g \in [S -> T] /\ \A y \in T : \E x \in S : g[x] = y
  BY Zenon
<1>2. g \in Surjection(S, T)
  BY <1>1, Zenon DEF Surjection, Range
<1> QED BY <1>2, FS_Surjection, Zenon

(* The elements of a finite set in a strict total order, below[e] being    *)
(* what comes before e: the number of elements before e is different for   *)
(* every e, and every number less than that of all elements occurs.        *)
LEMMA Ranks ==
    ASSUME NEW S, IsFiniteSet(S), NEW below \in [S -> SUBSET S],
           \A e \in S : e \notin below[e],
           \A d, e \in S : d \in below[e] => below[d] \subseteq below[e],
           \A d, e \in S : d # e => d \in below[e] \/ e \in below[d]
    PROVE  /\ \A e \in S : Cardinality(below[e]) \in 0 .. Cardinality(S) - 1
           /\ \A d, e \in S : Cardinality(below[d]) = Cardinality(below[e]) => d = e
           /\ \A k \in 1 .. Cardinality(S) : \E e \in S : Cardinality(below[e]) = k - 1
<1> DEFINE n == Cardinality(S)
           rank == [e \in S |-> Cardinality(below[e]) + 1]
<1>1. n \in Nat
  BY FS_CardinalityType, Zenon
<1>2. \A e \in S : /\ IsFiniteSet(below[e])
                   /\ Cardinality(below[e]) \in Nat
                   /\ Cardinality(below[e]) <= n
                   /\ Cardinality(below[e]) # n
  <2> TAKE e \in S
  <2>1. below[e] \in SUBSET S /\ below[e] # S
    BY Zenon
  <2>2. /\ IsFiniteSet(below[e])
        /\ Cardinality(below[e]) <= n
        /\ n = Cardinality(below[e]) => S = below[e]
    BY <2>1, FS_Subset, Zenon
  <2> QED BY <2>1, <2>2, FS_CardinalityType, Zenon
<1>3. \A e \in S : Cardinality(below[e]) \in 0 .. n - 1
  BY <1>1, <1>2, SMT
<1>4. ASSUME NEW d \in S, NEW e \in S, d \in below[e]
      PROVE  Cardinality(below[d]) # Cardinality(below[e])
  <2>1. below[d] \in SUBSET below[e] /\ below[d] # below[e]
    BY <1>4, Zenon
  <2> QED BY <2>1, <1>2, FS_Subset, Zenon
<1>5. \A d, e \in S : Cardinality(below[d]) = Cardinality(below[e]) => d = e
  BY <1>4, Zenon
<1>6. rank \in Injection(S, 1 .. n)
  <2>1. rank \in [S -> 1 .. n]
    BY <1>1, <1>3, SMT
  <2>2. \A d, e \in S : rank[d] = rank[e] => d = e
    BY <1>2, <1>5, SMT
  <2> QED BY <2>1, <2>2, Zenon DEF Injection, IsInjective
<1>7. IsFiniteSet(1 .. n) /\ Cardinality(1 .. n) = n
  BY <1>1, FS_Interval, SMT
<1>8. rank \in Surjection(S, 1 .. n)
  BY <1>6, <1>7, FS_Injection, Zenon
<1>9. \A k \in 1 .. n : \E e \in S : rank[e] = k
  BY <1>8, Zenon DEF Surjection, Range
<1>10. \A k \in 1 .. n : \E e \in S : Cardinality(below[e]) = k - 1
  <2> TAKE k \in 1 .. n
  <2>1. PICK e \in S : rank[e] = k
    BY <1>9, Zenon
  <2> QED BY <2>1, <1>1, <1>2, SMT
<1> QED BY <1>3, <1>5, <1>10, Zenon

-----------------------------------------------------------------------------
(* Entries whose keys, insertion and ports put them in one order only. *)
Sortable(info) ==
    /\ IsFiniteSet(info)
    /\ \A e \in info : /\ e.name \in Nat /\ e.key \in {"own", "child"} /\ e.lower.n \in Nat
                       /\ e.key = "child" => e.lower.profile # "MoCA"
    /\ \A d, e \in info :
          (d # e /\ d.name = e.name /\ d.key = e.key) =>
              IF d.key = "child" THEN d.lower.n # e.lower.n
                         ELSE ~(d.lower.profile = "MoCA" <=> e.lower.profile = "MoCA")

RowOf(e) == [higher |-> e.higher, lower |-> e.lower]

(* The order of two entries, by cases. *)
LEMMA BeforeCases ==
    ASSUME NEW info, Sortable(info), NEW d \in info, NEW e \in info
    PROVE  Before(d, e) <=>
               \/ d.name < e.name
               \/ d.name = e.name /\ d.key = "own" /\ e.key = "child"
               \/ d.name = e.name /\ d.key = "own" /\ e.key = "own" /\ d # e /\ e.lower.profile = "MoCA"
               \/ d.name = e.name /\ d.key = "child" /\ e.key = "child" /\ d.lower.n < e.lower.n
<1>1. /\ d.key \in {"own", "child"} /\ e.key \in {"own", "child"}
      /\ e.key = "child" => e.lower.profile # "MoCA"
  BY Zenon DEF Sortable
<1> QED BY <1>1, SMT DEF Before

(* Before is a strict total order on the entries. *)
LEMMA BeforeOrder ==
    ASSUME NEW info, Sortable(info)
    PROVE  /\ \A e \in info : ~Before(e, e)
           /\ \A c, d, e \in info : Before(c, d) /\ Before(d, e) => Before(c, e)
           /\ \A d, e \in info : d # e => Before(d, e) \/ Before(e, d)
<1>1. \A e \in info : e.name \in Nat /\ e.lower.n \in Nat /\ e.key \in {"own", "child"}
  BY Zenon DEF Sortable
<1>2. \A e \in info : ~Before(e, e)
  BY <1>1, BeforeCases, SMT
<1>3. ASSUME NEW c \in info, NEW d \in info, NEW e \in info, Before(c, d), Before(d, e)
      PROVE  Before(c, e)
  <2>1. c.key = "own" /\ d.key = "own" /\ e.key = "own" /\ c.name = d.name /\ d.name = e.name =>
            ~(c # d /\ d.lower.profile = "MoCA" /\ d # e /\ e.lower.profile = "MoCA")
    BY Zenon DEF Sortable
  <2> QED BY <1>1, <1>3, <2>1, BeforeCases, SMT
<1>4. ASSUME NEW d \in info, NEW e \in info, d # e
      PROVE  Before(d, e) \/ Before(e, d)
  <2>1. d.name = e.name /\ d.key = e.key =>
            IF d.key = "child" THEN d.lower.n # e.lower.n
                       ELSE ~(d.lower.profile = "MoCA" <=> e.lower.profile = "MoCA")
    BY <1>4, Zenon DEF Sortable
  <2> QED BY <1>1, <1>4, <2>1, BeforeCases, SMT
<1> QED BY <1>2, <1>3, <1>4, Zenon

(* createInstance is called once for every entry: the rows are the entries. *)
LEMMA RowsAreEntries ==
    ASSUME NEW info, Sortable(info)
    PROVE  {Rows(info)[k] : k \in DOMAIN Rows(info)} = {RowOf(e) : e \in info}
<1> DEFINE Below(e) == {d \in info : Before(d, e)}
           below    == [e \in info |-> Below(e)]
           At(k)    == CHOOSE e \in info : Cardinality(Below(e)) = k - 1
<1>1. /\ \A e \in info : Cardinality(below[e]) \in 0 .. Cardinality(info) - 1
      /\ \A d, e \in info : Cardinality(below[d]) = Cardinality(below[e]) => d = e
      /\ \A k \in 1 .. Cardinality(info) : \E e \in info : Cardinality(below[e]) = k - 1
  <2>1. IsFiniteSet(info)
    BY Zenon DEF Sortable
  <2>2. below \in [info -> SUBSET info]
    BY Zenon
  <2>3. \A e \in info : e \notin below[e]
    BY BeforeOrder, Zenon
  <2>4. \A d, e \in info : d \in below[e] => below[d] \subseteq below[e]
    BY BeforeOrder, Zenon
  <2>5. \A d, e \in info : d # e => d \in below[e] \/ e \in below[d]
    BY BeforeOrder, Zenon
  <2> QED BY <2>1, <2>2, <2>3, <2>4, <2>5, Ranks, Zenon
<1>2. /\ \A e \in info : Cardinality(Below(e)) \in 0 .. Cardinality(info) - 1
      /\ \A d, e \in info : Cardinality(Below(d)) = Cardinality(Below(e)) => d = e
      /\ \A k \in 1 .. Cardinality(info) : \E e \in info : Cardinality(Below(e)) = k - 1
  <2>1. \A e \in info : below[e] = Below(e)
    BY Zenon
  <2> QED BY <1>1, <2>1, Zenon
<1>3. /\ DOMAIN Rows(info) = 1 .. Cardinality(info)
      /\ \A k \in 1 .. Cardinality(info) : Rows(info)[k] = RowOf(At(k))
  BY Zenon DEF Rows, RowOf
<1>4. \A k \in 1 .. Cardinality(info) : At(k) \in info /\ Cardinality(Below(At(k))) = k - 1
  BY <1>2, Zenon
<1>5. Cardinality(info) \in Nat
  BY FS_CardinalityType, Zenon DEF Sortable
<1> HIDE DEF Below, below, At
<1>6. \A e \in info : /\ Cardinality(Below(e)) + 1 \in 1 .. Cardinality(info)
                      /\ (Cardinality(Below(e)) + 1) - 1 = Cardinality(Below(e))
  BY <1>2, <1>5, SMT
<1>7. ASSUME NEW e \in info
      PROVE  \E k \in DOMAIN Rows(info) : Rows(info)[k] = RowOf(e)
  <2> DEFINE k == Cardinality(Below(e)) + 1
  <2>1. k \in 1 .. Cardinality(info) /\ k - 1 = Cardinality(Below(e))
    BY <1>6, Zenon
  <2> HIDE DEF k
  <2>2. At(k) \in info /\ Cardinality(Below(At(k))) = Cardinality(Below(e))
    BY <1>4, <2>1, Zenon
  <2>3. At(k) = e
    BY <1>2, <2>2, Zenon
  <2> QED BY <1>3, <2>1, <2>3, Zenon
<1>8. ASSUME NEW k \in DOMAIN Rows(info)
      PROVE  \E e \in info : Rows(info)[k] = RowOf(e)
  BY <1>3, <1>4, Zenon
<1> QED BY <1>7, <1>8, Zenon

-----------------------------------------------------------------------------
(* The bridge table: its bridges are bridges, their members are not, and   *)
(* no interface is a member of two.                                        *)
BridgesOK ==
    /\ DOMAIN bridges \subseteq Bridges
    /\ \A b \in DOMAIN bridges : bridges[b] \subseteq Names \ Bridges
    /\ \A b, c \in DOMAIN bridges : \A n \in bridges[b] : n \in bridges[c] => b = c

(* The entries made by buildLowerLayerInfo: at most one of each profile    *)
(* for a name.                                                             *)
LowerOK(info) ==
    /\ IsFiniteSet(info)
    /\ \A e \in info : /\ e = Entry(e.name, "own", NoLayer, e.lower)
                       /\ e.lower.n \in Nat
                       /\ \/ e.name \in Eths /\ e.lower.profile = "Ethernet"
                          \/ e.name \in MoCAs /\ e.lower.profile = "MoCA"
    /\ \A d, e \in info : d.name = e.name /\ d.lower.profile = e.lower.profile => d = e

(* The entries with those of the bridges. *)
Base(info) == info \cup {Entry(b, "own", NoLayer, Port(1)) : b \in DOMAIN bridges}

(* The layer above an entry in the end. *)
Raised(base, e)    == e \in Find(base, e.name) /\ BridgesOf(e.name) # {}
PortOf(n)          == MemberPort(n, CHOOSE b \in BridgesOf(n) : TRUE)
Above(base, ip, e) == IF Raised(base, e) THEN PortOf(e.name)
                      ELSE IF e.name \in DOMAIN ip THEN Layer("IP", ip[e.name]) ELSE NoLayer
Full(base, ip, e)  == Entry(e.name, "own", Above(base, ip, e), e.lower)
Link(m, b)         == Entry(b, "child", Port(1), MemberPort(m, b))
Links(base)        == UNION {{Link(m, b) : m \in {n \in bridges[b] : Find(base, n) # {}}} :
                                b \in DOMAIN bridges}

(* A layer put above an entry leaves the rest of the entry. *)
LEMMA EntryRaised ==
    ASSUME NEW n, NEW c, NEW h, NEW l, NEW k
    PROVE  [Entry(n, c, h, l) EXCEPT !.higher = k] = Entry(n, c, k, l)
BY SMT DEF Entry

(* Layers are told apart by profile and number. *)
LEMMA LayersDiffer ==
    /\ \A k : Port(k) # NoLayer
    /\ \A j, k : Port(j) = Port(k) => j = k
    /\ \A k : Port(k).profile = "Bridge" /\ Port(k).n = k
    /\ NoLayer.profile = "none"
    /\ \A k : Layer("IP", k) # NoLayer
<1>1. /\ \A k : Port(k).profile = "Bridge" /\ Port(k).n = k
      /\ NoLayer.profile = "none"
      /\ \A k : Layer("IP", k).profile = "IP"
  BY Zenon DEF Layer, Port, NoLayer
<1>2. "Bridge" # "none" /\ "IP" # "none"
  OBVIOUS
<1>3. \A j, k : Port(j) = Port(k) => j = k
  BY <1>1, SMT
<1>4. \A k : Port(k) # NoLayer /\ Layer("IP", k) # NoLayer
  BY <1>1, <1>2, SMT
<1> QED BY <1>1, <1>3, <1>4, Zenon

(* Every name that has a place below a bridge is a natural number. *)
LEMMA NamesFinite == Names \subseteq Nat /\ IsFiniteSet(Names)
<1>1. Names \subseteq 1 .. MaxName /\ MaxName \in Nat
  BY InterfaceNames, Zenon
<1>2. IsFiniteSet(1 .. MaxName)
  BY <1>1, FS_Interval, SMT
<1>3. IsFiniteSet(Names)
  BY <1>1, <1>2, FS_Subset, Zenon
<1>4. Names \subseteq Nat
  BY <1>1, SMT
<1> QED BY <1>3, <1>4, Zenon

(* addBridgeNameLayerInfo never finds an entry: it adds one for every bridge. *)
LEMMA NameLayer ==
    ASSUME NEW info, LowerOK(info), BridgesOK
    PROVE  addBridgeNameLayerInfo(info) = Base(info)
<1>1. \A e \in info : e.name \notin Bridges
  BY InterfaceNames, Zenon DEF LowerOK
<1>2. \A b \in DOMAIN bridges : Find(info, b) = {}
  BY <1>1, Zenon DEF Find, BridgesOK
<1>3. \A e \in info : e.name \notin DOMAIN bridges
  BY <1>1, Zenon DEF BridgesOK
<1>4. {IF e.name \in DOMAIN bridges /\ e \in Find(info, e.name)
       THEN [e EXCEPT !.lower = Port(1)] ELSE e : e \in info} = info
  BY <1>3, Zenon
<1>5. {c \in DOMAIN bridges : Find(info, c) = {}} = DOMAIN bridges
  BY <1>2, Zenon
<1> QED BY <1>4, <1>5, Zenon DEF addBridgeNameLayerInfo, Base

(* What the entries of Base look like, and which of them have one name. *)
LEMMA BaseEntries ==
    ASSUME NEW info, LowerOK(info), BridgesOK
    PROVE  /\ IsFiniteSet(Base(info))
           /\ \A e \in Base(info) : /\ e = Entry(e.name, "own", NoLayer, e.lower)
                                    /\ e.name \in Names
                                    /\ e.lower.n \in Nat
                                    /\ e.lower.profile \in {"Ethernet", "MoCA", "Bridge"}
                                    /\ e.lower.profile = "Bridge" => e.lower = Port(1)
           /\ \A d, e \in Base(info) :
                 d.name = e.name /\ (d.lower.profile = "MoCA" <=> e.lower.profile = "MoCA") => d = e
           /\ \A n \in Names \ Bridges : Find(Base(info), n) = Find(info, n)
<1> DEFINE own(b) == Entry(b, "own", NoLayer, Port(1))
           Own    == {own(b) : b \in DOMAIN bridges}
<1>1. /\ \A e \in info : e = Entry(e.name, "own", NoLayer, e.lower) /\ e.lower.n \in Nat
      /\ \A e \in info : \/ e.name \in Eths /\ e.lower.profile = "Ethernet"
                         \/ e.name \in MoCAs /\ e.lower.profile = "MoCA"
      /\ \A d, e \in info : d.name = e.name /\ d.lower.profile = e.lower.profile => d = e
  BY Zenon DEF LowerOK
<1>2. \A b \in DOMAIN bridges : own(b).name = b /\ own(b).lower = Port(1) /\ b \in Bridges
  <2> TAKE b \in DOMAIN bridges
  <2>1. b \in Bridges
    BY Zenon DEF BridgesOK
  <2>2. own(b).name = b /\ own(b).lower = Port(1)
    BY Zenon DEF Entry
  <2> QED BY <2>1, <2>2, Zenon
<1>3. Port(1).n \in Nat /\ Port(1).profile = "Bridge"
  <2>1. Port(1).n = 1 /\ Port(1).profile = "Bridge"
    BY LayersDiffer, Zenon
  <2> QED BY <2>1, SMT
<1>4. IsFiniteSet(Own)
  <2> DEFINE f == [b \in DOMAIN bridges |-> own(b)]
  <2>1. IsFiniteSet(DOMAIN bridges)
    BY NamesFinite, FS_Subset, Zenon DEF BridgesOK, Names
  <2>2. IsFiniteSet({f[b] : b \in DOMAIN bridges})
    BY <2>1, ImageFinite, Zenon
  <2>3. {f[b] : b \in DOMAIN bridges} = Own
    BY Zenon
  <2> QED BY <2>2, <2>3, Zenon
<1>5. Base(info) = info \cup Own
  BY Zenon DEF Base
<1>6. \A e \in Own : /\ e = Entry(e.name, "own", NoLayer, e.lower)
                     /\ e.lower = Port(1) /\ e.name \in Bridges
                     /\ e = own(e.name)
  BY <1>2, Zenon
<1> HIDE DEF Own, own
<1>7. IsFiniteSet(Base(info))
  <2>1. IsFiniteSet(info)
    BY Zenon DEF LowerOK
  <2>2. IsFiniteSet(info \cup Own)
    BY <1>4, <2>1, FS_Union, Zenon
  <2> QED BY <1>5, <2>2, Zenon
<1>8. \A e \in info : e.name \in Names \ Bridges
  BY <1>1, InterfaceNames, Zenon DEF Names
<1>9. \A e \in Own : e.name \in Names
  BY <1>6, Zenon DEF Names
<1>10. \A e \in Base(info) : /\ e = Entry(e.name, "own", NoLayer, e.lower)
                             /\ e.name \in Names
                             /\ e.lower.n \in Nat
                             /\ e.lower.profile \in {"Ethernet", "MoCA", "Bridge"}
                             /\ e.lower.profile = "Bridge" => e.lower = Port(1)
  <2>1. "Ethernet" # "Bridge" /\ "MoCA" # "Bridge"
    OBVIOUS
  <2>2. \A e \in info : /\ e.lower.profile \in {"Ethernet", "MoCA", "Bridge"}
                        /\ e.lower.profile # "Bridge"
    BY <1>1, <2>1, Zenon
  <2>3. \A e \in Own : e.lower.profile \in {"Ethernet", "MoCA", "Bridge"} /\ e.lower.n \in Nat
    BY <1>3, <1>6, Zenon
  <2> QED BY <1>1, <1>5, <1>6, <1>8, <1>9, <2>2, <2>3, Zenon
<1>11. ASSUME NEW d \in Base(info), NEW e \in Base(info), d.name = e.name,
              d.lower.profile = "MoCA" <=> e.lower.profile = "MoCA"
       PROVE  d = e
  <2>1. CASE d \in info /\ e \in info
    BY <1>1, <1>11, <2>1, Zenon
  <2>2. CASE d \in Own /\ e \in Own
    BY <1>6, <1>11, <2>2, Zenon
  <2> QED BY <1>5, <1>6, <1>8, <1>11, <2>1, <2>2, Zenon
<1>12. \A n \in Names \ Bridges : Find(Base(info), n) = Find(info, n)
  <2> TAKE n \in Names \ Bridges
  <2>1. {e \in Base(info) : e.name = n /\ e.key = "own"} = {e \in info : e.name = n /\ e.key = "own"}
    BY <1>5, <1>6, Zenon
  <2> QED BY <2>1, Zenon DEF Find
<1> QED BY <1>7, <1>10, <1>11, <1>12, Zenon

(* The entries in the end: those of Base with what lies above them, and    *)
(* the links from the ports of the members to the bridges.                 *)
Final(info, ip) == fillHigherLayersWithIP(buildBridgeTableLayerInfo(info), ip)

(* One pass of buildBridgeTableLayerInfo and of fillHigherLayersWithIP     *)
(* makes exactly these entries.                                            *)
LEMMA FinalEntries ==
    ASSUME NEW info, LowerOK(info), BridgesOK, NEW ip
    PROVE  Final(info, ip) = {Full(Base(info), ip, e) : e \in Base(info)} \cup Links(Base(info))
<1> DEFINE base      == Base(info)
           Child(e)  == IF Raised(base, e) THEN [e EXCEPT !.higher = PortOf(e.name)] ELSE e
           Filled(f) == IF f.higher = NoLayer /\ f.name \in DOMAIN ip
                        THEN [f EXCEPT !.higher = Layer("IP", ip[f.name])] ELSE f
<1>1. addBridgeChildLayerInfo(base) = {Child(e) : e \in base}
  BY Zenon DEF addBridgeChildLayerInfo, Raised, PortOf
<1>2. UNION {addBridgeUnmanagedLayerInfo(base, b) : b \in DOMAIN bridges} = Links(base)
  BY Zenon DEF addBridgeUnmanagedLayerInfo, Links, Link
<1>3. buildBridgeTableLayerInfo(info) = {Child(e) : e \in base} \cup Links(base)
  <2>1. addBridgeNameLayerInfo(info) = base
    BY NameLayer, Zenon
  <2> HIDE DEF base, Child
  <2>2. buildBridgeTableLayerInfo(info) =
            addBridgeChildLayerInfo(base)
            \cup UNION {addBridgeUnmanagedLayerInfo(base, b) : b \in DOMAIN bridges}
    BY <2>1, Zenon DEF buildBridgeTableLayerInfo
  <2> QED BY <1>1, <1>2, <2>2, Zenon
<1>4. Final(info, ip) = {Filled(f) : f \in {Child(e) : e \in base} \cup Links(base)}
  BY <1>3, Zenon DEF Final, fillHigherLayersWithIP
<1>5. \A n : PortOf(n) # NoLayer
  BY LayersDiffer, Zenon DEF PortOf, MemberPort
<1>6. ASSUME NEW e \in base
      PROVE  Filled(Child(e)) = Full(base, ip, e)
  <2>1. e = Entry(e.name, "own", NoLayer, e.lower)
    BY BaseEntries, Zenon
  <2>2. CASE Raised(base, e)
    <3>1. Child(e) = Entry(e.name, "own", PortOf(e.name), e.lower)
      BY <2>1, <2>2, EntryRaised, SMT
    <3> HIDE DEF Child
    <3>2. Child(e).higher # NoLayer
      <4>1. Entry(e.name, "own", PortOf(e.name), e.lower).higher = PortOf(e.name)
        BY Zenon DEF Entry
      <4> QED BY <1>5, <3>1, <4>1, Zenon
    <3>3. Filled(Child(e)) = Child(e)
      BY <3>2, Zenon
    <3> QED BY <2>2, <3>1, <3>3, Zenon DEF Full, Above
  <2>3. CASE ~Raised(base, e)
    <3>1. Child(e) = e /\ e.higher = NoLayer
      <4>1. Child(e) = e
        BY <2>3, Zenon
      <4>2. Entry(e.name, "own", NoLayer, e.lower).higher = NoLayer
        BY Zenon DEF Entry
      <4> QED BY <2>1, <4>1, <4>2, Zenon
    <3>2. CASE e.name \in DOMAIN ip
      <4>1. Filled(e) = [e EXCEPT !.higher = Layer("IP", ip[e.name])]
        BY <3>1, <3>2, Zenon
      <4>2. [e EXCEPT !.higher = Layer("IP", ip[e.name])] =
                Entry(e.name, "own", Layer("IP", ip[e.name]), e.lower)
        BY <2>1, EntryRaised, SMT
      <4> QED BY <2>3, <3>1, <3>2, <4>1, <4>2, Zenon DEF Full, Above
    <3>3. CASE e.name \notin DOMAIN ip
      <4>1. Filled(e) = e
        BY <3>3, Zenon
      <4> QED BY <2>1, <2>3, <3>1, <3>3, <4>1, Zenon DEF Full, Above
    <3> QED BY <3>2, <3>3, Zenon
  <2> QED BY <2>2, <2>3, Zenon
<1>7. ASSUME NEW f \in Links(base)
      PROVE  Filled(f) = f
  <2>1. \A m, b : Link(m, b).higher = Port(1)
    BY Zenon DEF Link, Entry
  <2>2. f.higher = Port(1)
    BY <1>7, <2>1, Zenon DEF Links
  <2> QED BY <2>2, LayersDiffer, Zenon
<1> HIDE DEF base, Child, Filled
<1>8. \A x : x \in Final(info, ip) <=>
              x \in {Full(base, ip, e) : e \in base} \cup Links(base)
  <2>1. ASSUME NEW x \in Final(info, ip)
        PROVE  x \in {Full(base, ip, e) : e \in base} \cup Links(base)
    <3>1. PICK f \in {Child(e) : e \in base} \cup Links(base) : x = Filled(f)
      BY <1>4, <2>1, Zenon
    <3>2. CASE f \in Links(base)
      BY <1>7, <3>1, <3>2, Zenon
    <3>3. CASE f \in {Child(e) : e \in base}
      <4>1. PICK e \in base : f = Child(e)
        BY <3>3, Zenon
      <4> QED BY <1>6, <3>1, <4>1, Zenon
    <3> QED BY <3>1, <3>2, <3>3, Zenon
  <2>2. ASSUME NEW x \in {Full(base, ip, e) : e \in base}
        PROVE  x \in Final(info, ip)
    <3>1. PICK e \in base : x = Full(base, ip, e)
      BY <2>2, Zenon
    <3>2. x = Filled(Child(e))
      BY <1>6, <3>1, Zenon
    <3> QED BY <1>4, <3>2, Zenon
  <2>3. ASSUME NEW x \in Links(base)
        PROVE  x \in Final(info, ip)
    <3>1. x = Filled(x)
      BY <1>7, Zenon
    <3> QED BY <1>4, <3>1, Zenon
  <2> QED BY <2>1, <2>2, <2>3, Zenon
<1> QED BY <1>8, Zenon DEF base

(* The fields of an entry of an interface and of a link. *)
LEMMA FullFields ==
    /\ \A base, ip, e : /\ Full(base, ip, e).name = e.name /\ Full(base, ip, e).key = "own"
                        /\ Full(base, ip, e).higher = Above(base, ip, e)
                        /\ Full(base, ip, e).lower = e.lower
    /\ \A m, b : /\ Link(m, b).name = b /\ Link(m, b).key = "child"
                 /\ Link(m, b).higher = Port(1) /\ Link(m, b).lower = MemberPort(m, b)
BY Zenon DEF Full, Link, Entry

(* The place of a member among the members of its bridge. *)
LEMMA MemberPlace ==
    ASSUME BridgesOK, NEW b \in DOMAIN bridges, NEW m \in bridges[b]
    PROVE  /\ Place(m, bridges[b]) \in Nat \ {0}
           /\ MemberPort(m, b).n = 1 + Place(m, bridges[b])
           /\ MemberPort(m, b).profile = "Bridge"
<1> DEFINE S == {n \in bridges[b] : n <= m}
<1>1. IsFiniteSet(S) /\ m \in Nat
  <2>1. S \in SUBSET Names /\ m \in Names
    BY Zenon DEF BridgesOK
  <2> QED BY <2>1, NamesFinite, FS_Subset, Zenon
<1>2. m \in S
  BY <1>1, SMT
<1>3. Cardinality(S) \in Nat \ {0}
  <2>1. Cardinality(S) \in Nat
    BY <1>1, FS_CardinalityType, Zenon
  <2>2. Cardinality(S) # 0
    BY <1>1, <1>2, FS_EmptySet, Zenon
  <2> QED BY <2>1, <2>2, SMT
<1>4. Place(m, bridges[b]) = Cardinality(S)
  BY Zenon DEF Place
<1>5. MemberPort(m, b).n = 1 + Place(m, bridges[b]) /\ MemberPort(m, b).profile = "Bridge"
  BY LayersDiffer, Zenon DEF MemberPort
<1> QED BY <1>3, <1>4, <1>5, Zenon

(* A rebuild makes finitely many rows. *)
LEMMA FinalFinite ==
    ASSUME NEW info, LowerOK(info), BridgesOK, NEW ip
    PROVE  IsFiniteSet(Final(info, ip))
<1> DEFINE base  == Base(info)
           f     == [e \in base |-> Full(base, ip, e)]
           of(b) == {n \in bridges[b] : Find(base, n) # {}}
           l(b)  == [m \in of(b) |-> Link(m, b)]
           L     == [b \in DOMAIN bridges |-> {l(b)[m] : m \in of(b)}]
<1>1. IsFiniteSet({f[e] : e \in base})
  <2>1. IsFiniteSet(base) /\ DOMAIN f = base
    BY BaseEntries, Zenon
  <2> HIDE DEF f, base
  <2> QED BY <2>1, ImageFinite, Zenon
<1>2. IsFiniteSet({L[b] : b \in DOMAIN bridges})
  <2>1. IsFiniteSet(DOMAIN bridges) /\ DOMAIN L = DOMAIN bridges
    <3>1. DOMAIN bridges \subseteq Names
      BY Zenon DEF BridgesOK, Names
    <3> QED BY <3>1, NamesFinite, FS_Subset, Zenon
  <2> HIDE DEF L
  <2> QED BY <2>1, ImageFinite, Zenon
<1>3. ASSUME NEW b \in DOMAIN bridges PROVE IsFiniteSet(L[b])
  <2>1. IsFiniteSet(of(b))
    <3>1. of(b) \subseteq Names
      BY Zenon DEF BridgesOK
    <3> QED BY <3>1, NamesFinite, FS_Subset, Zenon
  <2>2. DOMAIN l(b) = of(b)
    BY Zenon
  <2>3. L[b] = {l(b)[m] : m \in of(b)}
    BY Zenon
  <2> HIDE DEF of, l, L
  <2>4. IsFiniteSet({l(b)[m] : m \in of(b)})
    BY <2>1, <2>2, ImageFinite, Zenon
  <2> QED BY <2>3, <2>4, Zenon
<1>4. IsFiniteSet(UNION {L[b] : b \in DOMAIN bridges})
  <2> HIDE DEF L
  <2> QED BY <1>2, <1>3, FS_UNION, Zenon
<1>5. {f[e] : e \in base} = {Full(base, ip, e) : e \in base}
  BY Zenon
<1>6. UNION {L[b] : b \in DOMAIN bridges} = Links(base)
  <2>1. \A b \in DOMAIN bridges : L[b] = {Link(m, b) : m \in of(b)}
    BY Zenon
  <2>2. {L[b] : b \in DOMAIN bridges} = {{Link(m, b) : m \in of(b)} : b \in DOMAIN bridges}
    <3> HIDE DEF L, of
    <3> QED BY <2>1, ZenonT(30)
  <2> HIDE DEF L
  <2> QED BY <2>2, Zenon DEF Links
<1> HIDE DEF f, L
<1>7. IsFiniteSet({Full(base, ip, e) : e \in base} \cup Links(base))
  BY <1>1, <1>4, <1>5, <1>6, FS_Union, Zenon
<1> QED BY <1>7, FinalEntries, Zenon

(* The order of the entries in the end is determined. *)
LEMMA FinalSortable ==
    ASSUME NEW info, LowerOK(info), BridgesOK, NEW ip
    PROVE  Sortable(Final(info, ip))
<1> DEFINE base == Base(info)
           F    == {Full(base, ip, e) : e \in base}
<1>1. Final(info, ip) = F \cup Links(base)
  BY FinalEntries, Zenon
<1>2. \A e \in base : /\ e.name \in Names /\ e.lower.n \in Nat
  BY BaseEntries, Zenon
<1>3. \A d, e \in base :
         d.name = e.name /\ (d.lower.profile = "MoCA" <=> e.lower.profile = "MoCA") => d = e
  BY BaseEntries, Zenon
<1>4. \A f \in Links(base) : \E b \in DOMAIN bridges : \E m \in bridges[b] : f = Link(m, b)
  BY Zenon DEF Links
<1>5. \A f \in F : \E e \in base : f = Full(base, ip, e)
  BY Zenon
<1> HIDE DEF base, F
<1>6. ASSUME NEW f \in F
      PROVE  f.name \in Nat /\ f.key = "own" /\ f.lower.n \in Nat
  <2>1. PICK e \in base : f = Full(base, ip, e)
    BY <1>5, <1>6, Zenon
  <2>2. f.name = e.name /\ f.key = "own" /\ f.lower = e.lower
    BY <2>1, FullFields, SMT
  <2> QED BY <1>2, <2>2, NamesFinite, Zenon
<1>7. ASSUME NEW f \in Links(base)
      PROVE  f.name \in Nat /\ f.key = "child" /\ f.lower.n \in Nat /\ f.lower.profile = "Bridge"
  <2>1. PICK b \in DOMAIN bridges : \E m \in bridges[b] : f = Link(m, b)
    BY <1>4, <1>7, Zenon
  <2>2. PICK m \in bridges[b] : f = Link(m, b)
    BY <2>1, Zenon
  <2>3. f.name = b /\ f.key = "child" /\ f.lower = MemberPort(m, b)
    BY <2>2, FullFields, Zenon
  <2>4. b \in Nat
    BY NamesFinite, Zenon DEF BridgesOK, Names
  <2>5. /\ Place(m, bridges[b]) \in Nat \ {0}
        /\ MemberPort(m, b).n = 1 + Place(m, bridges[b])
        /\ MemberPort(m, b).profile = "Bridge"
    BY MemberPlace, Zenon
  <2>6. MemberPort(m, b).n \in Nat
    BY <2>5, SMT
  <2> QED BY <2>3, <2>4, <2>5, <2>6, Zenon
<1>8. ASSUME NEW d \in F, NEW e \in F, d # e, d.name = e.name
      PROVE  ~(d.lower.profile = "MoCA" <=> e.lower.profile = "MoCA")
  <2>1. PICK x \in base : d = Full(base, ip, x)
    BY <1>5, <1>8, Zenon
  <2>2. PICK y \in base : e = Full(base, ip, y)
    BY <1>5, <1>8, Zenon
  <2>3. x # y /\ d.name = x.name /\ e.name = y.name /\ d.lower = x.lower /\ e.lower = y.lower
    BY <1>8, <2>1, <2>2, FullFields, SMT
  <2> QED BY <1>3, <1>8, <2>3, Zenon
<1>9. ASSUME NEW d \in Links(base), NEW e \in Links(base), d.name = e.name, d.lower.n = e.lower.n
      PROVE  d = e
  <2>1. PICK b \in DOMAIN bridges : \E m \in bridges[b] : d = Link(m, b)
    BY <1>4, <1>9, Zenon
  <2>2. PICK m \in bridges[b] : d = Link(m, b)
    BY <2>1, Zenon
  <2>3. PICK c \in DOMAIN bridges : \E n \in bridges[c] : e = Link(n, c)
    BY <1>4, <1>9, Zenon
  <2>4. PICK n \in bridges[c] : e = Link(n, c)
    BY <2>3, Zenon
  <2>5. b = c /\ MemberPort(m, b).n = MemberPort(n, c).n
    BY <1>9, <2>2, <2>4, FullFields, SMT
  <2>6. MemberPort(m, b) = MemberPort(n, c)
    <3>1. \A k : Port(k).n = k
      BY LayersDiffer, Zenon
    <3> QED BY <2>5, <3>1, SMT DEF MemberPort
  <2> QED BY <2>2, <2>4, <2>5, <2>6, Zenon DEF Link
<1>10. "MoCA" # "Bridge" /\ "own" # "child"
  OBVIOUS
<1>11. IsFiniteSet(Final(info, ip))
  BY FinalFinite, Zenon
<1>12. ASSUME NEW e \in Final(info, ip)
       PROVE  /\ e.name \in Nat /\ e.key \in {"own", "child"} /\ e.lower.n \in Nat
              /\ e.key = "child" => e.lower.profile # "MoCA"
  BY <1>1, <1>6, <1>7, <1>10, <1>12, Zenon
<1>13. ASSUME NEW d \in Final(info, ip), NEW e \in Final(info, ip),
              d # e, d.name = e.name, d.key = e.key
       PROVE  IF d.key = "child" THEN d.lower.n # e.lower.n
              ELSE ~(d.lower.profile = "MoCA" <=> e.lower.profile = "MoCA")
  <2>1. CASE d.key = "child"
    BY <1>1, <1>6, <1>9, <1>10, <1>13, <2>1, Zenon
  <2>2. CASE d.key # "child"
    <3>1. d \in F /\ e \in F
      BY <1>1, <1>7, <1>13, <2>2, Zenon
    <3> QED BY <1>8, <1>13, <2>2, <3>1, Zenon
  <2> QED BY <2>1, <2>2, Zenon
<1> QED BY <1>11, <1>12, <1>13, Zenon DEF Sortable

-----------------------------------------------------------------------------
(* The rows a rebuild makes, as a set: one for every entry of Base and one *)
(* for every member that has an entry.                                     *)
Row(higher, lower) == [higher |-> higher, lower |-> lower]
Made(info, ip) == {Rows(Final(info, ip))[k] : k \in DOMAIN Rows(Final(info, ip))}
OwnRow(info, ip, e) == Row(Above(Base(info), ip, e), e.lower)
LinkRow(m, b)       == Row(Port(1), MemberPort(m, b))
Linkable(info, b)   == {n \in bridges[b] : Find(Base(info), n) # {}}

(* The layers of a row. *)
LEMMA RowFields == \A h, l : Row(h, l).higher = h /\ Row(h, l).lower = l
BY Zenon DEF Row

(* The rows that createInstance makes are those of the entries, none left  *)
(* out: each entry has a number of its own in the order of the multimap.   *)
LEMMA RowsMade ==
    ASSUME NEW info, LowerOK(info), BridgesOK, NEW ip
    PROVE  /\ \A e \in Base(info) : OwnRow(info, ip, e) \in Made(info, ip)
           /\ \A b \in DOMAIN bridges : \A m \in Linkable(info, b) : LinkRow(m, b) \in Made(info, ip)
           /\ \A r \in Made(info, ip) :
                 \/ \E e \in Base(info) : r = OwnRow(info, ip, e)
                 \/ \E b \in DOMAIN bridges : \E m \in Linkable(info, b) : r = LinkRow(m, b)
<1> DEFINE base == Base(info)
           F    == Final(info, ip)
<1>1. Made(info, ip) = {RowOf(f) : f \in F}
  BY FinalSortable, RowsAreEntries, Zenon DEF Made
<1>2. F = {Full(base, ip, e) : e \in base} \cup Links(base)
  BY FinalEntries, Zenon
<1>3. \A e : RowOf(Full(base, ip, e)) = OwnRow(info, ip, e)
  BY Zenon DEF RowOf, Full, Entry, OwnRow, Row
<1>4. \A m, b : RowOf(Link(m, b)) = LinkRow(m, b)
  BY Zenon DEF RowOf, Link, Entry, LinkRow, Row
<1>5. \A f : f \in Links(base) <=> \E b \in DOMAIN bridges : \E m \in Linkable(info, b) : f = Link(m, b)
  <2> DEFINE Of(b) == {Link(m, b) : m \in Linkable(info, b)}
  <2>1. Links(base) = UNION {Of(b) : b \in DOMAIN bridges}
    BY Zenon DEF Links, Linkable
  <2>2. \A f, b : f \in Of(b) <=> \E m \in Linkable(info, b) : f = Link(m, b)
    BY Zenon
  <2> HIDE DEF Of
  <2>3. \A f : f \in Links(base) <=> \E b \in DOMAIN bridges : f \in Of(b)
    BY <2>1, Zenon
  <2> QED BY <2>2, <2>3, Zenon
<1> HIDE DEF base, F
<1>6. \A e \in base : Full(base, ip, e) \in F
  BY <1>2, Zenon
<1>7. \A b \in DOMAIN bridges : \A m \in Linkable(info, b) : Link(m, b) \in F
  BY <1>2, <1>5, Zenon
<1>8. \A e \in base : OwnRow(info, ip, e) \in Made(info, ip)
  <2> TAKE e \in base
  <2>1. RowOf(Full(base, ip, e)) \in Made(info, ip)
    BY <1>1, <1>6, Zenon
  <2> QED BY <1>3, <2>1, SMT
<1>9. \A b \in DOMAIN bridges : \A m \in Linkable(info, b) : LinkRow(m, b) \in Made(info, ip)
  <2> TAKE b \in DOMAIN bridges
  <2> TAKE m \in Linkable(info, b)
  <2>1. RowOf(Link(m, b)) \in Made(info, ip)
    BY <1>1, <1>7, Zenon
  <2> QED BY <1>4, <2>1, SMT
<1>10. ASSUME NEW r \in Made(info, ip)
       PROVE  \/ \E e \in base : r = OwnRow(info, ip, e)
              \/ \E b \in DOMAIN bridges : \E m \in Linkable(info, b) : r = LinkRow(m, b)
  <2>1. PICK f \in F : r = RowOf(f)
    BY <1>1, <1>10, Zenon
  <2>2. CASE f \in Links(base)
    <3>1. PICK b \in DOMAIN bridges : \E m \in Linkable(info, b) : f = Link(m, b)
      BY <1>5, <2>2, Zenon
    <3>2. PICK m \in Linkable(info, b) : f = Link(m, b)
      BY <3>1, Zenon
    <3>3. r = LinkRow(m, b)
      BY <1>4, <2>1, <3>2, SMT
    <3> QED BY <3>3, Zenon
  <2>3. CASE f \notin Links(base)
    <3>1. PICK e \in base : f = Full(base, ip, e)
      BY <1>2, <2>3, Zenon
    <3>2. r = OwnRow(info, ip, e)
      BY <1>3, <2>1, <3>1, SMT
    <3> QED BY <3>2, Zenon
  <2> QED BY <2>2, <2>3, Zenon
<1> QED BY <1>8, <1>9, <1>10, Zenon DEF base

(* A member with an entry has a bridge, and a row leads on from its port. *)
LEMMA MemberLinked ==
    ASSUME NEW info, LowerOK(info), BridgesOK, NEW ip,
           NEW e \in Base(info), Raised(Base(info), e)
    PROVE  \E b \in DOMAIN bridges : /\ e.name \in Linkable(info, b)
                                    /\ PortOf(e.name) = MemberPort(e.name, b)
                                    /\ LinkRow(e.name, b) \in Made(info, ip)
<1> DEFINE b == CHOOSE c \in BridgesOf(e.name) : TRUE
<1>1. b \in BridgesOf(e.name)
  BY Zenon DEF Raised
<1>2. PortOf(e.name) = MemberPort(e.name, b)
  BY Zenon DEF PortOf
<1> HIDE DEF b
<1>3. b \in DOMAIN bridges /\ e.name \in bridges[b]
  BY <1>1, Zenon DEF BridgesOf
<1>4. e.name \in Linkable(info, b)
  BY <1>3, Zenon DEF Linkable, Raised
<1>5. LinkRow(e.name, b) \in Made(info, ip)
  BY <1>3, <1>4, RowsMade, Zenon
<1> QED BY <1>2, <1>3, <1>4, <1>5, Zenon

(* No row of a rebuild ends at a bridge port or has no lower layer. *)
Linked(R) == \A r \in R : /\ r.lower # NoLayer
                          /\ r.higher.profile = "Bridge" => Over(R, {r.higher}) # {}

(* Whatever was read, the rows of one rebuild are linked. *)
LEMMA MadeLinked ==
    ASSUME NEW info, LowerOK(info), BridgesOK, NEW ip
    PROVE  Linked(Made(info, ip))
<1> DEFINE R == Made(info, ip)
<1> SUFFICES ASSUME NEW r \in R
             PROVE  /\ r.lower # NoLayer
                    /\ r.higher.profile = "Bridge" => Over(R, {r.higher}) # {}
  BY Zenon DEF Linked
<1>1. ASSUME NEW q \in R, q.lower = r.higher
      PROVE  Over(R, {r.higher}) # {}
  BY <1>1, Zenon DEF Over
<1>2. "Bridge" # "none" /\ "MoCA" # "none" /\ "Ethernet" # "none" /\ "IP" # "Bridge"
  OBVIOUS
<1>3. CASE \E e \in Base(info) : r = OwnRow(info, ip, e)
  <2>1. PICK e \in Base(info) : r = OwnRow(info, ip, e)
    BY <1>3, Zenon
  <2>2. r.higher = Above(Base(info), ip, e) /\ r.lower = e.lower
    BY <2>1, RowFields, SMT DEF OwnRow
  <2>3. r.lower # NoLayer
    <3>1. e.lower.profile \in {"Ethernet", "MoCA", "Bridge"} /\ NoLayer.profile = "none"
      BY BaseEntries, LayersDiffer, Zenon
    <3> QED BY <1>2, <2>2, <3>1, Zenon
  <2>4. CASE Raised(Base(info), e)
    <3>1. PICK b \in DOMAIN bridges : /\ PortOf(e.name) = MemberPort(e.name, b)
                                     /\ LinkRow(e.name, b) \in R
      BY <2>4, MemberLinked, Zenon
    <3>2. LinkRow(e.name, b).lower = MemberPort(e.name, b)
      BY RowFields, SMT DEF LinkRow
    <3>3. r.higher = PortOf(e.name)
      BY <2>2, <2>4, Zenon DEF Above
    <3> QED BY <1>1, <2>3, <3>1, <3>2, <3>3, Zenon
  <2>5. CASE ~Raised(Base(info), e)
    <3>1. r.higher \in {NoLayer, Layer("IP", ip[e.name])}
      BY <2>2, <2>5, Zenon DEF Above
    <3>2. NoLayer.profile = "none" /\ Layer("IP", ip[e.name]).profile = "IP"
      BY Zenon DEF NoLayer, Layer
    <3> QED BY <1>2, <2>3, <3>1, <3>2, Zenon
  <2> QED BY <2>4, <2>5, Zenon
<1>4. CASE \E b \in DOMAIN bridges : \E m \in Linkable(info, b) : r = LinkRow(m, b)
  <2>1. PICK b \in DOMAIN bridges : \E m \in Linkable(info, b) : r = LinkRow(m, b)
    BY <1>4, Zenon
  <2>2. PICK m \in Linkable(info, b) : r = LinkRow(m, b)
    BY <2>1, Zenon
  <2>3. r.higher = Port(1) /\ r.lower = MemberPort(m, b)
    BY <2>2, RowFields, SMT DEF LinkRow
  <2>4. r.lower # NoLayer
    BY <2>3, LayersDiffer, ZenonT(30) DEF MemberPort
  <2> DEFINE e == Entry(b, "own", NoLayer, Port(1))
  <2>5. e \in Base(info) /\ e.lower = Port(1)
    BY Zenon DEF Base, Entry
  <2> HIDE DEF e
  <2>6. OwnRow(info, ip, e) \in R
    BY <2>5, RowsMade, Zenon
  <2>7. OwnRow(info, ip, e).lower = r.higher
    BY <2>3, <2>5, RowFields, SMT DEF OwnRow
  <2> QED BY <1>1, <2>4, <2>6, <2>7, Zenon
<1>5. \/ \E e \in Base(info) : r = OwnRow(info, ip, e)
      \/ \E b \in DOMAIN bridges : \E m \in Linkable(info, b) : r = LinkRow(m, b)
  <2>1. \A q \in Made(info, ip) :
           \/ \E e \in Base(info) : q = OwnRow(info, ip, e)
           \/ \E b \in DOMAIN bridges : \E m \in Linkable(info, b) : q = LinkRow(m, b)
    BY RowsMade, SMT
  <2> QED BY <2>1, Zenon
<1> QED BY <1>3, <1>4, <1>5, Zenon

-----------------------------------------------------------------------------
(* The kernel: an interface that joins later has an index that none had,   *)
(* bridges have no master, and a master is there.                          *)
KernelOK ==
    /\ changes \in Nat
    /\ Present \subseteq Names
    /\ \A n \in Present : index[n] \in Nat
    /\ \A n \in Present : index[n] <= MaxName + changes
    /\ \A m, n \in Present : index[m] = index[n] => m = n
    /\ DOMAIN master = Names
    /\ \A n \in Names : master[n] = 0 \/ master[n] \in Present \cap Bridges
    /\ \A b \in Bridges : master[b] = 0

(* All that buildLowerLayerInfo can find. *)
AllLower(moca) == LowerLayerInfo(EthernetInterfaces, moca)

(* The threads, and what the one that rebuilds the table alone has seen.   *)
ThreadsOK ==
    /\ DOMAIN th = Threads
    /\ \A t \in Threads : /\ DOMAIN th[t] = {"pc", "ip", "lower"}
                          /\ th[t].pc = "create" => LowerOK(th[t].lower)
    /\ alone => \A t \in Threads : th[t].pc # "idle" => table = <<>> /\ OthersIdle(t)
SeenOK ==
    (still /\ alone) => \A t \in Threads :
        /\ th[t].pc # "idle" => bridges = BridgeTable
        /\ th[t].pc \in {"lower", "create"} => th[t].ip = IPInterfaces
        /\ th[t].pc = "create" => \E moca \in SUBSET MoCAs : th[t].lower = AllLower(moca)

StackInv == KernelOK /\ BridgesOK /\ ThreadsOK /\ SeenOK

-----------------------------------------------------------------------------
(* There are finitely many interfaces. *)
LEMMA PresentFinite ==
    ASSUME KernelOK, NEW S, S \subseteq Present
    PROVE  IsFiniteSet(S)
<1>1. S \subseteq Names
  BY Zenon DEF KernelOK
<1> QED BY <1>1, NamesFinite, FS_Subset, Zenon

(* if_nameindex lists no two interfaces at one place. *)
LEMMA IfPlaces ==
    ASSUME KernelOK, NEW S, S \subseteq Present
    PROVE  /\ \A n \in S : IfPlace(n, S) \in Nat
           /\ \A m, n \in S : IfPlace(m, S) = IfPlace(n, S) => m = n
<1> DEFINE Upto(n) == {m \in S : index[m] <= index[n]}
<1>1. \A n : IfPlace(n, S) = Cardinality(Upto(n))
  BY Zenon DEF IfPlace
<1>2. \A n : IsFiniteSet(Upto(n)) /\ Cardinality(Upto(n)) \in Nat
  <2> TAKE n
  <2>1. Upto(n) \subseteq Present
    BY Zenon
  <2> HIDE DEF Upto
  <2>2. IsFiniteSet(Upto(n))
    BY <2>1, PresentFinite, Zenon
  <2> QED BY <2>2, FS_CardinalityType, Zenon
<1>3. \A m, n \in S : index[m] \in Nat /\ index[n] \in Nat /\ (index[m] = index[n] => m = n)
  BY Zenon DEF KernelOK
<1>4. ASSUME NEW m \in S, NEW n \in S, index[m] < index[n]
      PROVE  Cardinality(Upto(m)) # Cardinality(Upto(n))
  <2>1. Upto(m) \subseteq Upto(n) /\ n \in Upto(n) /\ n \notin Upto(m)
    BY <1>3, <1>4, SMT
  <2> HIDE DEF Upto
  <2>2. Upto(m) # Upto(n) /\ Upto(m) \in SUBSET Upto(n)
    BY <2>1, Zenon
  <2> QED BY <1>2, <2>2, FS_Subset, Zenon
<1>5. \A m, n \in S : m # n => index[m] < index[n] \/ index[n] < index[m]
  BY <1>3, SMT
<1> HIDE DEF Upto
<1>6. \A m, n \in S : IfPlace(m, S) = IfPlace(n, S) => m = n
  BY <1>1, <1>4, <1>5, SMT
<1>7. \A n \in S : IfPlace(n, S) \in Nat
  BY <1>1, <1>2, SMT
<1> QED BY <1>6, <1>7, Zenon

(* buildLowerLayerInfo makes entries of the expected form. *)
EthLayer(n) == Layer("Ethernet", IfPlace(n, EthernetInterfaces))
EthEntry(n) == Entry(n, "own", NoLayer, EthLayer(n))
MoCAEntry(n) == Entry(n, "own", NoLayer, Layer("MoCA", 1))

(* What getLowerInterfaceNumberOfEntries and the MoCA driver give is one   *)
(* entry per interface and profile.                                        *)
LEMMA LowerEntries ==
    ASSUME KernelOK, NEW moca \in SUBSET MoCAs
    PROVE  /\ LowerOK(AllLower(moca))
           /\ \A n \in EthernetInterfaces : EthEntry(n) \in AllLower(moca)
           /\ \A e \in AllLower(moca) :
                 \/ e.name \in EthernetInterfaces /\ e = EthEntry(e.name)
                 \/ e.lower.profile = "MoCA"
<1> DEFINE E == EthernetInterfaces
           A == {EthEntry(n) : n \in E}
           B == {MoCAEntry(n) : n \in moca}
           f == [n \in E |-> EthEntry(n)]
           g == [n \in moca |-> MoCAEntry(n)]
<1>1. AllLower(moca) = A \cup B
  BY Zenon DEF AllLower, LowerLayerInfo, EthEntry, EthLayer, MoCAEntry
<1>2. E \subseteq Present /\ E \subseteq Eths
  BY Zenon DEF EthernetInterfaces
<1>3. IsFiniteSet(A)
  <2>1. IsFiniteSet(E)
    BY <1>2, PresentFinite, Zenon
  <2>2. IsFiniteSet({f[n] : n \in E})
    BY <2>1, ImageFinite, Zenon
  <2>3. {f[n] : n \in E} = A
    BY Zenon
  <2> QED BY <2>2, <2>3, Zenon
<1>4. IsFiniteSet(B)
  <2>1. IsFiniteSet(moca)
    <3>1. moca \subseteq Names
      BY Zenon DEF Names
    <3> QED BY <3>1, NamesFinite, FS_Subset, Zenon
  <2>2. IsFiniteSet({g[n] : n \in moca})
    BY <2>1, ImageFinite, Zenon
  <2>3. {g[n] : n \in moca} = B
    BY Zenon
  <2> QED BY <2>2, <2>3, Zenon
<1>5. \A n : /\ EthEntry(n).name = n /\ EthEntry(n).lower = EthLayer(n)
             /\ MoCAEntry(n).name = n /\ MoCAEntry(n).lower = Layer("MoCA", 1)
  BY Zenon DEF EthEntry, MoCAEntry, Entry
<1>6. \A n : EthLayer(n).profile = "Ethernet" /\ EthLayer(n).n = IfPlace(n, E)
  BY Zenon DEF EthLayer, Layer
<1>7. Layer("MoCA", 1).profile = "MoCA" /\ Layer("MoCA", 1).n = 1 /\ 1 \in Nat
  <2>1. Layer("MoCA", 1).profile = "MoCA" /\ Layer("MoCA", 1).n = 1
    BY Zenon DEF Layer
  <2>2. 1 \in Nat
    BY SMT
  <2> QED BY <2>1, <2>2, Zenon
<1>8. \A n \in E : IfPlace(n, E) \in Nat
  BY <1>2, IfPlaces, Zenon
<1>9. ASSUME NEW e \in A
      PROVE  /\ e = Entry(e.name, "own", NoLayer, e.lower) /\ e.lower.n \in Nat
             /\ e.name \in E /\ e.lower.profile = "Ethernet" /\ e = EthEntry(e.name)
  <2>1. PICK n \in E : e = EthEntry(n)
    BY <1>9, Zenon
  <2>2. e.name = n /\ e.lower = EthLayer(n)
    BY <1>5, <2>1, SMT
  <2>3. e = EthEntry(e.name) /\ e.name \in E
    BY <2>1, <2>2, Zenon
  <2>4. e.lower.n \in Nat /\ e.lower.profile = "Ethernet"
    BY <1>6, <1>8, <2>2, SMT
  <2>5. e = Entry(e.name, "own", NoLayer, e.lower)
    BY <2>1, <2>2, Zenon DEF EthEntry
  <2> QED BY <2>3, <2>4, <2>5, Zenon
<1>10. ASSUME NEW e \in B
       PROVE  /\ e = Entry(e.name, "own", NoLayer, e.lower) /\ e.lower.n \in Nat
              /\ e.name \in MoCAs /\ e.lower.profile = "MoCA" /\ e = MoCAEntry(e.name)
  <2>1. PICK n \in moca : e = MoCAEntry(n)
    BY <1>10, Zenon
  <2>2. e.name = n /\ e.lower = Layer("MoCA", 1)
    BY <1>5, <2>1, SMT
  <2>3. e = MoCAEntry(e.name) /\ e.name \in MoCAs
    BY <2>1, <2>2, Zenon
  <2>4. e.lower.n \in Nat /\ e.lower.profile = "MoCA"
    BY <1>7, <2>2, Zenon
  <2>5. e = Entry(e.name, "own", NoLayer, e.lower)
    BY <2>1, <2>2, Zenon DEF MoCAEntry
  <2> QED BY <2>3, <2>4, <2>5, Zenon
<1>11. "MoCA" # "Ethernet"
  OBVIOUS
<1>12. IsFiniteSet(A \cup B)
  BY <1>3, <1>4, FS_Union, Zenon
<1>13. \A n \in E : EthEntry(n) \in A
  BY Zenon
<1> HIDE DEF A, B, E
<1>14. \A d, e \in A \cup B : d.name = e.name /\ d.lower.profile = e.lower.profile => d = e
  BY <1>9, <1>10, <1>11, Zenon
<1>15. LowerOK(AllLower(moca))
  <2>1. \A e \in A \cup B : /\ e = Entry(e.name, "own", NoLayer, e.lower)
                            /\ e.lower.n \in Nat
                            /\ \/ e.name \in Eths /\ e.lower.profile = "Ethernet"
                               \/ e.name \in MoCAs /\ e.lower.profile = "MoCA"
    BY <1>2, <1>9, <1>10, Zenon
  <2> QED BY <1>1, <1>12, <1>14, <2>1, Zenon DEF LowerOK
<1>16. \A e \in AllLower(moca) :
          \/ e.name \in E /\ e = EthEntry(e.name)
          \/ e.lower.profile = "MoCA"
  BY <1>1, <1>9, <1>10, Zenon
<1> QED BY <1>1, <1>13, <1>15, <1>16, Zenon DEF E

(* Interfaces whose name cannot be read only leave entries out. *)
LEMMA LowerPart ==
    ASSUME KernelOK, NEW moca \in SUBSET MoCAs, NEW eths \in SUBSET EthernetInterfaces
    PROVE  LowerOK(LowerLayerInfo(eths, moca))
<1>1. LowerLayerInfo(eths, moca) \subseteq AllLower(moca)
  BY Zenon DEF AllLower, LowerLayerInfo
<1>2. LowerOK(AllLower(moca))
  BY LowerEntries, Zenon
<1>3. IsFiniteSet(LowerLayerInfo(eths, moca))
  BY <1>1, <1>2, FS_Subset, Zenon DEF LowerOK
<1> QED BY <1>1, <1>2, <1>3, Zenon DEF LowerOK

(* populateBridgeTable reads a bridge table of the expected form. *)
LEMMA BridgeTableOK ==
    ASSUME KernelOK
    PROVE  /\ DOMAIN BridgeTable = Present \cap Bridges
           /\ \A b \in Present \cap Bridges :
                 /\ BridgeTable[b] = {n \in Present : master[n] = b}
                 /\ BridgeTable[b] \subseteq Names \ Bridges
<1>1. \A b \in Bridges : b # 0
  <2>1. Bridges \subseteq 1 .. MaxName /\ MaxName \in Nat
    BY InterfaceNames, Zenon DEF Names
  <2> QED BY <2>1, SMT
<1>2. /\ DOMAIN BridgeTable = Present \cap Bridges
      /\ \A b \in Present \cap Bridges : BridgeTable[b] = {n \in Present : master[n] = b}
  BY Zenon DEF BridgeTable
<1>3. \A n \in Bridges : master[n] = 0
  BY Zenon DEF KernelOK
<1>4. Present \subseteq Names
  BY Zenon DEF KernelOK
<1>5. \A b \in Bridges : {n \in Present : master[n] = b} \subseteq Names \ Bridges
  BY <1>1, <1>3, <1>4, SMT
<1> QED BY <1>2, <1>5, SMT

-----------------------------------------------------------------------------
(* Every step keeps the invariant.  First the kernel's. *)
LEMMA UnplugKernel ==
    ASSUME KernelOK, NEW n \in Names, Unplug(n), changes' = changes + 1
    PROVE  KernelOK'
<1>1. /\ DOMAIN index' = Present \ {n}
      /\ \A m \in Present \ {n} : index'[m] = index[m]
      /\ DOMAIN master' = Names
      /\ \A m \in Names : master'[m] = IF n \in {m, master[m]} THEN 0 ELSE master[m]
  BY Zenon DEF Unplug
<1>2. changes' \in Nat
  BY SMT DEF KernelOK
<1>3. \A m \in DOMAIN index' : /\ m \in Names
                               /\ index'[m] \in Nat
                               /\ index'[m] <= MaxName + changes'
  <2>1. MaxName \in Nat
    BY InterfaceNames, Zenon
  <2> QED BY <1>1, <2>1, SMT DEF KernelOK
<1>4. \A m, k \in DOMAIN index' : index'[m] = index'[k] => m = k
  BY <1>1, SMT DEF KernelOK
<1>5. \A m \in Names : master'[m] = 0 \/ master'[m] \in (DOMAIN index') \cap Bridges
  BY <1>1, SMT DEF KernelOK
<1>6. \A b \in Bridges : master'[b] = 0
  BY <1>1, SMT DEF KernelOK, Names
<1> QED BY <1>1, <1>2, <1>3, <1>4, <1>5, <1>6, SMT DEF KernelOK, Present

(* The same when an interface is added: its index is new. *)
LEMMA PlugKernel ==
    ASSUME KernelOK, NEW n \in Names, Plug(n), changes' = changes + 1
    PROVE  KernelOK'
<1>1. /\ DOMAIN index' = Present \cup {n} /\ n \notin Present
      /\ index'[n] = MaxName + changes + 1
      /\ \A m \in Present : index'[m] = index[m]
      /\ master' = master
  <2>1. /\ n \notin Present
        /\ index' = [m \in Present \cup {n} |-> IF m = n THEN MaxName + changes + 1 ELSE index[m]]
        /\ master' = master
    BY Zenon DEF Plug
  <2> QED BY <2>1, SMT
<1>2. changes \in Nat /\ MaxName \in Nat
  BY InterfaceNames, Zenon DEF KernelOK
<1>3. \A m \in Present : index[m] \in Nat /\ index[m] <= MaxName + changes
  BY Zenon DEF KernelOK
<1>4. \A m \in DOMAIN index' : /\ m \in Names
                               /\ index'[m] \in Nat
                               /\ index'[m] <= MaxName + changes'
  <2>1. Present \subseteq Names
    BY Zenon DEF KernelOK
  <2> QED BY <1>1, <1>2, <1>3, <2>1, SMT
<1>5. \A m, k \in DOMAIN index' : index'[m] = index'[k] => m = k
  <2>1. \A m, k \in Present : index[m] = index[k] => m = k
    BY Zenon DEF KernelOK
  <2> QED BY <1>1, <1>2, <1>3, <2>1, SMT
<1>6. /\ DOMAIN master' = Names
      /\ \A m \in Names : master'[m] = 0 \/ master'[m] \in (DOMAIN index') \cap Bridges
      /\ \A b \in Bridges : master'[b] = 0
  BY <1>1, Zenon DEF KernelOK
<1>7. changes' \in Nat
  BY <1>2, SMT
<1> QED BY <1>4, <1>5, <1>6, <1>7, SMT DEF KernelOK, Present

(* The same when an interface joins a bridge that is there. *)
LEMMA EnslaveKernel ==
    ASSUME KernelOK, NEW n \in Names, NEW b \in Bridges, Enslave(n, b), changes' = changes + 1
    PROVE  KernelOK'
<1>1. /\ index' = index /\ n \in Present \ Bridges /\ b \in Present \cap Bridges
      /\ master' = [master EXCEPT ![n] = b]
  BY Zenon DEF Enslave
<1>2. changes \in Nat /\ MaxName \in Nat
  BY InterfaceNames, Zenon DEF KernelOK
<1>3. /\ DOMAIN master' = Names
      /\ \A m \in Names : master'[m] = 0 \/ master'[m] \in (DOMAIN index') \cap Bridges
      /\ \A c \in Bridges : master'[c] = 0
  BY <1>1, SMT DEF KernelOK, Present, Names
<1>4. /\ DOMAIN index' \subseteq Names
      /\ \A m \in DOMAIN index' : index'[m] \in Nat
      /\ \A m, k \in DOMAIN index' : index'[m] = index'[k] => m = k
  BY <1>1, Zenon DEF KernelOK, Present
<1>5. \A m \in DOMAIN index' : index'[m] <= MaxName + changes'
  BY <1>1, <1>2, SMT DEF KernelOK, Present
<1>6. changes' \in Nat
  BY <1>2, SMT
<1> QED BY <1>3, <1>4, <1>5, <1>6, SMT DEF KernelOK, Present

(* The other parts of the invariant when an interface changes. *)
LEMMA ChangeStep ==
    ASSUME StackInv, Change
    PROVE  StackInv'
<1>1. /\ changes' = changes + 1 /\ ~still'
      /\ bridges' = bridges /\ table' = table /\ th' = th /\ alone' = alone
  BY Zenon DEF Change
<1>2. KernelOK'
  <2>1. PICK n \in Names : Unplug(n) \/ Plug(n) \/ \E b \in Bridges : Enslave(n, b)
    BY Zenon DEF Change
  <2> QED BY <1>1, <2>1, UnplugKernel, PlugKernel, EnslaveKernel, Zenon DEF StackInv
<1>3. BridgesOK'
  BY <1>1, Zenon DEF StackInv, BridgesOK
<1>4. ThreadsOK'
  BY <1>1, Zenon DEF StackInv, ThreadsOK, OthersIdle
<1>5. SeenOK'
  BY <1>1, Zenon DEF SeenOK
<1> QED BY <1>2, <1>3, <1>4, <1>5, Zenon DEF StackInv

(* A step of a thread that leaves the kernel alone. *)
LEMMA SameKernel ==
    ASSUME KernelOK, UNCHANGED kernel
    PROVE  /\ KernelOK'
           /\ BridgeTable' = BridgeTable /\ IPInterfaces' = IPInterfaces
           /\ \A moca : AllLower(moca)' = AllLower(moca)
<1>1. index' = index /\ changes' = changes /\ master' = master
  BY Zenon DEF kernel
<1>2. Present' = Present
  BY <1>1, Zenon DEF Present
<1>3. KernelOK'
  BY <1>1, <1>2, Zenon DEF KernelOK
<1>4. BridgeTable' = BridgeTable /\ IPInterfaces' = IPInterfaces
  BY <1>1, <1>2, Zenon DEF BridgeTable, IPInterfaces, Numbered, Place
<1>5. \A moca : AllLower(moca)' = AllLower(moca)
  <2>1. EthernetInterfaces' = EthernetInterfaces
    BY <1>2, Zenon DEF EthernetInterfaces
  <2>2. \A n, S : IfPlace(n, S)' = IfPlace(n, S)
    BY <1>1, Zenon DEF IfPlace
  <2> QED BY <2>1, <2>2, SMT DEF AllLower, LowerLayerInfo
<1> QED BY <1>3, <1>4, <1>5, Zenon

(* closeAllInstances and populateBridgeTable keep the invariant. *)
LEMMA CloseAllStep ==
    ASSUME StackInv, NEW t \in Threads, CloseAll(t)
    PROVE  StackInv'
<1>0. PICK read \in SUBSET (Present \cap Bridges) :
          /\ bridges' = [b \in read |-> BridgeTable[b]]
          /\ still'   = (read = Present \cap Bridges)
  BY Zenon DEF CloseAll
<1>1. /\ th' = [th EXCEPT ![t].pc = "ip"] /\ table' = <<>>
      /\ (alone' <=> OthersIdle(t)) /\ UNCHANGED kernel
  BY Zenon DEF CloseAll
<1>2. DOMAIN th = Threads /\ \A u \in Threads : DOMAIN th[u] = {"pc", "ip", "lower"}
  BY Zenon DEF StackInv, ThreadsOK
<1>3. /\ DOMAIN th' = Threads
      /\ \A u \in Threads \ {t} : th'[u] = th[u]
      /\ DOMAIN th'[t] = {"pc", "ip", "lower"} /\ th'[t].pc = "ip"
  BY <1>1, <1>2, SMT
<1>4. KernelOK' /\ BridgeTable' = BridgeTable
  BY <1>1, SameKernel, Zenon DEF StackInv
<1>5. BridgesOK'
  <2>1. /\ DOMAIN bridges' \subseteq Bridges
        /\ \A b \in DOMAIN bridges' : /\ bridges'[b] = {n \in Present : master[n] = b}
                                      /\ bridges'[b] \subseteq Names \ Bridges
    BY <1>0, BridgeTableOK, Zenon DEF StackInv
  <2> QED BY <2>1, SMT DEF BridgesOK
<1>6. "ip" # "create" /\ "ip" # "lower" /\ "idle" # "create" /\ "idle" # "lower"
  OBVIOUS
<1>7. alone' => \A u \in Threads \ {t} : th'[u].pc = "idle"
  BY <1>1, <1>3, Zenon DEF OthersIdle
<1>8. ThreadsOK'
  <2>1. \A u \in Threads : /\ DOMAIN th'[u] = {"pc", "ip", "lower"}
                           /\ th'[u].pc = "create" => LowerOK(th'[u].lower)
    BY <1>2, <1>3, <1>6, Zenon DEF StackInv, ThreadsOK
  <2>2. alone' => \A u \in Threads : th'[u].pc # "idle" => table' = <<>> /\ OthersIdle(u)'
    BY <1>1, <1>7, Zenon DEF OthersIdle
  <2> QED BY <1>3, <2>1, <2>2, Zenon DEF ThreadsOK, LowerOK
<1>9. SeenOK'
  <2>1. still' => bridges' = BridgeTable
    BY <1>0, Zenon DEF BridgeTable
  <2>2. th'[t].pc = "ip" /\ \A u \in Threads : u # t => (alone' => th'[u].pc = "idle")
    BY <1>3, <1>7, Zenon
  <2> QED BY <1>4, <1>6, <2>1, <2>2, Zenon DEF SeenOK
<1> QED BY <1>4, <1>5, <1>8, <1>9, Zenon DEF StackInv

(* A step of the thread t that changes nothing but what it has seen. *)
LEMMA ThreadStep ==
    ASSUME StackInv, NEW t \in Threads, th[t].pc # "idle",
           UNCHANGED <<kernel, bridges, alone>>, still' => still,
           table' = table \/ (th'[t].pc = "idle"),
           DOMAIN th' = Threads, \A u \in Threads \ {t} : th'[u] = th[u],
           DOMAIN th'[t] = {"pc", "ip", "lower"},
           th'[t].pc = "create" => LowerOK(th'[t].lower),
           still' /\ th'[t].pc = "create" =>
               \E moca \in SUBSET MoCAs : th'[t].lower = AllLower(moca),
           still' /\ th'[t].pc \in {"lower", "create"} =>
               \/ th'[t].ip = IPInterfaces
               \/ th[t].pc \in {"lower", "create"} /\ th'[t].ip = th[t].ip
    PROVE  StackInv'
<1>1. UNCHANGED kernel /\ bridges' = bridges /\ (still' => still) /\ (alone' <=> alone)
  OBVIOUS
<1>2. /\ KernelOK' /\ BridgeTable' = BridgeTable /\ IPInterfaces' = IPInterfaces
      /\ \A moca : AllLower(moca)' = AllLower(moca)
  BY <1>1, SameKernel, Zenon DEF StackInv
<1>3. BridgesOK'
  BY <1>1, Zenon DEF StackInv, BridgesOK
<1>4. alone => \A u \in Threads \ {t} : th'[u].pc = "idle"
  <2>1. alone => \A u \in Threads \ {t} : th[u].pc = "idle"
    BY Zenon DEF StackInv, ThreadsOK, OthersIdle
  <2>2. \A u \in Threads \ {t} : th'[u].pc = th[u].pc
    BY SMT
  <2> QED BY <2>1, <2>2, Zenon
<1>5. ThreadsOK'
  <2>2. \A u \in Threads : /\ DOMAIN th'[u] = {"pc", "ip", "lower"}
                           /\ th'[u].pc = "create" => LowerOK(th'[u].lower)
    BY Zenon DEF StackInv, ThreadsOK
  <2>3. alone' => \A u \in Threads : th'[u].pc # "idle" => table' = <<>> /\ OthersIdle(u)'
    <3> SUFFICES ASSUME alone', NEW u \in Threads, th'[u].pc # "idle"
                 PROVE  table' = <<>> /\ OthersIdle(u)'
      OBVIOUS
    <3>1. u = t
      BY <1>1, <1>4, Zenon
    <3>2. table = <<>>
      BY <1>1, Zenon DEF StackInv, ThreadsOK
    <3> QED BY <1>1, <1>4, <3>1, <3>2, Zenon DEF OthersIdle
  <2> QED BY <2>2, <2>3, Zenon DEF ThreadsOK, LowerOK
<1>6. SeenOK'
  <2> SUFFICES ASSUME still', alone', NEW u \in Threads
               PROVE  /\ th'[u].pc # "idle" => bridges' = BridgeTable'
                      /\ th'[u].pc \in {"lower", "create"} => th'[u].ip = IPInterfaces'
                      /\ th'[u].pc = "create" =>
                            \E moca \in SUBSET MoCAs : th'[u].lower = AllLower(moca)'
    BY DEF SeenOK
  <2>1. CASE u = t
    <3>1. /\ bridges = BridgeTable
          /\ th[t].pc \in {"lower", "create"} => th[t].ip = IPInterfaces
      BY <1>1, Zenon DEF StackInv, SeenOK
    <3>2. th'[t].pc \in {"lower", "create"} => th'[t].ip = IPInterfaces
      BY <3>1, Zenon
    <3>3. th'[t].pc = "create" => \E moca \in SUBSET MoCAs : th'[t].lower = AllLower(moca)'
      BY <1>2, SMT
    <3> QED BY <1>1, <1>2, <2>1, <3>1, <3>2, <3>3, Zenon
  <2>2. CASE u # t
    <3>1. th'[u].pc = "idle"
      BY <1>1, <1>4, <2>2, Zenon
    <3>2. "idle" # "create" /\ "idle" # "lower"
      OBVIOUS
    <3> QED BY <3>1, <3>2, Zenon
  <2> QED BY <2>1, <2>2, Zenon
<1> QED BY <1>2, <1>3, <1>5, <1>6, Zenon DEF StackInv

(* A thread outside a rebuild. *)
LEMMA IdleFields == DOMAIN Idle = {"pc", "ip", "lower"} /\ Idle.pc = "idle"
BY SMT DEF Idle

(* getIPInterfaces keeps the invariant. *)
LEMMA ReadIPStep ==
    ASSUME StackInv, NEW t \in Threads, ReadIP(t)
    PROVE  StackInv'
<1>1. th[t].pc = "ip" /\ UNCHANGED <<kernel, bridges, table, alone>>
  BY Zenon DEF ReadIP
<1>2. PICK read \in SUBSET Present :
          /\ th'    = [th EXCEPT ![t].pc = "lower", ![t].ip = Numbered(read)]
          /\ still' = (still /\ read = Present)
  BY Zenon DEF ReadIP
<1>3. DOMAIN th = Threads /\ \A u \in Threads : DOMAIN th[u] = {"pc", "ip", "lower"}
  BY Zenon DEF StackInv, ThreadsOK
<1>4. /\ DOMAIN th' = Threads
      /\ \A u \in Threads \ {t} : th'[u] = th[u]
      /\ DOMAIN th'[t] = {"pc", "ip", "lower"} /\ th'[t].pc = "lower" /\ th'[t].ip = Numbered(read)
  BY <1>2, <1>3, SMT
<1>5. "ip" # "idle" /\ "lower" # "create"
  OBVIOUS
<1>6. UNCHANGED <<kernel, bridges, alone>> /\ table' = table
  BY <1>1, Zenon
<1>7. (still' => still) /\ (still' => th'[t].ip = IPInterfaces)
  BY <1>2, <1>4, Zenon DEF IPInterfaces
<1> QED BY <1>1, <1>4, <1>5, <1>6, <1>7, ThreadStep, Zenon

(* buildLowerLayerInfo keeps the invariant. *)
LEMMA ReadLowerStep ==
    ASSUME StackInv, NEW t \in Threads, ReadLower(t)
    PROVE  StackInv'
<1>1. th[t].pc = "lower" /\ UNCHANGED <<kernel, bridges, table, alone>>
  BY Zenon DEF ReadLower
<1>2. PICK eths \in SUBSET EthernetInterfaces, moca \in SUBSET MoCAs :
          /\ th'    = [th EXCEPT ![t].pc = "create", ![t].lower = LowerLayerInfo(eths, moca)]
          /\ still' = (still /\ eths = EthernetInterfaces)
  BY Zenon DEF ReadLower
<1>3. DOMAIN th = Threads /\ \A u \in Threads : DOMAIN th[u] = {"pc", "ip", "lower"}
  BY Zenon DEF StackInv, ThreadsOK
<1>4. /\ DOMAIN th' = Threads
      /\ \A u \in Threads \ {t} : th'[u] = th[u]
      /\ DOMAIN th'[t] = {"pc", "ip", "lower"} /\ th'[t].ip = th[t].ip
      /\ th'[t].lower = LowerLayerInfo(eths, moca)
  BY <1>2, <1>3, SMT
<1>5. "lower" # "idle"
  OBVIOUS
<1>6. UNCHANGED <<kernel, bridges, alone>> /\ table' = table
  BY <1>1, Zenon
<1>7. (still' => still) /\ (still' => th'[t].lower = AllLower(moca))
  BY <1>2, <1>4, Zenon DEF AllLower
<1>8. LowerOK(th'[t].lower)
  BY <1>4, LowerPart, Zenon DEF StackInv
<1> QED BY <1>1, <1>4, <1>5, <1>6, <1>7, <1>8, ThreadStep, Zenon

(* The thread's rebuild is over. *)
LEMMA EndStep ==
    ASSUME StackInv, NEW t \in Threads, th[t].pc # "idle", th' = [th EXCEPT ![t] = Idle],
           UNCHANGED <<kernel, bridges, still, alone>>
    PROVE  StackInv'
<1>1. DOMAIN th = Threads
  BY Zenon DEF StackInv, ThreadsOK
<1>2. /\ DOMAIN th' = Threads
      /\ \A u \in Threads \ {t} : th'[u] = th[u]
      /\ th'[t] = Idle
  BY <1>1, SMT
<1>3. DOMAIN th'[t] = {"pc", "ip", "lower"} /\ th'[t].pc = "idle"
  BY <1>2, IdleFields, Zenon
<1>4. "idle" # "lower" /\ "idle" # "create"
  OBVIOUS
<1> QED BY <1>2, <1>3, <1>4, ThreadStep, Zenon

(* When a rebuild that met no other one is over, the table is what it made. *)
LEMMA TableMade ==
    ASSUME StackInv, NEW t \in Threads, CreateAll(t), alone
    PROVE  RowSet' = Made(th[t].lower, th[t].ip)
<1> DEFINE r == Rows(Final(th[t].lower, th[t].ip))
<1>1. /\ th[t].pc = "create"
      /\ table' = [i \in DOMAIN r \cup DOMAIN table |-> IF i \in DOMAIN r THEN r[i] ELSE table[i]]
  BY Zenon DEF CreateAll, Final
<1>2. "create" # "idle"
  OBVIOUS
<1>3. table = <<>>
  BY <1>1, <1>2, Zenon DEF StackInv, ThreadsOK
<1>4. DOMAIN table = {}
  BY <1>3, SMT
<1> HIDE DEF r
<1>5. DOMAIN table' = DOMAIN r /\ \A i \in DOMAIN r : table'[i] = r[i]
  BY <1>1, <1>4, Zenon
<1>6. RowSet' = {r[i] : i \in DOMAIN r}
  BY <1>5, Zenon DEF RowSet
<1> QED BY <1>6, Zenon DEF Made, r

-----------------------------------------------------------------------------
(* Going up from a layer: the rows that have it below them. *)
LeadsTo(R, l, h) == /\ \E r \in R : r.lower = l
                    /\ \A r \in R : r.lower = l => r.higher = h

(* When all rows on a layer have the same layer above, one step up gives   *)
(* it.                                                                     *)
LEMMA OverOne ==
    ASSUME NEW R, NEW l, NEW h, LeadsTo(R, l, h)
    PROVE  Up(R, {l}) = {h}
<1>1. Over(R, {l}) = {h}
  BY Zenon DEF Over, LeadsTo
<1> QED BY <1>1, Zenon DEF Up

(* When no row has the layer below it, the way up ends there. *)
LEMMA OverNone ==
    ASSUME NEW R, NEW l, \A r \in R : r.lower # l
    PROVE  Up(R, {l}) = {l}
<1>1. Over(R, {l}) = {}
  BY Zenon DEF Over
<1> QED BY <1>1, Zenon DEF Up

(* What lies on each kind of layer in the rows that an undisturbed rebuild *)
(* makes of the kernel's interfaces.                                       *)
LEMMA UpFromEthernet ==
    ASSUME KernelOK, BridgesOK, NEW moca \in SUBSET MoCAs, NEW ip, NEW n \in EthernetInterfaces
    PROVE  Up(Made(AllLower(moca), ip), {EthLayer(n)}) =
               {Above(Base(AllLower(moca)), ip, EthEntry(n))}
<1> DEFINE info == AllLower(moca)
           R    == Made(info, ip)
<1>1. /\ LowerOK(info) /\ EthEntry(n) \in info
      /\ \A e \in info : \/ e.name \in EthernetInterfaces /\ e = EthEntry(e.name)
                         \/ e.lower.profile = "MoCA"
  BY LowerEntries, Zenon
<1> HIDE DEF info
<1>2. \A m : EthEntry(m).lower = EthLayer(m) /\ EthLayer(m).profile = "Ethernet"
                                            /\ EthLayer(m).n = IfPlace(m, EthernetInterfaces)
  BY Zenon DEF EthEntry, Entry, EthLayer, Layer
<1>3. \A m \in EthernetInterfaces : EthLayer(m) = EthLayer(n) => m = n
  <2>1. \A m \in EthernetInterfaces :
           IfPlace(m, EthernetInterfaces) = IfPlace(n, EthernetInterfaces) => m = n
    BY IfPlaces, Zenon DEF EthernetInterfaces
  <2> QED BY <1>2, <2>1, SMT
<1>4. "MoCA" # "Ethernet" /\ "Bridge" # "Ethernet"
  OBVIOUS
<1>5. ASSUME NEW e \in Base(info), e.lower = EthLayer(n)
      PROVE  e = EthEntry(n)
  <2>1. e \in info
    <3>1. \A b : Entry(b, "own", NoLayer, Port(1)).lower = Port(1)
      BY Zenon DEF Entry
    <3>2. Port(1).profile = "Bridge"
      BY LayersDiffer, Zenon
    <3>3. Port(1) # EthLayer(n)
      BY <1>2, <1>4, <3>2, SMT
    <3> QED BY <1>5, <3>1, <3>3, SMT DEF Base
  <2>2. e.lower.profile = "Ethernet"
    BY <1>2, <1>5, SMT
  <2>3. e.name \in EthernetInterfaces /\ e = EthEntry(e.name)
    BY <1>1, <1>4, <2>1, <2>2, Zenon
  <2>4. EthLayer(e.name) = EthLayer(n)
    BY <1>2, <1>5, <2>3, SMT
  <2> QED BY <1>3, <2>3, <2>4, Zenon
<1>6. EthEntry(n) \in Base(info)
  BY <1>1, Zenon DEF Base
<1>7. ASSUME NEW r \in R, r.lower = EthLayer(n)
      PROVE  r.higher = Above(Base(info), ip, EthEntry(n))
  <2>1. CASE \E e \in Base(info) : r = OwnRow(info, ip, e)
    <3>1. PICK e \in Base(info) : r = OwnRow(info, ip, e)
      BY <2>1, Zenon
    <3>2. r.lower = e.lower /\ r.higher = Above(Base(info), ip, e)
      BY <3>1, RowFields, SMT DEF OwnRow
    <3>3. e = EthEntry(n)
      BY <1>5, <1>7, <3>2, Zenon
    <3> QED BY <3>2, <3>3, Zenon
  <2>2. CASE \E b \in DOMAIN bridges : \E m \in Linkable(info, b) : r = LinkRow(m, b)
    <3>1. \A m, b : LinkRow(m, b).lower = MemberPort(m, b)
      BY RowFields, SMT DEF LinkRow
    <3>2. \A m, b : MemberPort(m, b).profile = "Bridge"
      BY LayersDiffer, Zenon DEF MemberPort
    <3> QED BY <1>2, <1>4, <1>7, <2>2, <3>1, <3>2, SMT
  <2> QED BY <1>1, <2>1, <2>2, RowsMade, SMT
<1>8. OwnRow(info, ip, EthEntry(n)) \in R
  BY <1>1, <1>6, RowsMade, Zenon
<1>9. OwnRow(info, ip, EthEntry(n)).lower = EthLayer(n)
  BY <1>2, RowFields, SMT DEF OwnRow
<1> HIDE DEF R
<1>10. Up(R, {EthLayer(n)}) = {Above(Base(info), ip, EthEntry(n))}
  <2> DEFINE h == Above(Base(info), ip, EthEntry(n))
             l == EthLayer(n)
  <2>1. LeadsTo(R, l, h)
    BY <1>7, <1>8, <1>9, Zenon DEF LeadsTo
  <2> HIDE DEF h, l
  <2>2. Up(R, {l}) = {h}
    BY <2>1, OverOne, Zenon
  <2> QED BY <2>2, Zenon DEF h, l
<1> QED BY <1>10, Zenon DEF R, info

(* From the port of a member the way leads to the port of the bridge. *)
LEMMA UpFromMember ==
    ASSUME NEW info, LowerOK(info), BridgesOK, NEW ip,
           NEW b \in DOMAIN bridges, NEW m \in Linkable(info, b)
    PROVE  Up(Made(info, ip), {MemberPort(m, b)}) = {Port(1)}
<1> DEFINE R == Made(info, ip)
           l == MemberPort(m, b)
<1>1. l.n # 1 /\ l.profile = "Bridge"
  <2>1. m \in bridges[b]
    BY Zenon DEF Linkable
  <2>2. /\ Place(m, bridges[b]) \in Nat \ {0}
        /\ l.n = 1 + Place(m, bridges[b]) /\ l.profile = "Bridge"
    BY <2>1, MemberPlace, Zenon
  <2> QED BY <2>2, SMT
<1>2. Port(1).n = 1
  BY LayersDiffer, Zenon
<1> HIDE DEF l
<1>3. ASSUME NEW r \in R, r.lower = l
      PROVE  r.higher = Port(1)
  <2>1. CASE \E e \in Base(info) : r = OwnRow(info, ip, e)
    <3>1. PICK e \in Base(info) : r = OwnRow(info, ip, e)
      BY <2>1, Zenon
    <3>2. r.lower = e.lower
      BY <3>1, RowFields, SMT DEF OwnRow
    <3>3. e.lower.profile = "Bridge" => e.lower = Port(1)
      BY BaseEntries, Zenon
    <3> QED BY <1>1, <1>2, <1>3, <3>2, <3>3, SMT
  <2>2. CASE \E c \in DOMAIN bridges : \E n \in Linkable(info, c) : r = LinkRow(n, c)
    <3>1. \A n, c : LinkRow(n, c).higher = Port(1)
      BY RowFields, SMT DEF LinkRow
    <3> QED BY <2>2, <3>1, Zenon
  <2> QED BY <2>1, <2>2, RowsMade, SMT
<1>4. LinkRow(m, b) \in R /\ LinkRow(m, b).lower = l
  <2>1. LinkRow(m, b) \in R
    BY RowsMade, Zenon
  <2>2. LinkRow(m, b).lower = l
    BY RowFields, SMT DEF LinkRow, l
  <2> QED BY <2>1, <2>2, Zenon
<1> HIDE DEF R
<1>5. Up(R, {l}) = {Port(1)}
  <2> DEFINE h == Port(1)
  <2>1. LeadsTo(R, l, h)
    BY <1>3, <1>4, Zenon DEF LeadsTo
  <2> HIDE DEF h
  <2>2. Up(R, {l}) = {h}
    BY <2>1, OverOne, Zenon
  <2> QED BY <2>2, Zenon DEF h
<1> QED BY <1>5, Zenon DEF R, l

(* From the port of the only bridge it leads to the IP interface of the    *)
(* bridge.                                                                 *)
LEMMA UpFromBridge ==
    ASSUME NEW info, LowerOK(info), BridgesOK, NEW ip, NEW b,
           DOMAIN bridges = {b}, b \in DOMAIN ip
    PROVE  Up(Made(info, ip), {Port(1)}) = {Layer("IP", ip[b])}
<1> DEFINE R == Made(info, ip)
           o == Entry(b, "own", NoLayer, Port(1))
<1>1. o \in Base(info) /\ o.name = b /\ o.lower = Port(1)
  BY Zenon DEF Base, Entry
<1>2. Above(Base(info), ip, o) = Layer("IP", ip[b])
  <2>1. BridgesOf(b) = {}
    BY Zenon DEF BridgesOf, BridgesOK
  <2> QED BY <1>1, <2>1, Zenon DEF Above, Raised
<1>3. "Ethernet" # "Bridge" /\ "MoCA" # "Bridge" /\ Port(1).profile = "Bridge" /\ Port(1).n = 1
  <2>1. Port(1).profile = "Bridge" /\ Port(1).n = 1
    BY LayersDiffer, Zenon
  <2> QED BY <2>1
<1>4. ASSUME NEW e \in Base(info), e.lower = Port(1)
      PROVE  e = o
  <2>1. e \notin info
    <3>1. e \in info => e.lower.profile \in {"Ethernet", "MoCA"}
      BY Zenon DEF LowerOK
    <3> QED BY <1>3, <1>4, <3>1, Zenon
  <2> QED BY <1>4, <2>1, Zenon DEF Base
<1> HIDE DEF o
<1>5. ASSUME NEW r \in R, r.lower = Port(1)
      PROVE  r.higher = Layer("IP", ip[b])
  <2>1. CASE \E e \in Base(info) : r = OwnRow(info, ip, e)
    <3>1. PICK e \in Base(info) : r = OwnRow(info, ip, e)
      BY <2>1, Zenon
    <3>2. r.lower = e.lower /\ r.higher = Above(Base(info), ip, e)
      BY <3>1, RowFields, SMT DEF OwnRow
    <3>3. e = o
      BY <1>4, <1>5, <3>2, Zenon
    <3> QED BY <1>2, <3>2, <3>3, Zenon
  <2>2. CASE \E c \in DOMAIN bridges : \E n \in Linkable(info, c) : r = LinkRow(n, c)
    <3>1. PICK c \in DOMAIN bridges : \E n \in Linkable(info, c) : r = LinkRow(n, c)
      BY <2>2, Zenon
    <3>2. PICK n \in Linkable(info, c) : r = LinkRow(n, c)
      BY <3>1, Zenon
    <3>3. n \in bridges[c]
      BY Zenon DEF Linkable
    <3>4. Place(n, bridges[c]) \in Nat \ {0} /\ MemberPort(n, c).n = 1 + Place(n, bridges[c])
      BY <3>3, MemberPlace, Zenon
    <3>5. r.lower = MemberPort(n, c)
      BY <3>2, RowFields, SMT DEF LinkRow
    <3> QED BY <1>3, <1>5, <3>4, <3>5, SMT
  <2> QED BY <2>1, <2>2, RowsMade, SMT
<1>6. OwnRow(info, ip, o) \in R /\ OwnRow(info, ip, o).lower = Port(1)
  <2>1. OwnRow(info, ip, o) \in R
    BY <1>1, RowsMade, Zenon
  <2>2. OwnRow(info, ip, o).lower = Port(1)
    BY <1>1, RowFields, SMT DEF OwnRow
  <2> QED BY <2>1, <2>2, Zenon
<1> HIDE DEF R
<1>7. Up(R, {Port(1)}) = {Layer("IP", ip[b])}
  <2> DEFINE h == Layer("IP", ip[b])
             l == Port(1)
  <2>1. LeadsTo(R, l, h)
    BY <1>5, <1>6, Zenon DEF LeadsTo
  <2> HIDE DEF h, l
  <2>2. Up(R, {l}) = {h}
    BY <2>1, OverOne, Zenon
  <2> QED BY <2>2, Zenon DEF h, l
<1> QED BY <1>7, Zenon DEF R

(* It ends at an IP interface. *)
LEMMA UpFromIP ==
    ASSUME NEW info, LowerOK(info), BridgesOK, NEW ip, NEW k
    PROVE  Up(Made(info, ip), {Layer("IP", k)}) = {Layer("IP", k)}
<1> DEFINE R == Made(info, ip)
<1>1. /\ "Ethernet" # "IP" /\ "MoCA" # "IP" /\ "Bridge" # "IP"
      /\ Layer("IP", k).profile = "IP"
  BY SMT DEF Layer
<1>2. ASSUME NEW r \in R
      PROVE  r.lower # Layer("IP", k)
  <2>1. CASE \E e \in Base(info) : r = OwnRow(info, ip, e)
    <3>1. PICK e \in Base(info) : r = OwnRow(info, ip, e)
      BY <2>1, Zenon
    <3>2. r.lower = e.lower
      BY <3>1, RowFields, SMT DEF OwnRow
    <3>3. e.lower.profile \in {"Ethernet", "MoCA", "Bridge"}
      BY BaseEntries, Zenon
    <3> QED BY <1>1, <3>2, <3>3, SMT
  <2>2. CASE \E c \in DOMAIN bridges : \E n \in Linkable(info, c) : r = LinkRow(n, c)
    <3>1. \A n, c : LinkRow(n, c).lower = MemberPort(n, c)
      BY RowFields, SMT DEF LinkRow
    <3>2. \A n, c : MemberPort(n, c).profile = "Bridge"
      BY LayersDiffer, Zenon DEF MemberPort
    <3> QED BY <1>1, <2>2, <3>1, <3>2, SMT
  <2> QED BY <2>1, <2>2, RowsMade, SMT
<1> HIDE DEF R
<1>3. Up(R, {Layer("IP", k)}) = {Layer("IP", k)}
  BY <1>2, OverNone, Zenon
<1> QED BY <1>3, Zenon DEF R

(* An undisturbed rebuild leads from an Ethernet interface to the IP       *)
(* interface of its bridge, or to its own when it is in none.              *)
LEMMA TopMade ==
    ASSUME KernelOK, BridgesOK, bridges = BridgeTable, Cardinality(Present \cap Bridges) <= 1,
           NEW moca \in SUBSET MoCAs, NEW n \in EthernetInterfaces
    PROVE  Top(Made(AllLower(moca), IPInterfaces), EthLayer(n)) =
               {Layer("IP", IPInterfaces[IF master[n] = 0 THEN n ELSE master[n]])}
<1> DEFINE info == AllLower(moca)
           ip   == IPInterfaces
           R    == Made(info, ip)
           e    == EthEntry(n)
           a    == Above(Base(info), ip, e)
<1>1. LowerOK(info) /\ e \in info
  BY LowerEntries, Zenon
<1>2. e.name = n /\ e.key = "own" /\ e.lower.profile = "Ethernet"
  BY Zenon DEF EthEntry, Entry, EthLayer, Layer
<1>3. DOMAIN ip = Present /\ n \in Present /\ n \in Names
  BY Zenon DEF IPInterfaces, Numbered, EthernetInterfaces, KernelOK
<1>4. Top(R, EthLayer(n)) = Up(R, Up(R, {a}))
  <2>1. Up(R, {EthLayer(n)}) = {a}
    BY UpFromEthernet, Zenon
  <2> QED BY <2>1, Zenon DEF Top
<1>5. e \in Base(info)
  BY <1>1, Zenon DEF Base
<1>6. e \in Find(Base(info), e.name)
  <2>1. "Ethernet" # "MoCA"
    OBVIOUS
  <2> HIDE DEF e, info
  <2> QED BY <1>2, <1>5, <2>1, Zenon DEF Find
<1>7. DOMAIN bridges = Present \cap Bridges
  BY BridgeTableOK, Zenon
<1>8. \A b \in Present \cap Bridges : bridges[b] = {m \in Present : master[m] = b}
  BY BridgeTableOK, Zenon
<1> HIDE DEF e, info, ip
<1>9. CASE master[n] = 0
  <2>1. \A b \in Bridges : b # 0
    <3>1. Bridges \subseteq 1 .. MaxName /\ MaxName \in Nat
      BY InterfaceNames, Zenon DEF Names
    <3> QED BY <3>1, SMT
  <2>2. BridgesOf(n) = {}
    BY <1>7, <1>8, <1>9, <2>1, SMT DEF BridgesOf
  <2>3. a = Layer("IP", ip[n])
    BY <1>2, <1>3, <2>2, Zenon DEF Above, Raised
  <2>4. Up(R, {Layer("IP", ip[n])}) = {Layer("IP", ip[n])}
    BY <1>1, UpFromIP, Zenon
  <2>5. Top(R, EthLayer(n)) = {Layer("IP", ip[n])}
    BY <1>4, <2>3, <2>4, Zenon
  <2> QED BY <1>9, <2>5, Zenon DEF info, ip
<1>10. CASE master[n] # 0
  <2> DEFINE b == master[n]
  <2>1. b \in Present \cap Bridges
    BY <1>3, <1>10, Zenon DEF KernelOK
  <2>2. Present \cap Bridges = {b}
    <3> DEFINE S == Present \cap Bridges
    <3>1. IsFiniteSet(S) /\ Cardinality(S) \in Nat
      <4>1. IsFiniteSet(S)
        BY PresentFinite, Zenon
      <4> QED BY <4>1, FS_CardinalityType, Zenon
    <3> HIDE DEF S, b
    <3>2. b \in S /\ Cardinality(S) <= 1
      BY <2>1, Zenon DEF S
    <3>3. IsFiniteSet(S \ {b}) /\ Cardinality(S \ {b}) = Cardinality(S) - 1
      BY <3>1, <3>2, FS_RemoveElement, Zenon
    <3>4. Cardinality(S \ {b}) \in Nat
      BY <3>3, FS_CardinalityType, Zenon
    <3>5. Cardinality(S \ {b}) = 0
      BY <3>1, <3>2, <3>3, <3>4, SMT
    <3>6. S \ {b} = {}
      BY <3>3, <3>5, FS_EmptySet, Zenon
    <3>7. S = {b}
      BY <3>2, <3>6, Zenon
    <3> QED BY <3>7, Zenon DEF S
  <2>3. n \in bridges[b] /\ BridgesOf(n) # {}
    <3>1. n \in bridges[b]
      BY <1>3, <1>8, <2>1, SMT
    <3> QED BY <1>7, <2>1, <3>1, Zenon DEF BridgesOf
  <2>4. Raised(Base(info), e)
    BY <1>2, <1>6, <2>3, Zenon DEF Raised
  <2> HIDE DEF b
  <2>5. PICK c \in DOMAIN bridges : /\ e.name \in Linkable(info, c)
                                   /\ PortOf(e.name) = MemberPort(e.name, c)
    BY <1>1, <1>5, <2>4, MemberLinked, Zenon
  <2>6. a = MemberPort(e.name, c)
    BY <2>4, <2>5, Zenon DEF Above
  <2>7. Up(R, {MemberPort(e.name, c)}) = {Port(1)}
    <3> DEFINE m == e.name
    <3>1. m \in Linkable(info, c) /\ LowerOK(info)
      BY <1>1, <2>5, Zenon
    <3> HIDE DEF m, info, ip
    <3>2. Up(R, {MemberPort(m, c)}) = {Port(1)}
      BY <3>1, UpFromMember, SMTT(60)
    <3> QED BY <3>2, Zenon DEF m
  <2>8. Up(R, {Port(1)}) = {Layer("IP", ip[b])}
    <3>1. DOMAIN bridges = {b} /\ b \in DOMAIN ip
      BY <1>3, <1>7, <2>1, <2>2, Zenon
    <3> QED BY <1>1, <3>1, UpFromBridge, SMTT(60)
  <2> HIDE DEF a, R
  <2>9. Top(R, EthLayer(n)) = {Layer("IP", ip[b])}
    BY <1>4, <2>6, <2>7, <2>8, Zenon
  <2> QED BY <1>10, <2>9, Zenon DEF info, ip, R, b
<1> QED BY <1>9, <1>10, Zenon DEF info, ip

-----------------------------------------------------------------------------
(* The invariant holds before the first rebuild. *)
LEMMA StackInit == Init => StackInv
<1> SUFFICES ASSUME Init PROVE StackInv
  OBVIOUS
<1>0. PICK S \in SUBSET Names : index = [n \in S |-> n]
  BY Zenon DEF Init
<1>1. /\ changes = 0 /\ bridges = <<>> /\ table = <<>>
      /\ th = [t \in Threads |-> Idle]
  BY Zenon DEF Init
<1>2. KernelOK
  <2>1. Names \subseteq 1 .. MaxName /\ MaxName \in Nat
    BY InterfaceNames, Zenon
  <2>2. Present = S /\ S \subseteq Names /\ \A n \in S : index[n] = n
    BY <1>0, Zenon DEF Present
  <2>3. /\ changes \in Nat
        /\ \A n \in Names : n \in Nat /\ n <= MaxName + changes
    BY <1>1, <2>1, SMT
  <2>4. /\ DOMAIN master = Names
        /\ \A n \in Names : master[n] = 0 \/ master[n] \in Present \cap Bridges
        /\ \A b \in Bridges : master[b] = 0
    <3>1. /\ master \in [Names -> (Present \cap Bridges) \cup {0}]
          /\ \A n \in Names : master[n] # 0 => n \in Present \ Bridges
      BY Zenon DEF Init
    <3>2. Bridges \subseteq Names
      BY Zenon DEF Names
    <3> QED BY <3>1, <3>2, SMT
  <2> QED BY <2>2, <2>3, <2>4, SMT DEF KernelOK
<1>3. BridgesOK
  <2>1. DOMAIN bridges = {}
    BY <1>1, SMT
  <2> QED BY <2>1, Zenon DEF BridgesOK
<1>4. DOMAIN th = Threads /\ \A t \in Threads : th[t] = Idle
  BY <1>1, Zenon
<1>5. \A t \in Threads : th[t].pc = "idle" /\ DOMAIN th[t] = {"pc", "ip", "lower"}
  BY <1>4, IdleFields, SMT
<1>6. "idle" # "lower" /\ "idle" # "create"
  OBVIOUS
<1>7. ThreadsOK
  BY <1>4, <1>5, <1>6, Zenon DEF ThreadsOK
<1>8. SeenOK
  BY <1>5, <1>6, Zenon DEF SeenOK
<1> QED BY <1>2, <1>3, <1>7, <1>8, Zenon DEF StackInv

(* The steps of the two threads, and that they leave the kernel alone. *)
LEMMA NextCases ==
    ASSUME Next
    PROVE  \/ Change
           \/ \E t \in Threads :
                 CloseAll(t) \/ ReadIP(t) \/ ReadLower(t) \/ CreateAll(t)
BY Zenon DEF Next, handleGetMsg, checkForUpdates, NumberOfEntries, Threads

(* Every step of the kernel and of either thread keeps the invariant. *)
LEMMA StackStep == StackInv /\ [Next]_vars => StackInv'
<1> SUFFICES ASSUME StackInv, [Next]_vars PROVE StackInv'
  OBVIOUS
<1>1. CASE Next
  <2>1. CASE Change
    BY <2>1, ChangeStep, Zenon
  <2>2. CASE \E t \in Threads :
                CloseAll(t) \/ ReadIP(t) \/ ReadLower(t) \/ CreateAll(t)
    <3>1. PICK t \in Threads :
              CloseAll(t) \/ ReadIP(t) \/ ReadLower(t) \/ CreateAll(t)
      BY <2>2, Zenon
    <3>2. CASE CloseAll(t)
      BY <3>2, CloseAllStep, Zenon
    <3>3. CASE ReadIP(t)
      BY <3>3, ReadIPStep, Zenon
    <3>4. CASE ReadLower(t)
      BY <3>4, ReadLowerStep, Zenon
    <3>5. CASE CreateAll(t)
      <4>1. th[t].pc # "idle"
        BY <3>5, SMT DEF CreateAll
      <4>2. th' = [th EXCEPT ![t] = Idle] /\ UNCHANGED <<kernel, bridges, still, alone>>
        BY <3>5, Zenon DEF CreateAll
      <4> QED BY <4>1, <4>2, EndStep, Zenon
    <3> QED BY <3>1, <3>2, <3>3, <3>4, <3>5, Zenon
  <2> QED BY <1>1, <2>1, <2>2, NextCases, Zenon
<1>2. CASE UNCHANGED vars
  <2>1. /\ UNCHANGED kernel /\ bridges' = bridges /\ table' = table /\ th' = th
        /\ (still' <=> still) /\ (alone' <=> alone)
    BY <1>2 DEF vars
  <2>2. /\ KernelOK' /\ BridgeTable' = BridgeTable /\ IPInterfaces' = IPInterfaces
        /\ \A moca : AllLower(moca)' = AllLower(moca)
    BY <2>1, SameKernel, Zenon DEF StackInv
  <2>3. BridgesOK'
    BY <2>1, Zenon DEF StackInv, BridgesOK
  <2>4. ThreadsOK'
    BY <2>1, Zenon DEF StackInv, ThreadsOK, OthersIdle
  <2>5. SeenOK'
    <3> SUFFICES ASSUME still, alone, NEW t \in Threads
                 PROVE  /\ th[t].pc # "idle" => bridges = BridgeTable
                        /\ th[t].pc \in {"lower", "create"} => th[t].ip = IPInterfaces
                        /\ th[t].pc = "create" =>
                              \E moca \in SUBSET MoCAs : th[t].lower = AllLower(moca)
      BY <2>1, <2>2, SMT DEF SeenOK
    <3> QED BY Zenon DEF StackInv, SeenOK
  <2> QED BY <2>2, <2>3, <2>4, <2>5, Zenon DEF StackInv
<1> QED BY <1>1, <1>2, Zenon

-----------------------------------------------------------------------------
(* StackFollowsKernel for a set of rows. *)
Follows(R) == \A n \in EthernetInterfaces :
                 Top(R, EthLayer(n)) =
                     {Layer("IP", IPInterfaces[IF master[n] = 0 THEN n ELSE master[n]])}

(* Both properties as statements about the set of rows. *)
LEMMA PropertiesOfRows ==
    /\ PortsLinked <=> (alone => Linked(RowSet))
    /\ StackFollowsKernel <=>
          ((still /\ alone /\ DOMAIN table # {} /\ Cardinality(Present \cap Bridges) <= 1)
              => Follows(RowSet))
<1>1. PortsLinked <=> (alone => Linked(RowSet))
  BY Zenon DEF PortsLinked, Linked
<1>2. StackFollowsKernel <=>
          ((still /\ alone /\ DOMAIN table # {} /\ Cardinality(Present \cap Bridges) <= 1)
              => Follows(RowSet))
  BY Zenon DEF StackFollowsKernel, Follows, EthLayer
<1> QED BY <1>1, <1>2, Zenon

(* The same after a step that leaves the kernel alone. *)
LEMMA PropertiesOfRowsNext ==
    /\ PortsLinked' <=> (alone' => Linked(RowSet'))
    /\ UNCHANGED kernel =>
          (StackFollowsKernel' <=>
             ((still' /\ alone' /\ DOMAIN table' # {} /\ Cardinality(Present \cap Bridges) <= 1)
                 => Follows(RowSet')))
<1>1. PortsLinked' <=> (alone' => Linked(RowSet'))
  BY Zenon DEF PortsLinked, Linked
<1>2. ASSUME UNCHANGED kernel
      PROVE  StackFollowsKernel' <=>
             ((still' /\ alone' /\ DOMAIN table' # {} /\ Cardinality(Present \cap Bridges) <= 1)
                 => Follows(RowSet'))
  <2>1. index' = index /\ master' = master
    BY <1>2, Zenon DEF kernel
  <2>2. Present' = Present /\ EthernetInterfaces' = EthernetInterfaces
    BY <2>1, Zenon DEF Present, EthernetInterfaces
  <2>3. IPInterfaces' = IPInterfaces
    BY <2>2, Zenon DEF IPInterfaces, Numbered, Place
  <2>4. \A n, S : IfPlace(n, S)' = IfPlace(n, S)
    BY <2>1, Zenon DEF IfPlace
  <2> QED BY <2>1, <2>2, <2>3, <2>4, SMT DEF StackFollowsKernel, Follows, EthLayer
<1> QED BY <1>1, <1>2, Zenon

(* A step that leaves the rows and the kernel alone. *)
LEMMA QuietStep ==
    ASSUME UNCHANGED kernel, table' = table, still' => still, alone' <=> alone,
           PortsLinked, StackFollowsKernel
    PROVE  PortsLinked' /\ StackFollowsKernel'
<1>1. RowSet' = RowSet
  BY Zenon DEF RowSet
<1> QED BY <1>1, PropertiesOfRows, PropertiesOfRowsNext, SMT

(* The step that makes the rows establishes both properties. *)
LEMMA CreateStep ==
    ASSUME StackInv, NEW t \in Threads, CreateAll(t)
    PROVE  PortsLinked' /\ StackFollowsKernel'
<1>1. UNCHANGED kernel /\ (still' <=> still) /\ (alone' <=> alone) /\ th[t].pc = "create"
  BY SMT DEF CreateAll
<1> SUFFICES ASSUME alone
             PROVE  /\ Linked(RowSet')
                    /\ (still /\ Cardinality(Present \cap Bridges) <= 1) => Follows(RowSet')
  BY <1>1, PropertiesOfRowsNext, SMT
<1>2. RowSet' = Made(th[t].lower, th[t].ip)
  BY TableMade, Zenon
<1>3. LowerOK(th[t].lower) /\ BridgesOK /\ KernelOK
  BY <1>1, Zenon DEF StackInv, ThreadsOK
<1>4. Linked(RowSet')
  BY <1>2, <1>3, MadeLinked, Zenon
<1>5. ASSUME still, Cardinality(Present \cap Bridges) <= 1
      PROVE  Follows(RowSet')
  <2>1. "create" # "idle"
    OBVIOUS
  <2>2. bridges = BridgeTable /\ th[t].ip = IPInterfaces
    BY <1>1, <1>5, <2>1, Zenon DEF StackInv, SeenOK
  <2>3. PICK moca \in SUBSET MoCAs : th[t].lower = AllLower(moca)
    BY <1>1, <1>5, Zenon DEF StackInv, SeenOK
  <2>4. RowSet' = Made(AllLower(moca), IPInterfaces)
    BY <1>2, <2>2, <2>3, Zenon
  <2>5. \A n \in EthernetInterfaces :
           Top(Made(AllLower(moca), IPInterfaces), EthLayer(n)) =
               {Layer("IP", IPInterfaces[IF master[n] = 0 THEN n ELSE master[n]])}
    BY <1>3, <1>5, <2>2, TopMade, Zenon
  <2> QED BY <2>4, <2>5, Zenon DEF Follows
<1> QED BY <1>4, <1>5, Zenon

(* Every step keeps both properties. *)
LEMMA PropertiesStep ==
    ASSUME StackInv, PortsLinked, StackFollowsKernel, [Next]_vars
    PROVE  PortsLinked' /\ StackFollowsKernel'
<1>1. CASE Next
  <2>1. CASE Change
    <3>1. table' = table /\ (alone' <=> alone) /\ ~still'
      BY <2>1 DEF Change
    <3>2. RowSet' = RowSet
      BY <3>1, Zenon DEF RowSet
    <3>3. PortsLinked'
      BY <3>1, <3>2, PropertiesOfRows, PropertiesOfRowsNext, SMT
    <3>4. StackFollowsKernel'
      BY <3>1, Zenon DEF StackFollowsKernel
    <3> QED BY <3>3, <3>4, Zenon
  <2>2. CASE \E t \in Threads :
                CloseAll(t) \/ ReadIP(t) \/ ReadLower(t) \/ CreateAll(t)
    <3>1. PICK t \in Threads :
              CloseAll(t) \/ ReadIP(t) \/ ReadLower(t) \/ CreateAll(t)
      BY <2>2, Zenon
    <3>2. CASE CloseAll(t)
      <4>1. table' = <<>>
        BY <3>2, Zenon DEF CloseAll
      <4>2. DOMAIN table' = {}
        BY <4>1, SMT
      <4>3. RowSet' = {}
        BY <4>2, Zenon DEF RowSet
      <4>4. PortsLinked'
        BY <4>3, Zenon DEF PortsLinked
      <4>5. StackFollowsKernel'
        BY <4>2, Zenon DEF StackFollowsKernel
      <4> QED BY <4>4, <4>5, Zenon
    <3>3. CASE ReadIP(t) \/ ReadLower(t)
      <4>1. UNCHANGED <<kernel, bridges, table, alone>> /\ (still' => still)
        <5>1. CASE ReadIP(t)
          BY <5>1, Zenon DEF ReadIP
        <5>2. CASE ReadLower(t)
          BY <5>2, Zenon DEF ReadLower
        <5> QED BY <3>3, <5>1, <5>2, Zenon
      <4>2. UNCHANGED kernel /\ table' = table /\ (alone' <=> alone)
        BY <4>1
      <4> QED BY <4>1, <4>2, QuietStep, Zenon
    <3>4. CASE CreateAll(t)
      BY <3>4, CreateStep, Zenon
    <3> QED BY <3>1, <3>2, <3>3, <3>4, Zenon
  <2> QED BY <1>1, <2>1, <2>2, NextCases, Zenon
<1>2. CASE UNCHANGED vars
  <2>1. UNCHANGED kernel /\ table' = table /\ (still' => still) /\ (alone' <=> alone)
    BY <1>2 DEF vars
  <2> QED BY <2>1, QuietStep, Zenon
<1> QED BY <1>1, <1>2, Zenon

(* An empty table has both properties. *)
LEMMA PropertiesInit == Init => PortsLinked /\ StackFollowsKernel
<1> SUFFICES ASSUME Init PROVE PortsLinked /\ StackFollowsKernel
  OBVIOUS
<1>1. table = <<>>
  BY Zenon DEF Init
<1>2. DOMAIN table = {}
  BY <1>1, SMT
<1>3. RowSet = {}
  BY <1>2, Zenon DEF RowSet
<1> QED BY <1>2, <1>3, Zenon DEF PortsLinked, StackFollowsKernel

(* However the interfaces change between the looks at the kernel, and      *)
(* whatever these fail to read, a rebuild that no other one disturbs       *)
(* leaves no row without a lower layer and none whose bridge port leads    *)
(* nowhere: for up to MAX_IFCS interfaces, any number of bridges among     *)
(* them with up to MaxMembers members each, and any number of changes and  *)
(* of failures (get_Device_InterfaceStackNumberOfEntries,                  *)
(* buildBridgeTableLayerInfo).                                             *)
THEOREM PortsStayLinked == Spec => []PortsLinked
<1> DEFINE I == StackInv /\ PortsLinked /\ StackFollowsKernel
<1>1. Init => I
  BY StackInit, PropertiesInit, Zenon
<1>2. I /\ [Next]_vars => I'
  BY StackStep, PropertiesStep, Zenon
<1>3. I => PortsLinked
  OBVIOUS
<1> HIDE DEF I
<1> QED BY <1>1, <1>2, <1>3, PTL DEF Spec

(* When the interfaces have been left alone since the rebuild began, every *)
(* look has read them all, no other rebuild ran and there is at most one   *)
(* bridge, going up the rows from an Ethernet interface leads to one IP    *)
(* interface, that of its bridge or its own: for up to MAX_IFCS interfaces *)
(* and up to MaxMembers members of the bridge.                             *)
THEOREM StackCorrect == Spec => []StackFollowsKernel
<1> DEFINE I == StackInv /\ PortsLinked /\ StackFollowsKernel
<1>1. Init => I
  BY StackInit, PropertiesInit, Zenon
<1>2. I /\ [Next]_vars => I'
  BY StackStep, PropertiesStep, Zenon
<1>3. I => StackFollowsKernel
  OBVIOUS
<1> HIDE DEF I
<1> QED BY <1>1, <1>2, <1>3, PTL DEF Spec
=============================================================================
