---------------------------- MODULE StreamProofs ----------------------------
(***************************************************************************)
(* The chunks of a package on their way from the host to the file that     *)
(* sideload_service() writes: none is lost, doubled or out of order, for   *)
(* any number of connections, streams and faults and any sizes.  The       *)
(* invariant, and its proof for the threads and the event loop.            *)
(***************************************************************************)
EXTENDS TransportProofs

-----------------------------------------------------------------------------
(* The streams of the packages: the invariant that follows their chunks    *)
(* from the host to the file, and its proof for the threads.               *)

(* What is in a queue.                                                     *)
Items(q) == {q[i] : i \in DOMAIN q}

(* A packet to the device: data names the socket that the host was told    *)
(* of, and the stream of an OPEN is not open yet.                          *)
GoodIn(c, p) ==
    /\ p.cmd = "WRTE" => /\ p.a1 \in Id /\ p.a1 < nextId /\ p.a0 = sock[p.a1].rid
                         /\ sock[p.a1].peer \in {0, c}
    /\ p.cmd = "OPEN" => /\ p.a0 \in 1 .. opens /\ \A id \in Id : sock[id].rid # p.a0
                         /\ \A d \in Conn : host[d].rid = p.a0 => d = c /\ host[d].sent = 0

(* A packet to the host: OKAY names a socket and the stream it is of.      *)
GoodOut(p) == p.cmd = "OKAY" => p.a0 \in Id /\ p.a0 < nextId /\ p.a1 = sock[p.a0].rid

QueuesGood ==
    /\ \A c \in Conn : \A p \in Items(rx[c]) \cup Items(toLoop[c]) : GoodIn(c, p)
    /\ \A c \in Conn : \A p \in Items(toInput[c]) \cup Items(tx[c]) : GoodOut(p)

(* No stream is asked for twice.                                           *)
Once(q) ==
    \A i, j \in DOMAIN q :
        q[i].cmd = "OPEN" /\ q[j].cmd = "OPEN" /\ q[i].a0 = q[j].a0 => i = j
OpensIn(q) == {p.a0 : p \in {x \in Items(q) : x.cmd = "OPEN"}}
Asked(c) == OpensIn(rx[c]) \cup OpensIn(toLoop[c])
AskedOnce ==
    /\ \A c \in Conn : /\ Once(rx[c]) /\ Once(toLoop[c])
                       /\ OpensIn(rx[c]) \cap OpensIn(toLoop[c]) = {}
    /\ \A c, d \in Conn : c # d => Asked(c) \cap Asked(d) = {}

(* The streams of hosts and sockets.                                       *)
StreamNames ==
    /\ \A c \in Conn : /\ host[c].rid <= opens
                       /\ host[c].pc \in {"open", "write", "result"} => host[c].rid > 0
    /\ \A c, d \in Conn : host[c].rid = host[d].rid /\ c # d => host[c].rid = 0
    /\ \A id \in Id : sock[id].rid <= opens
    /\ \A id, j \in Id : sock[id].rid = sock[j].rid /\ id # j => sock[id].rid = 0
    /\ \A id \in Id, c \in Conn :
          sock[id].rid = host[c].rid => sock[id].rid = 0 \/ sock[id].peer \in {0, c}

(* Chunks a + 1, a + 2 ... in a sequence, and the packets of a stream in a *)
(* queue, that continue a stream of a chunks up to b of them.              *)
From(q, a) == \A i \in 1 .. Len(q) : q[i] = a + i
ForSocket(p, id) == p.cmd = "WRTE" /\ p.a1 = id
Leads(p, id, a, b) ==
    IF ForSocket(p, id) THEN From(p.data, a) /\ b = a + Len(p.data) ELSE b = a
Chain(q, id, a, b) ==
    \E f \in [0 .. Len(q) -> Nat] :
        /\ f[0] = a /\ f[Len(q)] = b
        /\ \A i \in 1 .. Len(q) : Leads(q[i], id, f[i - 1], f[i])

LEMMA ItemsFacts ==
  ASSUME NEW X, NEW q \in Seq(X)
  PROVE  /\ Items(<< >>) = {} /\ Items(q) \subseteq X
         /\ \A x \in X : Items(Append(q, x)) = Items(q) \cup {x}
         /\ \A s \in Seq(X) : Items(q \o s) = Items(q) \cup Items(s)
         /\ q # << >> => Head(q) \in Items(q) /\ Items(Tail(q)) \subseteq Items(q)
<1>1. Items(<< >>) = {} /\ Items(q) \subseteq X
  BY DEF Items
<1>2. ASSUME NEW x \in X PROVE Items(Append(q, x)) = Items(q) \cup {x}
  <2>1. /\ DOMAIN Append(q, x) = DOMAIN q \cup {Len(q) + 1} /\ Append(q, x)[Len(q) + 1] = x
        /\ \A i \in DOMAIN q : Append(q, x)[i] = q[i]
    BY AppendFacts
  <2> QED
    BY <2>1 DEF Items
<1>3. ASSUME NEW s \in Seq(X) PROVE Items(q \o s) = Items(q) \cup Items(s)
  <2>1. /\ Len(q) \in Nat /\ Len(s) \in Nat /\ DOMAIN q = 1 .. Len(q) /\ DOMAIN s = 1 .. Len(s)
        /\ DOMAIN (q \o s) = 1 .. Len(q) + Len(s)
        /\ \A i \in 1 .. Len(q) : (q \o s)[i] = q[i]
        /\ \A i \in 1 .. Len(s) : (q \o s)[Len(q) + i] = s[i]
    OBVIOUS
  <2>2. Items(q) \cup Items(s) \subseteq Items(q \o s)
    <3>1. \A i \in 1 .. Len(q) : i \in 1 .. Len(q) + Len(s)
      BY <2>1
    <3>2. \A i \in 1 .. Len(s) : Len(q) + i \in 1 .. Len(q) + Len(s)
      BY <2>1
    <3> QED
      BY Zenon, <2>1, <3>1, <3>2 DEF Items
  <2>3. ASSUME NEW i \in DOMAIN (q \o s) PROVE (q \o s)[i] \in Items(q) \cup Items(s)
    <3>1. CASE i \in 1 .. Len(q)
      BY <2>1, <3>1 DEF Items
    <3>2. CASE i \notin 1 .. Len(q)
      <4>1. i - Len(q) \in 1 .. Len(s) /\ i = Len(q) + (i - Len(q))
        BY <2>1, <3>2
      <4>2. (q \o s)[i] = s[i - Len(q)]
        BY <2>1, <4>1
      <4> QED
        BY Zenon, <2>1, <4>1, <4>2 DEF Items
    <3> QED
      BY <3>1, <3>2
  <2> QED
    BY Zenon, <2>2, <2>3 DEF Items
<1>4. ASSUME q # << >> PROVE Head(q) \in Items(q) /\ Items(Tail(q)) \subseteq Items(q)
  <2>1. /\ Len(q) \in Nat /\ Len(q) >= 1 /\ DOMAIN q = 1 .. Len(q) /\ Head(q) = q[1]
        /\ DOMAIN Tail(q) = 1 .. Len(q) - 1 /\ \A i \in DOMAIN Tail(q) : Tail(q)[i] = q[i + 1]
    BY <1>4
  <2>2. 1 \in DOMAIN q /\ \A i \in DOMAIN Tail(q) : i + 1 \in DOMAIN q
    BY <2>1
  <2>3. Head(q) \in Items(q)
    BY Zenon, <2>1, <2>2 DEF Items
  <2>4. ASSUME NEW i \in DOMAIN Tail(q)
        PROVE  Tail(q)[i] \in Items(q)
    BY Zenon, <2>1, <2>2 DEF Items
  <2>5. Items(Tail(q)) \subseteq Items(q)
    BY Zenon, <2>4 DEF Items
  <2> QED
    BY Zenon, <2>3, <2>5
<1> QED
  BY Zenon, <1>1, <1>2, <1>3, <1>4

LEMMA AppendItems ==
  ASSUME NEW q \in Seq(Packets), NEW p \in Packets
  PROVE  Items(Append(q, p)) = Items(q) \cup {p}
  BY ItemsFacts

LEMMA JoinItems ==
  ASSUME NEW q \in Seq(Packets), NEW s \in Seq(Packets)
  PROVE  Items(q \o s) = Items(q) \cup Items(s)
  BY ItemsFacts

(* A queue is joined at its end and read at its start.                     *)
LEMMA ChainFacts ==
  ASSUME NEW X, NEW q \in Seq(X), NEW id
  PROVE  /\ \A a \in Nat : (\A p \in Items(q) : ~ForSocket(p, id)) => Chain(q, id, a, a)
         /\ \A a, b : Chain(q, id, a, b) => a \in Nat /\ b \in Nat
         /\ \A a, b, d : \A p \in X :
               Chain(q, id, a, b) /\ d \in Nat /\ Leads(p, id, b, d) => Chain(Append(q, p), id, a, d)
         /\ \A a, b : q # << >> /\ Chain(q, id, a, b) =>
               \E d \in Nat : Leads(Head(q), id, a, d) /\ Chain(Tail(q), id, d, b)
         /\ \A a, b : q = << >> /\ Chain(q, id, a, b) => a = b
<1>0. Len(q) \in Nat /\ DOMAIN q = 1 .. Len(q)
  OBVIOUS
<1>1. ASSUME NEW a \in Nat, \A p \in Items(q) : ~ForSocket(p, id) PROVE Chain(q, id, a, a)
  <2> DEFINE f == [i \in 0 .. Len(q) |-> a]
  <2>1. f \in [0 .. Len(q) -> Nat] /\ f[0] = a /\ f[Len(q)] = a
    BY <1>0
  <2>2. \A i \in 1 .. Len(q) : Leads(q[i], id, f[i - 1], f[i])
    <3> SUFFICES ASSUME NEW i \in 1 .. Len(q) PROVE Leads(q[i], id, f[i - 1], f[i])
      BY Zenon
    <3>1. f[i - 1] = a /\ f[i] = a
      BY <1>0
    <3>2. ~ForSocket(q[i], id)
      BY Zenon, <1>0, <1>1 DEF Items
    <3> QED
      BY Zenon, <3>1, <3>2 DEF Leads
  <2> HIDE DEF f
  <2> QED
    BY Zenon, <2>1, <2>2 DEF Chain
<1>2. ASSUME NEW a, NEW b, Chain(q, id, a, b) PROVE a \in Nat /\ b \in Nat
  BY <1>0, <1>2 DEF Chain
<1>3. ASSUME NEW a, NEW b, NEW d \in Nat, NEW p \in X, Chain(q, id, a, b), Leads(p, id, b, d)
      PROVE  Chain(Append(q, p), id, a, d)
  <2>1. PICK f \in [0 .. Len(q) -> Nat] :
            /\ f[0] = a /\ f[Len(q)] = b
            /\ \A i \in 1 .. Len(q) : Leads(q[i], id, f[i - 1], f[i])
    BY Zenon, <1>3 DEF Chain
  <2> DEFINE s == Append(q, p)
             g == [i \in 0 .. Len(q) + 1 |-> IF i = Len(q) + 1 THEN d ELSE f[i]]
  <2>2. Len(s) = Len(q) + 1 /\ s[Len(q) + 1] = p /\ \A i \in 1 .. Len(q) : s[i] = q[i]
    OBVIOUS
  <2>3. /\ g \in [0 .. Len(s) -> Nat] /\ g[0] = a /\ g[Len(s)] = d
        /\ \A i \in 0 .. Len(q) : g[i] = f[i]
    BY <1>0, <2>1, <2>2
  <2> HIDE DEF g, s
  <2>4. \A i \in 1 .. Len(s) : Leads(s[i], id, g[i - 1], g[i])
    <3> SUFFICES ASSUME NEW i \in 1 .. Len(s) PROVE Leads(s[i], id, g[i - 1], g[i])
      BY Zenon
    <3>1. CASE i = Len(q) + 1
      <4>1. s[i] = p /\ i - 1 = Len(q) /\ Len(q) \in 0 .. Len(q) /\ i = Len(s)
        BY <1>0, <2>2, <3>1
      <4>2. g[i - 1] = b /\ g[i] = d
        BY Zenon, <2>1, <2>3, <4>1
      <4> QED
        BY Zenon, <1>3, <4>1, <4>2
    <3>2. CASE i # Len(q) + 1
      <4>1. i \in 1 .. Len(q) /\ i - 1 \in 0 .. Len(q) /\ i \in 0 .. Len(q)
        BY <1>0, <2>2, <3>2
      <4> QED
        BY Zenon, <2>1, <2>2, <2>3, <4>1
    <3> QED
      BY Zenon, <3>1, <3>2
  <2> QED
    BY Zenon, <2>3, <2>4 DEF Chain, s
<1>4. ASSUME NEW a, NEW b, q # << >>, Chain(q, id, a, b)
      PROVE  \E d \in Nat : Leads(Head(q), id, a, d) /\ Chain(Tail(q), id, d, b)
  <2>1. PICK f \in [0 .. Len(q) -> Nat] :
            /\ f[0] = a /\ f[Len(q)] = b
            /\ \A i \in 1 .. Len(q) : Leads(q[i], id, f[i - 1], f[i])
    BY Zenon, <1>4 DEF Chain
  <2> DEFINE s == Tail(q)
             g == [i \in 0 .. Len(q) - 1 |-> f[i + 1]]
  <2>2. /\ Len(s) = Len(q) - 1 /\ Len(q) >= 1 /\ Head(q) = q[1]
        /\ \A i \in 1 .. Len(s) : s[i] = q[i + 1]
    BY <1>4
  <2>3. /\ g \in [0 .. Len(s) -> Nat] /\ g[0] = f[1] /\ g[Len(s)] = b /\ f[1] \in Nat
        /\ \A i \in 0 .. Len(s) : g[i] = f[i + 1]
    BY <1>0, <2>1, <2>2
  <2> HIDE DEF g, s
  <2>4. \A i \in 1 .. Len(s) : Leads(s[i], id, g[i - 1], g[i])
    <3> SUFFICES ASSUME NEW i \in 1 .. Len(s) PROVE Leads(s[i], id, g[i - 1], g[i])
      BY Zenon
    <3>1. /\ i + 1 \in 1 .. Len(q) /\ i - 1 \in 0 .. Len(s) /\ i \in 0 .. Len(s)
          /\ (i - 1) + 1 = i /\ (i + 1) - 1 = i
      BY <1>0, <2>2
    <3>2. g[i - 1] = f[(i + 1) - 1] /\ g[i] = f[i + 1] /\ s[i] = q[i + 1]
      BY Zenon, <2>2, <2>3, <3>1
    <3> QED
      BY Zenon, <2>1, <3>1, <3>2
  <2>5. Leads(Head(q), id, a, f[1])
    <3>1. 1 \in 1 .. Len(q) /\ 1 - 1 = 0
      BY <1>0, <2>2
    <3> QED
      BY Zenon, <2>1, <2>2, <3>1
  <2> QED
    BY Zenon, <2>3, <2>4, <2>5 DEF Chain, s
<1>5. ASSUME NEW a, NEW b, q = << >>, Chain(q, id, a, b) PROVE a = b
  BY <1>5 DEF Chain
<1> QED
  BY Zenon, <1>1, <1>2, <1>3, <1>4, <1>5

LEMMA ChainLeads ==
  ASSUME NEW q \in Seq(Packets), q # << >>, NEW id, NEW a, NEW b, Chain(q, id, a, b)
  PROVE  \E d \in Nat : Leads(Head(q), id, a, d) /\ Chain(Tail(q), id, d, b)
  BY Zenon, ChainFacts

LEMMA ChainGrows ==
  ASSUME NEW q \in Seq(Packets), NEW p \in Packets, NEW id, NEW a, NEW b, NEW d \in Nat,
         Chain(q, id, a, b), Leads(p, id, b, d)
  PROVE  Chain(Append(q, p), id, a, d)
  BY Zenon, ChainFacts

(* OPEN packets in a queue.                                                *)
LEMMA OnceFacts ==
  ASSUME NEW X, NEW q \in Seq(X)
  PROVE  /\ Once(<< >>) /\ OpensIn(<< >>) = {}
         /\ \A p \in X : p.cmd # "OPEN" =>
               (Once(q) => Once(Append(q, p))) /\ OpensIn(Append(q, p)) = OpensIn(q)
         /\ \A p \in X : p.cmd = "OPEN" =>
               /\ OpensIn(Append(q, p)) = OpensIn(q) \cup {p.a0}
               /\ Once(q) /\ p.a0 \notin OpensIn(q) => Once(Append(q, p))
         /\ q # << >> /\ Once(q) =>
               /\ Once(Tail(q)) /\ OpensIn(Tail(q)) \subseteq OpensIn(q)
               /\ Head(q).cmd = "OPEN" => Head(q).a0 \in OpensIn(q) /\ Head(q).a0 \notin OpensIn(Tail(q))
<1>1. Once(<< >>) /\ OpensIn(<< >>) = {}
  BY DEF Once, OpensIn, Items
<1>2. ASSUME NEW p \in X
      PROVE  /\ p.cmd # "OPEN" => OpensIn(Append(q, p)) = OpensIn(q)
             /\ p.cmd = "OPEN" => OpensIn(Append(q, p)) = OpensIn(q) \cup {p.a0}
  <2>1. Items(Append(q, p)) = Items(q) \cup {p}
    BY ItemsFacts
  <2>2. ASSUME NEW n
        PROVE  n \in OpensIn(Append(q, p)) <=>
                  n \in OpensIn(q) \/ (p.cmd = "OPEN" /\ n = p.a0)
    BY Zenon, <2>1 DEF OpensIn
  <2> HIDE DEF OpensIn
  <2>3. ASSUME p.cmd # "OPEN"
        PROVE  OpensIn(Append(q, p)) = OpensIn(q)
    BY Zenon, <2>2, <2>3
  <2>4. ASSUME p.cmd = "OPEN"
        PROVE  OpensIn(Append(q, p)) = OpensIn(q) \cup {p.a0}
    BY Zenon, <2>2, <2>4
  <2> QED
    BY Zenon, <2>3, <2>4
<1>3. ASSUME NEW p \in X, Once(q), p.cmd = "OPEN" => p.a0 \notin OpensIn(q)
      PROVE  Once(Append(q, p))
  <2>1. /\ DOMAIN Append(q, p) = DOMAIN q \cup {Len(q) + 1} /\ Append(q, p)[Len(q) + 1] = p
        /\ \A i \in DOMAIN q : Append(q, p)[i] = q[i]
    BY AppendFacts
  <2>2. ASSUME NEW i \in DOMAIN q, q[i].cmd = "OPEN" PROVE q[i].a0 \in OpensIn(q)
    BY Zenon, <2>2 DEF OpensIn, Items
  <2> DEFINE s == Append(q, p)
  <2>3. ASSUME NEW i \in DOMAIN s, NEW j \in DOMAIN s, s[i].cmd = "OPEN", s[j].cmd = "OPEN",
               s[i].a0 = s[j].a0
        PROVE  i = j
    <3>0. /\ i \in DOMAIN q \/ (i = Len(q) + 1 /\ s[i] = p)
          /\ j \in DOMAIN q \/ (j = Len(q) + 1 /\ s[j] = p)
          /\ \A k \in DOMAIN q : s[k] = q[k]
      BY Zenon, <2>1, <2>3
    <3> HIDE DEF s
    <3>1. CASE i \in DOMAIN q /\ j \in DOMAIN q
      BY Zenon, <1>3, <2>3, <3>0, <3>1 DEF Once
    <3>2. CASE i \in DOMAIN q /\ s[j] = p
      BY Zenon, <1>3, <2>2, <2>3, <3>0, <3>2
    <3>3. CASE s[i] = p /\ j \in DOMAIN q
      BY Zenon, <1>3, <2>2, <2>3, <3>0, <3>3
    <3> QED
      BY Zenon, <3>0, <3>1, <3>2, <3>3
  <2> QED
    BY Zenon, <2>3 DEF Once
<1>4. ASSUME q # << >>, Once(q)
      PROVE  /\ Once(Tail(q)) /\ OpensIn(Tail(q)) \subseteq OpensIn(q)
             /\ Head(q).cmd = "OPEN" => Head(q).a0 \in OpensIn(q) /\ Head(q).a0 \notin OpensIn(Tail(q))
  <2>1. /\ Head(q) \in Items(q) /\ Items(Tail(q)) \subseteq Items(q)
    BY Zenon, <1>4, ItemsFacts
  <2>2. /\ DOMAIN q = 1 .. Len(q) /\ DOMAIN Tail(q) = 1 .. Len(q) - 1 /\ Len(q) \in Nat
        /\ \A i \in DOMAIN Tail(q) : Tail(q)[i] = q[i + 1]
        /\ Head(q) = q[1] /\ Len(q) >= 1
    BY <1>4
  <2>3. \A i \in DOMAIN Tail(q) : i \in Int /\ i + 1 \in DOMAIN q /\ i + 1 # 1
    BY <2>2
  <2>4. 1 \in DOMAIN q
    BY <2>2
  <2>5. Once(Tail(q))
    BY <1>4, <2>2, <2>3 DEF Once
  <2>6. OpensIn(Tail(q)) \subseteq OpensIn(q)
    BY Zenon, <2>1 DEF OpensIn
  <2>7. ASSUME Head(q).cmd = "OPEN" PROVE Head(q).a0 \in OpensIn(q) /\ Head(q).a0 \notin OpensIn(Tail(q))
    <3>1. Head(q).a0 \in OpensIn(q)
      BY Zenon, <2>1, <2>7 DEF OpensIn
    <3>2. ASSUME NEW i \in DOMAIN Tail(q), Tail(q)[i].cmd = "OPEN", Tail(q)[i].a0 = Head(q).a0 PROVE FALSE
      BY Zenon, <1>4, <2>2, <2>3, <2>4, <2>7, <3>2 DEF Once
    <3> QED
      BY Zenon, <3>1, <3>2 DEF OpensIn, Items
  <2> QED
    BY Zenon, <2>5, <2>6, <2>7
<1> QED
  BY Zenon, <1>1, <1>2, <1>3, <1>4

LEMMA AppendOpens ==
  ASSUME NEW q \in Seq(Packets), NEW p \in Packets
  PROVE  /\ p.cmd # "OPEN" => (Once(q) => Once(Append(q, p))) /\ OpensIn(Append(q, p)) = OpensIn(q)
         /\ p.cmd = "OPEN" => /\ OpensIn(Append(q, p)) = OpensIn(q) \cup {p.a0}
                              /\ Once(q) /\ p.a0 \notin OpensIn(q) => Once(Append(q, p))
  BY OnceFacts

-----------------------------------------------------------------------------
LEMMA ConnPositive == \A c \in Conn : c # 0
  BY Bounds DEF Conn

(* Which of the threads of a transport has kicked it, and which transports *)
(* sockets belong to.                                                      *)
Kicks == {"kicking", "unref", "done"}
Kicked(c) == ~FirstKick(c) => outPc[c] \in Kicks \/ inPc[c] \in Kicks
Attached(c) == OfTransport(c) # {} => Online(c) /\ tr[c].st = "registered"
InUse(id) == sock[id].st # "none" \/ sock[id].peer # 0
SockLife(id) ==
    /\ InUse(id) \/ svc[id].pc # "none" => id < nextId
    /\ sock[id].st = "open" => sock[id].peer # 0

(* What a service has not read yet of its stream: what is in its socket    *)
(* pair and in the packets of its socket follows what it has, and what is  *)
(* under way follows that, up to what the host has sent.                   *)
Live(id) == svc[id].pc \in {"create", "read"}
Held(id) == /\ From(chan[id].down, svc[id].got)
            /\ From(sock[id].pkts, svc[id].got + Len(chan[id].down))
Pos(id) == svc[id].got + Len(chan[id].down) + Len(sock[id].pkts)
Reads(c) == outPc[c] \in {"sync", "read"}
Coming(id, c) ==
    \E m : /\ Chain(toLoop[c], id, Pos(id), m)
           /\ Reads(c) => \E n : /\ Chain(rx[c], id, m, n)
                                 /\ plugged[c] /\ host[c].rid = sock[id].rid => host[c].sent = n
Stream(id) ==
    Live(id) => /\ Held(id)
                /\ \A c \in Conn : sock[id].st = "open" /\ sock[id].peer = c => Coming(id, c)

SvcTyped ==
    /\ svc \in [Id -> [pc : {"none", "create", "read", "reply", "close", "exit", "done"},
                       got : 0 .. Count]]
    /\ DOMAIN file = 1 .. Count /\ plugged \in [Conn -> BOOLEAN]
SvcInv ==
    /\ \A id \in Id : /\ svc[id].pc \in {"none", "create"} => svc[id].got = 0
                      /\ svc[id].pc = "exit" => svc[id].got = Count
    /\ exited => \E id \in Id : svc[id].pc = "exit"

(* What is in the file, as long as only one service writes it.             *)
Writer(id) == svc[id].pc \in {"read", "reply", "close", "exit"}
FileInv ==
    ~overlap => /\ \A id, j \in Id : Running(id) /\ Running(j) => id = j
                /\ \A id \in Id : Writer(id) => \A k \in 1 .. svc[id].got : file[k] = <<id, k>>

StreamInv ==
    /\ \A c \in Conn : Kicked(c) /\ Attached(c)
    /\ \A id \in Id : SockLife(id) /\ Stream(id)
    /\ QueuesGood /\ AskedOnce /\ StreamNames /\ SvcTyped /\ SvcInv /\ FileInv

-----------------------------------------------------------------------------
(* What most steps do to the queues of packets to the loop ...             *)
Moved(c) ==
    \/ rx'[c] = rx[c] /\ toLoop'[c] = toLoop[c]
    \/ rx'[c] = rx[c] /\ \E p \in Packets : p.cmd = "SYNC" /\ toLoop'[c] = Append(toLoop[c], p)
    \/ /\ rx[c] # << >> /\ rx'[c] = Tail(rx[c])
       /\ toLoop'[c] = toLoop[c] \/ toLoop'[c] = Append(toLoop[c], Head(rx[c]))
    \/ rx'[c] = << >> /\ toLoop'[c] = toLoop[c]
    \/ rx'[c] = rx[c] /\ toLoop[c] # << >> /\ toLoop'[c] = Tail(toLoop[c])
    \/ rx'[c] = rx[c] /\ toLoop'[c] = << >>

LEMMA MovedKeeps ==
  ASSUME LinkTyped, PairTyped, NEW c \in Conn, Moved(c)
  PROVE  /\ \A p \in Items(rx'[c]) \cup Items(toLoop'[c]) :
               p.cmd = "SYNC" \/ p \in Items(rx[c]) \cup Items(toLoop[c])
         /\ Once(rx[c]) /\ Once(toLoop[c]) /\ OpensIn(rx[c]) \cap OpensIn(toLoop[c]) = {} =>
               /\ Once(rx'[c]) /\ Once(toLoop'[c]) /\ OpensIn(rx'[c]) \cap OpensIn(toLoop'[c]) = {}
               /\ Asked(c)' \subseteq Asked(c)
<1> DEFINE r == rx[c]
           l == toLoop[c]
           r1 == rx'[c]
           l1 == toLoop'[c]
<1>0. r \in Seq(Packets) /\ l \in Seq(Packets)
  BY DEF LinkTyped, PairTyped
<1>1. /\ Items(<< >>) = {} /\ Once(<< >>) /\ OpensIn(<< >>) = {}
      /\ \A p \in Packets : Items(Append(l, p)) = Items(l) \cup {p}
      /\ r # << >> => /\ Head(r) \in Items(r) /\ Items(Tail(r)) \subseteq Items(r)
                      /\ Head(r) \in Packets
      /\ l # << >> => Items(Tail(l)) \subseteq Items(l)
  BY ZenonT(60), <1>0, ItemsFacts, OnceFacts, TailFacts
<1>2. /\ \A p \in Packets : p.cmd # "OPEN" =>
            (Once(l) => Once(Append(l, p))) /\ OpensIn(Append(l, p)) = OpensIn(l)
      /\ \A p \in Packets : p.cmd = "OPEN" =>
            /\ OpensIn(Append(l, p)) = OpensIn(l) \cup {p.a0}
            /\ Once(l) /\ p.a0 \notin OpensIn(l) => Once(Append(l, p))
  BY Zenon, <1>0, OnceFacts
<1>3. /\ l # << >> /\ Once(l) => Once(Tail(l)) /\ OpensIn(Tail(l)) \subseteq OpensIn(l)
      /\ r # << >> /\ Once(r) =>
            /\ Once(Tail(r)) /\ OpensIn(Tail(r)) \subseteq OpensIn(r)
            /\ Head(r).cmd = "OPEN" => Head(r).a0 \in OpensIn(r) /\ Head(r).a0 \notin OpensIn(Tail(r))
  BY Zenon, <1>0, OnceFacts
<1>4. \/ r1 = r /\ l1 = l
      \/ r1 = r /\ \E p \in Packets : p.cmd = "SYNC" /\ l1 = Append(l, p)
      \/ r # << >> /\ r1 = Tail(r) /\ (l1 = l \/ l1 = Append(l, Head(r)))
      \/ r1 = << >> /\ l1 = l
      \/ r1 = r /\ l # << >> /\ l1 = Tail(l)
      \/ r1 = r /\ l1 = << >>
  BY Zenon DEF Moved
<1>5. Asked(c) = OpensIn(r) \cup OpensIn(l) /\ Asked(c)' = OpensIn(r1) \cup OpensIn(l1)
  BY Zenon DEF Asked, OpensIn, Items
<1> HIDE DEF r, l, r1, l1
<1>6. \A p \in Items(r1) \cup Items(l1) : p.cmd = "SYNC" \/ p \in Items(r) \cup Items(l)
  <2>1. Items(r1) \subseteq Items(r)
    BY Zenon, <1>1, <1>4
  <2>2. \/ Items(l1) \subseteq Items(l)
        \/ Items(l1) = Items(l) \cup {Head(r)} /\ Head(r) \in Items(r)
        \/ \E p \in Packets : p.cmd = "SYNC" /\ Items(l1) = Items(l) \cup {p}
    BY Zenon, <1>1, <1>4
  <2> QED
    BY Zenon, <2>1, <2>2
<1>7. ASSUME Once(r), Once(l), OpensIn(r) \cap OpensIn(l) = {}
      PROVE  /\ Once(r1) /\ Once(l1) /\ OpensIn(r1) \cap OpensIn(l1) = {}
             /\ OpensIn(r1) \cup OpensIn(l1) \subseteq OpensIn(r) \cup OpensIn(l)
  <2>1. CASE (r1 = r /\ (l1 = l \/ l1 = << >>)) \/ (r1 = << >> /\ l1 = l)
    BY Zenon, <1>1, <1>7, <2>1
  <2>2. CASE r1 = r /\ \E p \in Packets : p.cmd = "SYNC" /\ l1 = Append(l, p)
    BY Zenon, <1>2, <1>7, <2>2
  <2>3. CASE r # << >> /\ r1 = Tail(r) /\ l1 = l
    BY Zenon, <1>3, <1>7, <2>3
  <2>4. CASE r # << >> /\ r1 = Tail(r) /\ l1 = Append(l, Head(r))
    <3>1. CASE Head(r).cmd = "OPEN"
      <4>1. /\ Once(r1) /\ OpensIn(r1) \subseteq OpensIn(r) /\ Head(r).a0 \in OpensIn(r)
            /\ Head(r).a0 \notin OpensIn(r1)
        BY Zenon, <1>3, <1>7, <2>4, <3>1
      <4>2. Head(r).a0 \notin OpensIn(l)
        BY Zenon, <1>7, <4>1
      <4>3. OpensIn(l1) = OpensIn(l) \cup {Head(r).a0} /\ Once(l1)
        BY Zenon, <1>1, <1>2, <1>7, <2>4, <3>1, <4>2
      <4> QED
        BY Zenon, <1>7, <4>1, <4>3
    <3>2. CASE Head(r).cmd # "OPEN"
      BY Zenon, <1>1, <1>2, <1>3, <1>7, <2>4, <3>2
    <3> QED
      BY Zenon, <3>1, <3>2
  <2>5. CASE r1 = r /\ l # << >> /\ l1 = Tail(l)
    BY Zenon, <1>3, <1>7, <2>5
  <2> QED
    BY Zenon, <1>4, <2>1, <2>2, <2>3, <2>4, <2>5
<1> QED
  BY Zenon, <1>5, <1>6, <1>7 DEF r, l, r1, l1

(* ... and with the packets of a stream: what the thread reads goes on to  *)
(* the loop, and what is lost is lost with the connection.                 *)
Carried(c, id) ==
    /\ Reads(c)' => Reads(c)
    /\ plugged'[c] => plugged[c]
    /\ \/ rx'[c] = rx[c] /\ toLoop'[c] = toLoop[c]
       \/ rx'[c] = rx[c] /\ \E p \in Packets : p.cmd = "SYNC" /\ toLoop'[c] = Append(toLoop[c], p)
       \/ /\ Reads(c) /\ rx[c] # << >> /\ rx'[c] = Tail(rx[c])
          /\ toLoop'[c] = Append(toLoop[c], Head(rx[c]))
       \/ ~Reads(c)' /\ toLoop'[c] = toLoop[c]
       \/ rx'[c] = << >> /\ ~plugged'[c] /\ toLoop'[c] = toLoop[c]
       \/ /\ rx'[c] = rx[c] /\ toLoop[c] # << >> /\ toLoop'[c] = Tail(toLoop[c])
          /\ ~ForSocket(Head(toLoop[c]), id)

LEMMA ComingKept ==
  ASSUME LinkTyped, PairTyped, NEW id \in Id, NEW c \in Conn, Coming(id, c), Pos(id)' = Pos(id),
         host' = host, sock'[id].rid = sock[id].rid, Carried(c, id)
  PROVE  Coming(id, c)'
<1> DEFINE r == rx[c]
           l == toLoop[c]
           r1 == rx'[c]
           l1 == toLoop'[c]
           a == Pos(id)
           Agrees(n) == plugged[c] /\ host[c].rid = sock[id].rid => host[c].sent = n
<1>0. r \in Seq(Packets) /\ l \in Seq(Packets)
  BY DEF LinkTyped, PairTyped
<1>1. PICK m : Chain(l, id, a, m) /\ (Reads(c) => \E n : Chain(r, id, m, n) /\ Agrees(n))
  BY Zenon DEF Coming
<1>2. a \in Nat /\ m \in Nat
  BY Zenon, <1>0, <1>1, ChainFacts
<1>3. SUFFICES ASSUME NEW Plugged, Plugged = plugged'[c]
               PROVE  \E k : /\ Chain(l1, id, a, k)
                             /\ Reads(c)' => \E n : Chain(r1, id, k, n) /\ (Plugged => Agrees(n))
  <2>1. PICK k : /\ Chain(l1, id, a, k)
                 /\ Reads(c)' => \E n : Chain(r1, id, k, n) /\ (plugged'[c] => Agrees(n))
    BY Zenon, <1>3
  <2>2. \A n : (plugged'[c] => Agrees(n)) =>
           (plugged'[c] /\ host'[c].rid = sock'[id].rid => host'[c].sent = n)
    BY Zenon DEF Carried
  <2>3. Chain(toLoop'[c], id, Pos(id)', k)
    BY Zenon, <2>1
  <2>4. Chain(toLoop[c], id, Pos(id), k)'
    BY Zenon, <2>3 DEF Chain
  <2>5. \A n : Chain(rx'[c], id, k, n) => Chain(rx[c], id, k, n)'
    BY Zenon DEF Chain
  <2>6. Reads(c)' => \E n : /\ Chain(rx[c], id, k, n)'
                            /\ plugged'[c] /\ host'[c].rid = sock'[id].rid => host'[c].sent = n
    BY Zenon, <2>1, <2>2, <2>5
  <2> QED
    BY Zenon, <2>4, <2>6 DEF Coming
<1>4. /\ Reads(c)' => Reads(c)
      /\ \/ r1 = r /\ l1 = l
         \/ r1 = r /\ \E p \in Packets : p.cmd = "SYNC" /\ l1 = Append(l, p)
         \/ Reads(c) /\ r # << >> /\ r1 = Tail(r) /\ l1 = Append(l, Head(r))
         \/ ~Reads(c)' /\ l1 = l
         \/ r1 = << >> /\ ~Plugged /\ l1 = l
         \/ r1 = r /\ l # << >> /\ l1 = Tail(l) /\ ~ForSocket(Head(l), id)
  BY Zenon, <1>3 DEF Carried
<1> HIDE DEF r, l, r1, l1, a, Agrees
<1>5. CASE r1 = r /\ l1 = l
  BY Zenon, <1>1, <1>4, <1>5
<1>6. CASE r1 = r /\ \E p \in Packets : p.cmd = "SYNC" /\ l1 = Append(l, p)
  <2>1. PICK p \in Packets : p.cmd = "SYNC" /\ l1 = Append(l, p)
    BY Zenon, <1>6
  <2>2. Leads(p, id, m, m)
    BY <2>1 DEF Leads, ForSocket
  <2>3. Chain(l1, id, a, m)
    BY Zenon, <1>0, <1>1, <1>2, <2>1, <2>2, ChainFacts
  <2> QED
    BY Zenon, <1>1, <1>4, <1>6, <2>3
<1>7. CASE Reads(c) /\ r # << >> /\ r1 = Tail(r) /\ l1 = Append(l, Head(r))
  <2>1. PICK n : Chain(r, id, m, n) /\ Agrees(n)
    BY Zenon, <1>1, <1>7
  <2>2. PICK d \in Nat : Leads(Head(r), id, m, d) /\ Chain(r1, id, d, n)
    BY Zenon, <1>0, <1>7, <2>1, ChainFacts
  <2>3. Head(r) \in Packets
    BY Zenon, <1>0, <1>7, TailFacts
  <2>4. Chain(l1, id, a, d)
    BY Zenon, <1>0, <1>1, <1>7, <2>2, <2>3, ChainGrows
  <2> QED
    BY Zenon, <2>1, <2>2, <2>4
<1>8. CASE ~Reads(c)' /\ l1 = l
  BY Zenon, <1>1, <1>8
<1>9. CASE r1 = << >> /\ ~Plugged /\ l1 = l
  <2>1. << >> \in Seq(Packets)
    OBVIOUS
  <2>2. Chain(r1, id, m, m)
    BY Zenon, <1>2, <1>9, <2>1, ChainFacts, ItemsFacts
  <2> QED
    BY Zenon, <1>1, <1>9, <2>2
<1>10. CASE r1 = r /\ l # << >> /\ l1 = Tail(l) /\ ~ForSocket(Head(l), id)
  <2>1. PICK d \in Nat : Leads(Head(l), id, a, d) /\ Chain(l1, id, d, m)
    BY Zenon, <1>0, <1>1, <1>10, ChainFacts
  <2>2. d = a
    BY Zenon, <1>10, <2>1 DEF Leads
  <2> QED
    BY Zenon, <1>1, <1>4, <1>10, <2>1, <2>2
<1> QED
  BY Zenon, <1>4, <1>5, <1>6, <1>7, <1>8, <1>9, <1>10

(* The sockets keep their streams, and what they hold of them.             *)
SameSock(id) ==
    /\ sock'[id].rid = sock[id].rid
    /\ sock'[id].peer = sock[id].peer \/ sock'[id].peer = 0
    /\ sock'[id].st = "open" => sock[id].st = "open" /\ sock'[id].peer = sock[id].peer
    /\ InUse(id)' => InUse(id)

LEMMA StreamKept ==
  ASSUME Typed, NEW id \in Id, SameSock(id), UNCHANGED <<svc, host>>,
         Held(id) => Held(id)' /\ (sock'[id].st = "open" => Pos(id)' = Pos(id)),
         \A c \in Conn : sock'[id].st = "open" /\ sock'[id].peer = c => Carried(c, id), Stream(id)
  PROVE  Stream(id)'
<1>1. SUFFICES ASSUME Live(id)', Held(id), NEW c \in Conn, sock'[id].st = "open", sock'[id].peer = c
               PROVE  Coming(id, c)'
  BY Zenon DEF Stream, Live
<1>2. LinkTyped /\ PairTyped
  BY Zenon DEF Typed
<1>3. /\ sock[id].st = "open" /\ sock[id].peer = c /\ Pos(id)' = Pos(id)
      /\ sock'[id].rid = sock[id].rid
  BY Zenon, <1>1 DEF SameSock
<1>4. Coming(id, c)
  BY Zenon, <1>1, <1>3 DEF Stream, Live
<1>6. Carried(c, id) /\ host' = host
  BY Zenon, <1>1
<1> QED
  BY Zenon, <1>2, <1>3, <1>4, <1>6, ComingKept

(* What nearly all steps of the process do, and that it keeps StreamInv.   *)
SentGood(c) == \A p \in Items(toInput'[c]) \cup Items(tx'[c]) : GoodOut(p)
Stays(c) ==
    OfTransport(c)' # {} /\ Online(c) /\ tr[c].st = "registered" =>
        Online(c)' /\ tr'[c].st = "registered"
Quiet ==
    /\ UNCHANGED <<nextId, svc, file, overlap, exited, host, opens>>
    /\ plugged' \in [Conn -> BOOLEAN]
    /\ \A c \in Conn : Moved(c) /\ SentGood(c) /\ Kicked(c)' /\ Stays(c)
    /\ \A id \in Id : SameSock(id) /\ (Stream(id) => Stream(id)')

LEMMA QuietKeeps ==
  ASSUME Typed, StreamInv, Quiet
  PROVE  StreamInv'
<1>0. /\ UNCHANGED <<nextId, svc, file, overlap, exited, host, opens>>
      /\ plugged' \in [Conn -> BOOLEAN]
      /\ \A c \in Conn : Moved(c) /\ SentGood(c) /\ Kicked(c)' /\ Stays(c)
      /\ \A id \in Id : SameSock(id) /\ (Stream(id) => Stream(id)')
  BY Zenon DEF Quiet
<1>1. /\ \A c \in Conn : Attached(c)
      /\ \A id \in Id : SockLife(id) /\ Stream(id)
      /\ QueuesGood /\ AskedOnce /\ StreamNames /\ SvcTyped /\ SvcInv /\ FileInv
  BY Zenon DEF StreamInv
<1>2. \A c \in Conn : c # 0
  BY Bounds DEF Conn
<1>3. /\ nextId' = nextId /\ svc' = svc /\ file' = file /\ overlap' = overlap /\ exited' = exited
      /\ host' = host /\ opens' = opens
  BY Zenon, <1>0
<1>4. \A id \in Id : /\ sock'[id].rid = sock[id].rid
                     /\ sock'[id].peer = sock[id].peer \/ sock'[id].peer = 0
  BY Zenon, <1>0 DEF SameSock
<1>5. ASSUME NEW c \in Conn
      PROVE  Attached(c)'
  <2>1. OfTransport(c)' \subseteq OfTransport(c)
    BY Zenon, <1>2, <1>4 DEF OfTransport
  <2> QED
    BY Zenon, <1>0, <1>1, <2>1 DEF Attached, Stays
<1>6. ASSUME NEW id \in Id
      PROVE  SockLife(id)'
  BY Zenon, <1>0, <1>1, <1>3 DEF SockLife, SameSock
<1>7. QueuesGood'
  <2>1. ASSUME NEW c \in Conn, NEW p, GoodIn(c, p)
        PROVE  GoodIn(c, p)'
    BY Zenon, <1>3, <1>4, <2>1 DEF GoodIn
  <2>2. ASSUME NEW c \in Conn, NEW p, p.cmd = "SYNC"
        PROVE  GoodIn(c, p)'
    BY <2>2 DEF GoodIn
  <2>3. ASSUME NEW c \in Conn, NEW p \in Items(rx'[c]) \cup Items(toLoop'[c])
        PROVE  GoodIn(c, p)'
    <3>1. p.cmd = "SYNC" \/ p \in Items(rx[c]) \cup Items(toLoop[c])
      BY Zenon, <1>0, MovedKeeps DEF Typed
    <3> QED
      BY Zenon, <1>1, <2>1, <2>2, <3>1 DEF QueuesGood
  <2>4. ASSUME NEW p, GoodOut(p)
        PROVE  GoodOut(p)'
    BY Zenon, <1>3, <1>4, <2>4 DEF GoodOut
  <2>5. ASSUME NEW c \in Conn, NEW p \in Items(toInput'[c]) \cup Items(tx'[c])
        PROVE  GoodOut(p)'
    BY Zenon, <1>0, <2>4 DEF SentGood
  <2> QED
    BY Zenon, <2>3, <2>5 DEF QueuesGood, Items
<1>8. AskedOnce'
  <2>1. ASSUME NEW c \in Conn
        PROVE  /\ Once(rx'[c]) /\ Once(toLoop'[c]) /\ OpensIn(rx'[c]) \cap OpensIn(toLoop'[c]) = {}
               /\ Asked(c)' \subseteq Asked(c)
    <3>1. Once(rx[c]) /\ Once(toLoop[c]) /\ OpensIn(rx[c]) \cap OpensIn(toLoop[c]) = {}
      BY Zenon, <1>1 DEF AskedOnce
    <3> QED
      BY Zenon, <1>0, <3>1, MovedKeeps DEF Typed
  <2>2. \A c \in Conn : /\ Once(rx[c])' /\ Once(toLoop[c])'
                        /\ (OpensIn(rx[c]) \cap OpensIn(toLoop[c]))' = {}
    BY Zenon, <2>1 DEF Once, OpensIn, Items
  <2>3. \A c, d \in Conn : c # d => Asked(c)' \cap Asked(d)' = {}
    BY Zenon, <1>1, <2>1 DEF AskedOnce
  <2> QED
    BY Zenon, <2>2, <2>3 DEF AskedOnce
<1>9. StreamNames'
  BY ZenonT(60), <1>1, <1>3, <1>4 DEF StreamNames
<1>10. SvcTyped' /\ SvcInv' /\ FileInv'
  <2>1. SvcTyped'
    BY Zenon, <1>0, <1>1, <1>3 DEF SvcTyped
  <2>2. SvcInv'
    BY Zenon, <1>1, <1>3 DEF SvcInv
  <2>3. \A id : Running(id)' = Running(id) /\ Writer(id)' = Writer(id)
    BY Zenon, <1>3 DEF Running, Writer
  <2>4. FileInv'
    BY Zenon, <1>1, <1>3, <2>3 DEF FileInv
  <2> QED
    BY Zenon, <2>1, <2>2, <2>4
<1> QED
  BY Zenon, <1>0, <1>1, <1>5, <1>6, <1>7, <1>8, <1>9, <1>10 DEF StreamInv

(* StreamInv says what CompletePackage says.                               *)
LEMMA StreamComplete ==
  ASSUME StreamInv
  PROVE  CompletePackage
<1>1. SvcInv /\ FileInv
  BY Zenon DEF StreamInv
<1>2. ASSUME exited, ~overlap
      PROVE  \E id \in Id : \A k \in 1 .. Count : file[k] = <<id, k>>
  <2>1. PICK id \in Id : svc[id].pc = "exit"
    BY Zenon, <1>1, <1>2 DEF SvcInv
  <2>2. svc[id].got = Count /\ Writer(id)
    BY <1>1, <2>1 DEF SvcInv, Writer
  <2>3. \A k \in 1 .. svc[id].got : file[k] = <<id, k>>
    BY Zenon, <1>1, <1>2, <2>2 DEF FileInv
  <2> QED
    BY Zenon, <2>2, <2>3
<1> QED
  BY Zenon, <1>2 DEF CompletePackage

(* It holds at the start.                                                  *)
LEMMA StreamInit ==
  ASSUME Init
  PROVE  StreamInv
<1>1. /\ plugged = [c \in Conn |-> FALSE] /\ rx = [c \in Conn |-> << >>] /\ tx = rx /\ toLoop = rx
      /\ toInput = rx /\ tr = [c \in Conn |-> NoTransport]
      /\ sock = [id \in Id |-> NoSock] /\ nextId = 1 /\ file = NoFile /\ exited = FALSE
      /\ svc = [id \in Id |-> [pc |-> "none", got |-> 0]]
      /\ host = [c \in Conn |-> [pc |-> "idle", rid |-> 0, lid |-> 0, sent |-> 0]] /\ opens = 0
  BY DEF Init
<1>2. \A id \in Id : /\ sock[id].st = "none" /\ sock[id].peer = 0 /\ sock[id].rid = 0
                     /\ svc[id].pc = "none" /\ svc[id].got = 0
  BY <1>1 DEF NoSock
<1>3. \A c \in Conn : /\ rx[c] = << >> /\ tx[c] = << >> /\ toLoop[c] = << >> /\ toInput[c] = << >>
                      /\ host[c].pc = "idle" /\ host[c].rid = 0
                      /\ OfTransport(c) = {} /\ FirstKick(c) /\ c # 0
  BY <1>1, <1>2, Bounds DEF OfTransport, FirstKick, NoTransport, Conn
<1>4. Items(<< >>) = {} /\ OpensIn(<< >>) = {} /\ Once(<< >>)
  BY DEF Items, OpensIn, Once
<1>5. QueuesGood /\ AskedOnce
  BY Zenon, <1>3, <1>4 DEF QueuesGood, AskedOnce, Asked
<1>6. StreamNames
  BY <1>1, <1>2, <1>3 DEF StreamNames
<1>7. \A id \in Id : SockLife(id) /\ Stream(id) /\ ~Running(id) /\ ~Writer(id)
  BY <1>2 DEF SockLife, InUse, Stream, Live, Running, Writer
<1>8. SvcTyped
  BY <1>1, Bounds DEF SvcTyped, NoFile
<1>9. SvcInv /\ FileInv
  BY <1>1, <1>2, <1>7 DEF SvcInv, FileInv
<1>10. \A c \in Conn : Kicked(c) /\ Attached(c)
  BY Zenon, <1>3 DEF Kicked, Attached
<1> QED
  BY Zenon, <1>5, <1>6, <1>7, <1>8, <1>9, <1>10 DEF StreamInv

-----------------------------------------------------------------------------
(* The same, in terms of what the steps do.                                *)
SameHeld(id) ==
    /\ SameSock(id)
    /\ Held(id) => Held(id)' /\ (sock'[id].st = "open" => Pos(id)' = Pos(id))

LEMMA QuietSteps ==
  ASSUME Typed, StreamInv, UNCHANGED <<nextId, svc, file, overlap, exited, host, opens>>,
         plugged' \in [Conn -> BOOLEAN],
         \A c \in Conn : Moved(c) /\ SentGood(c) /\ Kicked(c)' /\ Stays(c),
         \A id \in Id : SameHeld(id),
         \A id \in Id, c \in Conn : sock'[id].st = "open" /\ sock'[id].peer = c => Carried(c, id)
  PROVE  StreamInv'
<1>1. UNCHANGED <<svc, host>>
  BY Zenon
<1>2. \A id \in Id : SameSock(id) /\ (Stream(id) => Stream(id)')
  BY Zenon, <1>1, StreamKept DEF SameHeld
<1>3. Quiet
  BY Zenon, <1>2 DEF Quiet
<1> QED
  BY Zenon, <1>3, QuietKeeps

LEMMA SocksStay ==
  ASSUME UNCHANGED <<sock, chan, svc>>, NEW id
  PROVE  SameHeld(id)
  BY Zenon DEF SameHeld, SameSock, Held, Pos, From, InUse

LEMMA QueuesStay ==
  ASSUME NEW c, rx'[c] = rx[c], toLoop'[c] = toLoop[c], plugged'[c] = plugged[c], Reads(c)' => Reads(c)
  PROVE  Moved(c) /\ \A id : Carried(c, id)
  BY Zenon DEF Moved, Carried

LEMMA SentStays ==
  ASSUME StreamInv, NEW c \in Conn, toInput'[c] = toInput[c], tx'[c] = tx[c]
  PROVE  SentGood(c)
  BY Zenon DEF StreamInv, QueuesGood, SentGood

LEMMA KickStays ==
  ASSUME StreamInv, NEW c \in Conn, FirstKick(c)' <=> FirstKick(c),
         outPc[c] \in Kicks => outPc'[c] \in Kicks, inPc[c] \in Kicks => inPc'[c] \in Kicks
  PROVE  Kicked(c)'
  BY Zenon DEF StreamInv, Kicked

LEMMA TransportStays ==
  ASSUME NEW c, tr'[c].cs = tr[c].cs, tr'[c].st = tr[c].st
  PROVE  Stays(c)
  BY Zenon DEF Stays, Online

LEMMA SendsGood ==
  ASSUME Typed, StreamInv, NEW c \in Conn, NEW ps \in Seq(Packets), toInput' = Sent(c, ps),
         UNCHANGED tx, \A p \in Items(ps) : GoodOut(p), NEW d \in Conn
  PROVE  SentGood(d)
<1>1. toInput[c] \in Seq(Packets) /\ toInput \in [Conn -> Seq(Packets)]
  BY DEF Typed, PairTyped
<1>2. toInput' = [toInput EXCEPT ![c] = @ \o ps]
  BY Zenon DEF Sent
<1>3. CASE d # c
  <2>1. toInput'[d] = toInput[d] /\ tx'[d] = tx[d]
    BY <1>1, <1>2, <1>3
  <2> QED
    BY Zenon, <2>1, SentStays
<1>4. CASE d = c
  <2>1. toInput'[c] = toInput[c] \o ps /\ tx'[c] = tx[c]
    BY <1>1, <1>2
  <2>2. Items(toInput[c] \o ps) = Items(toInput[c]) \cup Items(ps)
    BY Zenon, <1>1, JoinItems
  <2> QED
    BY Zenon, <1>4, <2>1, <2>2 DEF SentGood, StreamInv, QueuesGood
<1> QED
  BY Zenon, <1>3, <1>4

(* close of sockets keeps what they hold, or frees it.                     *)
LEMMA CloseHolds ==
  ASSUME Typed, NEW ids \in SUBSET Id, sock' = ClosedSocks(ids), chan' = ClosedChans(ids),
         UNCHANGED svc, \A j \in ids : InUse(j), NEW id \in Id
  PROVE  SameHeld(id) /\ (id \in ids => sock'[id].peer = 0 /\ sock'[id].st # "open")
<1>0. sock \in [Id -> Socks] /\ chan \in [Id -> Chans] /\ sock[id] \in Socks /\ chan[id] \in Chans
  BY Zenon DEF Typed, SockTyped, ChanTyped
<1>1. chan'[id].down = chan[id].down
  BY Zenon, <1>0 DEF ClosedChans, Chans
<1>2. CASE id \notin ids
  <2>1. sock'[id] = sock[id]
    BY Zenon, <1>2 DEF ClosedSocks
  <2> QED
    BY Zenon, <1>1, <1>2, <2>1 DEF SameHeld, SameSock, Held, Pos, From, InUse
<1>3. CASE id \in ids
  <2>0. sock'[id] = IF Destroyed(sock[id])
                    THEN [sock[id] EXCEPT !.st = "freed", !.peer = 0, !.pkts = << >>]
                    ELSE [sock[id] EXCEPT !.st = "closing", !.peer = 0]
    BY Zenon, <1>3 DEF ClosedSocks
  <2>1. /\ sock'[id].rid = sock[id].rid /\ sock'[id].peer = 0
        /\ sock'[id].st \in {"freed", "closing"}
        /\ sock'[id].pkts = sock[id].pkts \/ sock'[id].pkts = << >>
    BY <1>0, <2>0 DEF Socks
  <2>2. InUse(id) /\ sock'[id].st # "open"
    BY <1>3, <2>1
  <2>3. Held(id) => Held(id)'
    <3>1. CASE sock'[id].pkts = sock[id].pkts
      BY Zenon, <1>1, <3>1 DEF Held, From
    <3>2. CASE sock'[id].pkts = << >>
      <4>1. \A a : From(<< >>, a)
        BY DEF From
      <4> QED
        BY ZenonT(60), <1>1, <3>2, <4>1 DEF Held, From
    <3> QED
      BY Zenon, <2>1, <3>1, <3>2
  <2> QED
    BY Zenon, <2>1, <2>2, <2>3 DEF SameHeld, SameSock
<1> QED
  BY Zenon, <1>2, <1>3

-----------------------------------------------------------------------------
(* The threads of a connection.                                            *)
LEMMA UsbThreadStream ==
  ASSUME AdbInv, StreamInv, OpenUsb \/ RegisterTransport
  PROVE  StreamInv'
<1>0. Typed /\ \A c \in Conn : ConnLife(c) /\ Attached(c)
  BY Zenon DEF AdbInv, LifeInv, StreamInv
<1>1. UNCHANGED <<rx, tx, tr, outPc, inPc, toLoop, toInput, sock, nextId, chan, svc, file,
                  overlap, exited, host, opens>>
  BY DEF OpenUsb, RegisterTransport, link, threads, service, hosts
<1>2. \/ UNCHANGED plugged
      \/ last < Conns /\ plugged' = [plugged EXCEPT ![last + 1] = TRUE]
  BY Zenon DEF OpenUsb, RegisterTransport, link
<1>3. plugged' \in [Conn -> BOOLEAN]
  BY Zenon, <1>2 DEF StreamInv, SvcTyped
<1>4. ASSUME NEW c \in Conn
      PROVE  /\ Moved(c) /\ SentGood(c) /\ Kicked(c)' /\ Stays(c)
             /\ OfTransport(c)' # {} => \A id \in Id : Carried(c, id)
  <2>1. Moved(c)
    BY Zenon, <1>1 DEF Moved
  <2>2. SentGood(c) /\ Kicked(c)' /\ Stays(c)
    BY Zenon, <1>1, SentStays, KickStays, TransportStays DEF FirstKick
  <2>3. ASSUME OfTransport(c)' # {}
        PROVE  plugged'[c] = plugged[c]
    <3>1. OfTransport(c) # {}
      BY Zenon, <1>1, <2>3 DEF OfTransport
    <3>2. tr[c].st = "registered"
      BY Zenon, <1>0, <3>1 DEF Attached
    <3>3. ~Unannounced(c)
      BY <1>0, <3>2 DEF ConnLife, Unstarted
    <3>4. c # last + 1
      BY <1>0, <3>3 DEF Unannounced, Conn, Typed, UsbTyped
    <3>5. DOMAIN plugged = Conn
      BY Zenon DEF StreamInv, SvcTyped
    <3> QED
      BY Zenon, <1>2, <3>4, <3>5
  <2>4. ASSUME OfTransport(c)' # {}
        PROVE  \A id \in Id : Carried(c, id)
    BY Zenon, <1>1, <2>3, <2>4, QueuesStay DEF Reads
  <2> QED
    BY Zenon, <2>1, <2>2, <2>4
<1>5. \A id \in Id, c \in Conn : sock'[id].peer = c => OfTransport(c)' # {}
  BY Zenon DEF OfTransport
<1>6. \A id \in Id : SameHeld(id)
  BY Zenon, <1>1, SocksStay
<1> QED
  BY Zenon, <1>0, <1>1, <1>3, <1>4, <1>5, <1>6, QuietSteps

LEMMA IdleStream ==
  ASSUME Typed, StreamInv,
         UNCHANGED <<plugged, rx, tx, toLoop, toInput, sock, nextId, chan, svc, file, overlap, exited,
                     host, opens>>,
         \A c \in Conn : Kicked(c)' /\ Stays(c) /\ (OfTransport(c) = {} \/ (Reads(c)' => Reads(c)))
  PROVE  StreamInv'
<1>1. /\ plugged' = plugged /\ rx' = rx /\ tx' = tx /\ toLoop' = toLoop /\ toInput' = toInput
      /\ sock' = sock /\ chan' = chan /\ svc' = svc
      /\ UNCHANGED <<nextId, svc, file, overlap, exited, host, opens>>
  BY Zenon
<1>2. plugged' \in [Conn -> BOOLEAN]
  BY Zenon, <1>1 DEF StreamInv, SvcTyped
<1>3. \A c \in Conn : Moved(c) /\ SentGood(c) /\ Kicked(c)' /\ Stays(c)
  BY Zenon, <1>1, SentStays DEF Moved
<1>4. ASSUME NEW id \in Id, NEW c \in Conn, sock'[id].peer = c
      PROVE  Carried(c, id)
  <2>1. id \in OfTransport(c)
    BY Zenon, <1>1, <1>4 DEF OfTransport
  <2> QED
    BY Zenon, <1>1, <2>1, QueuesStay
<1>5. \A id \in Id : SameHeld(id)
  BY Zenon, <1>1, SocksStay
<1> QED
  BY Zenon, <1>1, <1>2, <1>3, <1>4, <1>5, QuietSteps

LEMMA SameStream ==
  ASSUME Typed, StreamInv,
         UNCHANGED <<plugged, rx, tx, toLoop, toInput, sock, nextId, chan, svc, file, overlap, exited,
                     host, opens, tr, outPc, inPc>>
  PROVE  StreamInv'
<1>1. \A c \in Conn : Kicked(c)' /\ Stays(c) /\ (Reads(c)' => Reads(c))
  BY Zenon, KickStays, TransportStays DEF FirstKick, Reads
<1> QED
  BY Zenon, <1>1, IdleStream

LEMMA EndOfThreadStream ==
  ASSUME AdbInv, StreamInv, NEW c \in Conn, KickOrUnref(c)
  PROVE  StreamInv'
<1>0. Typed /\ tr \in [Conn -> Transports] /\ outPc \in [Conn -> OutPcs] /\ inPc \in [Conn -> InPcs]
  BY DEF AdbInv, Typed, TrTyped, PcTyped
<1>1. UNCHANGED <<plugged, rx, tx, toLoop, toInput, sock, nextId, chan, svc, file, overlap, exited,
                  host, opens>>
  BY DEF KickOrUnref, KickTransport, UsbKick, TransportUnref, link, service, hosts
<1>2. \/ \E s \in Kicks : outPc' = [outPc EXCEPT ![c] = s] /\ UNCHANGED inPc
      \/ \E s \in Kicks : inPc' = [inPc EXCEPT ![c] = s] /\ UNCHANGED outPc
  BY DEF KickOrUnref, KickTransport, UsbKick, TransportUnref, Kicks
<1>3. \/ tr' = [tr EXCEPT ![c].kicked = TRUE]
      \/ tr' = [tr EXCEPT ![c].ref = @ - 1]
      \/ UNCHANGED tr
  BY Zenon DEF KickOrUnref, KickTransport, UsbKick, TransportUnref
<1>4. ASSUME NEW d \in Conn
      PROVE  Kicked(d)' /\ Stays(d) /\ (Reads(d)' => Reads(d))
  <2>1. Stays(d)
    <3>1. tr'[d].cs = tr[d].cs /\ tr'[d].st = tr[d].st
      BY <1>0, <1>3 DEF Transports
    <3> QED
      BY Zenon, <3>1, TransportStays
  <2>2. CASE d = c
    <3>1. (outPc'[d] \in Kicks /\ inPc'[d] = inPc[d]) \/ (inPc'[d] \in Kicks /\ outPc'[d] = outPc[d])
      BY <1>0, <1>2, <2>2
    <3>2. Kicked(d)'
      BY Zenon, <3>1 DEF Kicked
    <3>3. Reads(d)' => Reads(d)
      BY <3>1 DEF Reads, Kicks
    <3> QED
      BY Zenon, <2>1, <3>2, <3>3
  <2>3. CASE d # c
    <3>1. tr'[d] = tr[d] /\ outPc'[d] = outPc[d] /\ inPc'[d] = inPc[d]
      BY <1>0, <1>2, <1>3, <2>3
    <3> QED
      BY Zenon, <2>1, <3>1, KickStays DEF FirstKick, Reads
  <2> QED
    BY Zenon, <2>2, <2>3
<1> QED
  BY Zenon, <1>0, <1>1, <1>4, IdleStream

(* A transport whose thread reads has the device.                          *)
LEMMA ReadsOwn ==
  ASSUME AdbInv, StreamInv, NEW c \in Conn, outPc[c] = "read"
  PROVE  usbFd = c
<1>1. ConnLife(c) /\ PacketsOf(c) /\ Kicked(c) /\ UsbTyped
  BY Zenon DEF AdbInv, LifeInv, PacketInv, StreamInv, Typed
<1>2. ~Unannounced(c)
  BY <1>1 DEF ConnLife, Unstarted
<1>3. c <= last
  BY <1>1, <1>2 DEF Unannounced, UsbTyped, Conn
<1>4. ~Stopping(c)
  BY DEF Stopping
<1>5. inPc[c] \notin Kicks /\ outPc[c] \notin Kicks
  BY <1>1, <1>4 DEF PacketsOf, Over, Kicks
<1>6. FirstKick(c)
  BY Zenon, <1>1, <1>5 DEF Kicked
<1> QED
  BY <1>1, <1>3, <1>6 DEF ConnLife

LEMMA OutputThreadStream ==
  ASSUME AdbInv, StreamInv, NEW c \in Conn, OutputThread(c)
  PROVE  StreamInv'
<1>0. /\ Typed /\ outPc \in [Conn -> OutPcs] /\ rx \in [Conn -> Seq(Packets)]
      /\ toLoop \in [Conn -> Seq(Packets)]
  BY DEF AdbInv, Typed, PcTyped, LinkTyped, PairTyped
<1>1. UNCHANGED <<plugged, tx, tr, inPc, toInput, sock, nextId, chan, svc, file, overlap, exited, host,
                  opens>>
  BY DEF OutputThread, OutputSync, OutputRead, OutputReadFails, link, threads, service, hosts
<1>2. \/ /\ outPc[c] \in {"sync", "offline"} /\ UNCHANGED rx
         /\ \E x \in {0, 1} : toLoop' = [toLoop EXCEPT ![c] = Append(@, Pkt("SYNC", x, 0))]
         /\ outPc' = [outPc EXCEPT ![c] = IF outPc[c] = "sync" THEN "read" ELSE "kick"]
      \/ /\ outPc[c] = "read" /\ Readable /\ rx' = [rx EXCEPT ![usbFd] = Tail(@)]
         /\ toLoop' = [toLoop EXCEPT ![c] = Append(@, Head(rx[usbFd]))] /\ UNCHANGED outPc
      \/ /\ outPc[c] = "read" /\ outPc' = [outPc EXCEPT ![c] = "offline"] /\ UNCHANGED toLoop
         /\ UNCHANGED rx \/ (Readable /\ rx' = [rx EXCEPT ![usbFd] = Tail(@)])
  BY DEF OutputThread, OutputSync, OutputRead, OutputReadFails, link, threads
<1>3. ASSUME NEW d \in Conn, d # c
      PROVE  rx'[d] = rx[d] /\ toLoop'[d] = toLoop[d] /\ outPc'[d] = outPc[d]
  BY <1>0, <1>2, <1>3, ReadsOwn
<1>4. Readable => rx[usbFd] # << >>
  BY DEF Readable
<1>5. /\ Moved(c) /\ \A id \in Id : Carried(c, id)
      /\ outPc[c] \notin Kicks
  <2>1. plugged'[c] = plugged[c]
    BY Zenon, <1>1
  <2>2. CASE /\ outPc[c] \in {"sync", "offline"} /\ UNCHANGED rx
             /\ \E x \in {0, 1} : toLoop' = [toLoop EXCEPT ![c] = Append(@, Pkt("SYNC", x, 0))]
             /\ outPc' = [outPc EXCEPT ![c] = IF outPc[c] = "sync" THEN "read" ELSE "kick"]
    <3>1. PICK x \in {0, 1} : toLoop' = [toLoop EXCEPT ![c] = Append(@, Pkt("SYNC", x, 0))]
      BY Zenon, <2>2
    <3>2. Pkt("SYNC", x, 0) \in Packets /\ Pkt("SYNC", x, 0).cmd = "SYNC"
      BY SMTT(20), SeqNone, PacketTypes
    <3>3. rx'[c] = rx[c] /\ toLoop'[c] = Append(toLoop[c], Pkt("SYNC", x, 0))
      BY ZenonT(60), <1>0, <2>2, <3>1
    <3>4. Reads(c)' => Reads(c)
      BY <1>0, <2>2 DEF Reads
    <3>5. outPc[c] \notin Kicks
      BY <2>2 DEF Kicks
    <3> QED
      BY ZenonT(60), <2>1, <3>2, <3>3, <3>4, <3>5 DEF Moved, Carried
  <2>3. CASE /\ outPc[c] = "read" /\ Readable /\ rx' = [rx EXCEPT ![usbFd] = Tail(@)]
             /\ toLoop' = [toLoop EXCEPT ![c] = Append(@, Head(rx[usbFd]))] /\ UNCHANGED outPc
    <3>1. usbFd = c
      BY Zenon, <2>3, ReadsOwn
    <3>2. /\ rx[c] # << >> /\ rx'[c] = Tail(rx[c]) /\ toLoop'[c] = Append(toLoop[c], Head(rx[c]))
      BY Zenon, <1>0, <1>4, <2>3, <3>1
    <3>3. Reads(c) /\ (Reads(c)' => Reads(c)) /\ outPc[c] \notin Kicks
      BY <2>3 DEF Reads, Kicks
    <3> QED
      BY Zenon, <2>1, <3>2, <3>3 DEF Moved, Carried
  <2>4. CASE /\ outPc[c] = "read" /\ outPc' = [outPc EXCEPT ![c] = "offline"] /\ UNCHANGED toLoop
             /\ UNCHANGED rx \/ (Readable /\ rx' = [rx EXCEPT ![usbFd] = Tail(@)])
    <3>1. usbFd = c
      BY Zenon, <2>4, ReadsOwn
    <3>2. /\ toLoop'[c] = toLoop[c]
          /\ rx'[c] = rx[c] \/ (rx[c] # << >> /\ rx'[c] = Tail(rx[c]))
      BY Zenon, <1>0, <1>4, <2>4, <3>1
    <3>3. ~Reads(c)' /\ outPc[c] \notin Kicks
      BY <1>0, <2>4 DEF Reads, Kicks
    <3> QED
      BY Zenon, <2>1, <3>2, <3>3 DEF Moved, Carried
  <2> QED
    BY Zenon, <1>2, <2>2, <2>3, <2>4
<1>6. ASSUME NEW d \in Conn
      PROVE  Moved(d) /\ SentGood(d) /\ Kicked(d)' /\ Stays(d) /\ \A id \in Id : Carried(d, id)
  <2>1. SentGood(d) /\ Stays(d)
    BY Zenon, <1>1, SentStays, TransportStays
  <2>2. Kicked(d)'
    <3>1. outPc[d] \in Kicks => outPc'[d] \in Kicks
      BY Zenon, <1>3, <1>5
    <3> QED
      BY ZenonT(60), <1>1, <3>1, KickStays DEF FirstKick
  <2>3. Moved(d) /\ \A id \in Id : Carried(d, id)
    <3>1. CASE d = c
      BY Zenon, <1>5, <3>1
    <3>2. CASE d # c
      BY ZenonT(60), <1>1, <1>3, <3>2, QueuesStay DEF Reads
    <3> QED
      BY Zenon, <3>1, <3>2
  <2> QED
    BY Zenon, <2>1, <2>2, <2>3
<1>7. \A id \in Id : SameHeld(id)
  BY Zenon, <1>1, SocksStay
<1>8. plugged' \in [Conn -> BOOLEAN]
  BY Zenon, <1>1 DEF StreamInv, SvcTyped
<1>9. UNCHANGED <<nextId, svc, file, overlap, exited, host, opens>>
  BY Zenon, <1>1
<1> QED
  BY Zenon, <1>0, <1>6, <1>7, <1>8, <1>9, QuietSteps

LEMMA InputThreadStream ==
  ASSUME AdbInv, StreamInv, NEW c \in Conn, InputThread(c)
  PROVE  StreamInv'
<1>0. /\ Typed /\ inPc \in [Conn -> InPcs] /\ tr \in [Conn -> Transports]
      /\ tx \in [Conn -> Seq(Packets)] /\ toInput \in [Conn -> Seq(Packets)] /\ QueuesGood
  BY DEF AdbInv, Typed, TrTyped, PcTyped, LinkTyped, PairTyped, StreamInv
<1>1. UNCHANGED <<plugged, rx, outPc, toLoop, nextId, svc, file, overlap, exited, host, opens>>
  BY DEF InputThread, InputRead, CloseAllSockets, link, service, hosts
<1>2. \/ inPc[c] \notin Kicks /\ \E s : inPc' = [inPc EXCEPT ![c] = s]
      \/ UNCHANGED inPc
  BY DEF InputThread, InputRead, CloseAllSockets, Kicks
<1>3. UNCHANGED tr \/ tr' = [tr EXCEPT ![c].active = TRUE]
  BY Zenon DEF InputThread, InputRead, CloseAllSockets
<1>4. \A d \in Conn : SentGood(d)
  <2>1. CASE CloseAllSockets(c)
    <3>1. UNCHANGED <<tx, toInput>>
      BY Zenon, <2>1 DEF CloseAllSockets, link
    <3> QED
      BY Zenon, <3>1, SentStays
  <2>2. CASE InputRead(c)
    <3> DEFINE p == Head(toInput[c])
    <3>1. /\ toInput[c] # << >> /\ toInput' = [toInput EXCEPT ![c] = Tail(@)]
          /\ UNCHANGED tx \/ (usbFd # 0 /\ tx' = [tx EXCEPT ![usbFd] = Append(@, p)])
      BY <2>2 DEF InputRead, RemoteWrite, Linked
    <3>2. /\ p \in Items(toInput[c]) /\ Items(Tail(toInput[c])) \subseteq Items(toInput[c])
          /\ p \in Packets
      BY Zenon, <1>0, <3>1, ItemsFacts, TailFacts
    <3>3. GoodOut(p)
      BY Zenon, <1>0, <3>2 DEF QueuesGood
    <3>4. ASSUME NEW d \in Conn
          PROVE  Items(toInput'[d]) \subseteq Items(toInput[d])
      BY Zenon, <1>0, <3>1, <3>2
    <3> HIDE DEF p
    <3>5. ASSUME NEW d \in Conn
          PROVE  Items(tx'[d]) \subseteq Items(tx[d]) \cup {p}
      <4>1. tx'[d] = tx[d] \/ tx'[d] = Append(tx[d], p)
        BY Zenon, <1>0, <3>1
      <4>2. tx[d] \in Seq(Packets)
        BY Zenon, <1>0
      <4>3. Items(Append(tx[d], p)) = Items(tx[d]) \cup {p}
        BY Zenon, <3>2, <4>2, AppendItems
      <4> QED
        BY Zenon, <4>1, <4>3
    <3> QED
      BY ZenonT(60), <1>0, <3>3, <3>4, <3>5 DEF SentGood, QueuesGood
  <2> QED
    BY ZenonT(60), <2>1, <2>2 DEF InputThread
<1>5. ASSUME NEW d \in Conn
      PROVE  Kicked(d)' /\ Stays(d)
  <2>1. tr'[d].cs = tr[d].cs /\ tr'[d].st = tr[d].st /\ tr'[d].kicked = tr[d].kicked
    <3>1. tr[d] \in Transports /\ (tr'[d] = tr[d] \/ tr'[d] = [tr[d] EXCEPT !.active = TRUE])
      BY Zenon, <1>0, <1>3
    <3> QED
      BY <3>1 DEF Transports
  <2>2. inPc[d] \in Kicks => inPc'[d] \in Kicks
    BY Zenon, <1>0, <1>2
  <2> QED
    BY ZenonT(60), <1>1, <2>1, <2>2, KickStays, TransportStays DEF FirstKick
<1>6. \A id \in Id : SameHeld(id)
  <2>1. CASE InputRead(c)
    <3>1. UNCHANGED <<sock, chan, svc>>
      BY Zenon, <2>1 DEF InputRead, service
    <3> QED
      BY Zenon, <3>1, SocksStay
  <2>2. CASE CloseAllSockets(c)
    <3> DEFINE ids == {id \in OfTransport(c) : sock[id].st = "open"}
    <3>1. sock' = ClosedSocks(ids) /\ chan' = ClosedChans(ids)
      BY Zenon, <2>2 DEF CloseAllSockets, Close
    <3>2. ids \in SUBSET Id /\ \A j \in ids : InUse(j)
      BY DEF OfTransport, InUse
    <3> HIDE DEF ids
    <3> QED
      BY Zenon, <1>0, <1>1, <3>1, <3>2, CloseHolds
  <2> QED
    BY Zenon, <2>1, <2>2 DEF InputThread
<1>7. \A d \in Conn : Moved(d) /\ \A id : Carried(d, id)
  BY Zenon, <1>1, QueuesStay DEF Reads
<1>8. plugged' \in [Conn -> BOOLEAN]
  BY Zenon, <1>1 DEF StreamInv, SvcTyped
<1>9. UNCHANGED <<nextId, svc, file, overlap, exited, host, opens>>
  BY Zenon, <1>1
<1> QED
  BY ZenonT(60), <1>0, <1>4, <1>5, <1>6, <1>7, <1>8, <1>9, QuietSteps

(* The registration socket: a new transport has no sockets, and one that   *)
(* is removed keeps none.                                                  *)
LEMMA RegistrationStream ==
  ASSUME AdbInv, StreamInv, RegistrationAdd \/ RegistrationRemove
  PROVE  StreamInv'
<1> DEFINE h == Head(reg)
<1>0. /\ Typed /\ LoopInv /\ RegLife /\ reg \in Seq(Conn \X {"add", "remove"})
      /\ tr \in [Conn -> Transports] /\ outPc \in [Conn -> OutPcs] /\ inPc \in [Conn -> InPcs]
      /\ toLoop \in [Conn -> Seq(Packets)] /\ toInput \in [Conn -> Seq(Packets)]
  BY DEF AdbInv, Typed, RegTyped, TrTyped, PcTyped, PairTyped, LifeInv
<1>1. reg # << >>
  BY Zenon, <1>0 DEF LoopInv, RegistrationAdd, RegistrationRemove, Dispatched
<1>2. h = reg[1] /\ 1 \in DOMAIN reg /\ h[1] \in Conn
  BY <1>0, <1>1
<1>3. PICK c \in Conn : c = reg[1][1] /\ c = Head(reg)[1]
  BY Zenon, <1>2
<1>4. UNCHANGED <<plugged, rx, tx, nextId, svc, file, overlap, exited, host, opens>>
  BY DEF RegistrationAdd, RegistrationRemove, link, service, hosts
<1>5. CASE RegistrationAdd
  <2>1. /\ tr' = [tr EXCEPT ![c] = [NoTransport EXCEPT !.st = "registered", !.ref = 2]]
        /\ inPc' = [inPc EXCEPT ![c] = "read"] /\ outPc' = [outPc EXCEPT ![c] = "sync"]
        /\ UNCHANGED <<toLoop, toInput, sock, chan>> /\ reg[1][2] = "add"
    BY Zenon, <1>2, <1>3, <1>5 DEF RegistrationAdd
  <2>2. tr[c].st = "none"
    BY Zenon, <1>0, <1>2, <1>3, <2>1 DEF RegLife, Unstarted
  <2>3. OfTransport(c) = {}
    BY Zenon, <2>2 DEF StreamInv, Attached
  <2>4. FirstKick(c)'
    BY <1>0, <2>1 DEF FirstKick, NoTransport
  <2>5. ASSUME NEW d \in Conn
        PROVE  Kicked(d)' /\ Stays(d) /\ (OfTransport(d) = {} \/ (Reads(d)' => Reads(d)))
    <3>1. CASE d = c
      <4>1. Stays(c)
        BY Zenon, <2>2 DEF Stays
      <4> QED
        BY Zenon, <2>3, <2>4, <3>1, <4>1 DEF Kicked
    <3>2. CASE d # c
      <4>1. tr'[d] = tr[d] /\ outPc'[d] = outPc[d] /\ inPc'[d] = inPc[d]
        BY Zenon, <1>0, <2>1, <3>2
      <4> QED
        BY Zenon, <4>1, KickStays, TransportStays DEF FirstKick, Reads
    <3> QED
      BY Zenon, <3>1, <3>2
  <2> QED
    BY ZenonT(60), <1>0, <1>4, <2>1, <2>5, IdleStream
<1>6. CASE RegistrationRemove
  <2> DEFINE ids == OfTransport(c)
  <2>1. /\ tr' = [tr EXCEPT ![c].st = "freed"] /\ sock' = ClosedSocks(ids)
        /\ chan' = ClosedChans(ids) /\ toLoop' = [toLoop EXCEPT ![c] = << >>]
        /\ toInput' = [toInput EXCEPT ![c] = << >>] /\ UNCHANGED <<outPc, inPc>>
    BY Zenon, <1>3, <1>6 DEF RegistrationRemove, Close, threads
  <2>2. ids \in SUBSET Id /\ \A j \in ids : InUse(j)
    BY Bounds DEF OfTransport, InUse, Conn
  <2>3. /\ \A id \in Id : SameHeld(id)
        /\ \A id \in Id : id \in ids => sock'[id].peer = 0 /\ sock'[id].st # "open"
    <3> HIDE DEF ids
    <3> QED
      BY Zenon, <1>0, <1>4, <2>1, <2>2, CloseHolds
  <2>4. ASSUME NEW id \in Id, sock'[id].st = "open"
        PROVE  sock'[id].peer # c
    <3>1. id \notin ids
      BY Zenon, <2>3, <2>4
    <3> QED
      BY Zenon, <2>3, <2>4, <3>1 DEF SameHeld, SameSock, OfTransport
  <2>5. ASSUME NEW d \in Conn
        PROVE  /\ Moved(d) /\ SentGood(d) /\ Kicked(d)'
               /\ d # c => Stays(d) /\ \A id : Carried(d, id)
    <3>1. tr'[d].kicked = tr[d].kicked
      BY ZenonT(60), <1>0, <2>1 DEF Transports
    <3>2. Kicked(d)'
      BY Zenon, <2>1, <3>1, KickStays DEF FirstKick
    <3>3. CASE d = c
      <4>1. rx'[d] = rx[d] /\ toLoop'[d] = << >> /\ toInput'[d] = << >> /\ tx'[d] = tx[d]
        BY ZenonT(60), <1>0, <1>4, <2>1, <3>3
      <4>2. Items(<< >>) = {}
        BY DEF Items
      <4> QED
        BY Zenon, <3>2, <3>3, <4>1, <4>2 DEF Moved, SentGood, StreamInv, QueuesGood
    <3>4. CASE d # c
      <4>1. /\ rx'[d] = rx[d] /\ toLoop'[d] = toLoop[d] /\ toInput'[d] = toInput[d] /\ tx'[d] = tx[d]
            /\ plugged'[d] = plugged[d] /\ outPc'[d] = outPc[d] /\ tr'[d] = tr[d]
        BY Zenon, <1>0, <1>4, <2>1, <3>4
      <4> QED
        BY ZenonT(60), <3>2, <4>1, QueuesStay, SentStays, TransportStays DEF Reads
    <3> QED
      BY Zenon, <3>3, <3>4
  <2>6. Stays(c)
    <3>0. c # 0
      BY Bounds DEF Conn
    <3>1. ASSUME NEW id \in Id
          PROVE  sock'[id].peer # c
      <4>1. CASE id \in ids
        BY Zenon, <2>3, <3>0, <4>1
      <4>2. CASE id \notin ids
        BY Zenon, <2>3, <3>0, <4>2 DEF OfTransport, SameHeld, SameSock
      <4> QED
        BY Zenon, <4>1, <4>2
    <3>2. OfTransport(c)' = {}
      BY Zenon, <3>1 DEF OfTransport
    <3> QED
      BY Zenon, <3>2 DEF Stays
  <2>7. plugged' \in [Conn -> BOOLEAN]
    BY Zenon, <1>4 DEF StreamInv, SvcTyped
  <2>8. \A d \in Conn : Moved(d) /\ SentGood(d) /\ Kicked(d)' /\ Stays(d)
    BY Zenon, <2>5, <2>6
  <2>9. \A id \in Id, d \in Conn : sock'[id].st = "open" /\ sock'[id].peer = d => Carried(d, id)
    BY Zenon, <2>4, <2>5
  <2>10. UNCHANGED <<nextId, svc, file, overlap, exited, host, opens>>
    BY Zenon, <1>4
  <2> QED
    BY ZenonT(60), <1>0, <2>3, <2>7, <2>8, <2>9, <2>10, QuietSteps
<1> QED
  BY Zenon, <1>5, <1>6

-----------------------------------------------------------------------------
(* The callbacks of transports and sockets.  First the chunks of a stream: *)
(* what is moved from one sequence to the next stays in order.             *)
LEMMA JoinFrom ==
  ASSUME NEW X, NEW q \in Seq(X), NEW s \in Seq(X), NEW a \in Nat, From(q, a), From(s, a + Len(q))
  PROVE  From(q \o s, a) /\ Len(q \o s) = Len(q) + Len(s)
<1>1. /\ Len(q) \in Nat /\ Len(s) \in Nat /\ Len(q \o s) = Len(q) + Len(s)
      /\ \A i \in 1 .. Len(q) : (q \o s)[i] = q[i]
      /\ \A i \in 1 .. Len(q) + Len(s) : i \notin 1 .. Len(q) =>
            i - Len(q) \in 1 .. Len(s) /\ (q \o s)[i] = s[i - Len(q)]
  OBVIOUS
<1>2. ASSUME NEW i \in 1 .. Len(q) + Len(s)
      PROVE  (q \o s)[i] = a + i
  <2>1. CASE i \in 1 .. Len(q)
    BY Zenon, <1>1, <2>1 DEF From
  <2>2. CASE i \notin 1 .. Len(q)
    <3>1. (q \o s)[i] = (a + Len(q)) + (i - Len(q))
      BY Zenon, <1>1, <2>2 DEF From
    <3> QED
      BY <1>1, <3>1
  <2> QED
    BY Zenon, <2>1, <2>2
<1> QED
  BY Zenon, <1>1, <1>2 DEF From

LEMMA SplitFrom ==
  ASSUME NEW ks \in Seq(1 .. Count), NEW n \in Nat, NEW a \in Nat, From(ks, a)
  PROVE  From(Fits(n, ks), a) /\ From(Rest(n, ks), a + Len(Fits(n, ks)))
<1> DEFINE f == Fits(n, ks)
           r == Rest(n, ks)
<1>1. /\ Len(f) + Len(r) = Len(ks) /\ \A i \in 1 .. Len(f) : f[i] = ks[i]
      /\ \A i \in 1 .. Len(r) : r[i] = ks[Len(f) + i]
      /\ f \in Seq(1 .. Count) /\ r \in Seq(1 .. Count)
  BY Zenon, Chunks
<1> HIDE DEF f, r
<1>2. Len(f) \in Nat /\ Len(r) \in Nat /\ Len(ks) \in Nat
  BY <1>1
<1>3. \A i \in 1 .. Len(f) : i \in 1 .. Len(ks)
  BY <1>1, <1>2
<1>4. \A i \in 1 .. Len(r) : Len(f) + i \in 1 .. Len(ks) /\ a + (Len(f) + i) = (a + Len(f)) + i
  BY <1>1, <1>2
<1>5. From(f, a)
  BY Zenon, <1>1, <1>3 DEF From
<1>6. From(r, a + Len(f))
  BY Zenon, <1>1, <1>4 DEF From
<1> QED
  BY Zenon, <1>5, <1>6 DEF f, r

LEMMA HeldTypes ==
  ASSUME Typed, SvcTyped, NEW id \in Id
  PROVE  /\ svc[id].got \in Nat /\ chan[id].down \in Seq(1 .. Count) /\ Len(chan[id].down) \in Nat
         /\ sock[id].pkts \in Seq(1 .. Count) /\ Len(sock[id].pkts) \in Nat
         /\ Pos(id) \in Nat
<1>1. /\ svc[id].got \in 0 .. Count /\ chan[id].down \in Seq(1 .. Count)
      /\ sock[id].pkts \in Seq(1 .. Count)
  BY DEF Typed, SvcTyped, ChanTyped, SockTyped, Chans, Socks
<1>2. svc[id].got \in Nat /\ Len(chan[id].down) \in Nat /\ Len(sock[id].pkts) \in Nat
  BY <1>1, Bounds
<1> QED
  BY <1>1, <1>2 DEF Pos

(* Packets of a socket go on to its service.                               *)
LEMMA PacketsWritten ==
  ASSUME Typed, SvcTyped, NEW id \in Id, NEW n \in Nat, UNCHANGED svc, Held(id),
         chan'[id].down = chan[id].down \o Fits(n, sock[id].pkts),
         sock'[id].pkts = Rest(n, sock[id].pkts)
  PROVE  Held(id)' /\ Pos(id)' = Pos(id)
<1> DEFINE g == svc[id].got
           d == chan[id].down
           k == sock[id].pkts
           f == Fits(n, k)
           r == Rest(n, k)
<1>1. g \in Nat /\ d \in Seq(1 .. Count) /\ Len(d) \in Nat /\ k \in Seq(1 .. Count) /\ Len(k) \in Nat
  BY Zenon, HeldTypes
<1>2. From(d, g) /\ From(k, g + Len(d))
  BY Zenon DEF Held
<1>3. svc'[id].got = g /\ chan'[id].down = d \o f /\ sock'[id].pkts = r
  BY Zenon
<1>4. Held(id)' <=> From(chan'[id].down, svc'[id].got) /\ From(sock'[id].pkts, svc'[id].got + Len(chan'[id].down))
  BY Zenon DEF Held, From
<1>5. /\ Pos(id)' = svc'[id].got + Len(chan'[id].down) + Len(sock'[id].pkts)
      /\ Pos(id) = g + Len(d) + Len(k)
  BY Zenon DEF Pos
<1> HIDE DEF g, d, k
<1>6. /\ f \in Seq(1 .. Count) /\ r \in Seq(1 .. Count) /\ Len(f) + Len(r) = Len(k)
  BY ZenonT(60), <1>1, Chunks
<1>7. g + Len(d) \in Nat
  BY <1>1
<1>8. From(f, g + Len(d)) /\ From(r, (g + Len(d)) + Len(f))
  BY Zenon, <1>1, <1>2, <1>7, SplitFrom
<1> HIDE DEF f, r
<1>9. From(d \o f, g) /\ Len(d \o f) = Len(d) + Len(f)
  BY ZenonT(60), <1>1, <1>2, <1>6, <1>8, JoinFrom
<1>10. Len(f) \in Nat /\ Len(r) \in Nat
  BY <1>6
<1>11. (g + Len(d)) + Len(f) = g + Len(d \o f) /\ g + Len(d \o f) + Len(r) = g + Len(d) + Len(k)
  <2>1. PICK D \in Nat, K \in Nat, F \in Nat, R \in Nat :
            D = Len(d) /\ K = Len(k) /\ F = Len(f) /\ R = Len(r)
    BY Zenon, <1>1, <1>10
  <2>2. F + R = K /\ Len(d \o f) = D + F
    BY Zenon, <1>6, <1>9, <2>1
  <2>3. g \in Nat
    BY Zenon, <1>1
  <2>4. (g + D) + F = g + (D + F) /\ g + (D + F) + R = g + D + K
    BY <2>2, <2>3
  <2> QED
    BY Zenon, <2>1, <2>2, <2>4
<1> QED
  BY ZenonT(60), <1>3, <1>4, <1>5, <1>8, <1>9, <1>11

LEMMA AllFits ==
  ASSUME NEW ks \in Seq(1 .. Count)
  PROVE  Len(ks) \in Nat /\ Fits(Len(ks), ks) = ks /\ Rest(Len(ks), ks) = << >>
<1> DEFINE K == 1 .. Count
<1>0. ks \in Seq(K) /\ Len(ks) \in Nat
  OBVIOUS
<1> HIDE DEF K
<1>1. Smaller(Len(ks), Len(ks)) = Len(ks)
  BY <1>0 DEF Smaller
<1>2. SubSeq(ks, 1, Len(ks)) = ks /\ SubSeq(ks, Len(ks) + 1, Len(ks)) = << >>
  BY <1>0
<1> QED
  BY Zenon, <1>0, <1>1, <1>2 DEF Fits, Rest

(* s->close() of a socket, and what every handler of a packet does.        *)
LEMMA CloseSocketHolds ==
  ASSUME Typed, StreamInv, NEW F, NEW id \in Id, InUse(id), CloseSocket(F, id), UNCHANGED <<svc, tx>>
  PROVE  /\ \A j \in Id : SameHeld(j)
         /\ \A d \in Conn : SentGood(d)
         /\ sock'[id].st # "open"
<1> DEFINE ids == {id}
           c == sock[id].peer
           p == RemoteSocketClose(id)
<1>1. /\ sock' = ClosedSocks(ids) /\ chan' = ClosedChans(ids) /\ svc' = svc /\ tx' = tx
      /\ toInput' = IF c = 0 THEN toInput ELSE Sent(c, <<p>>)
  BY Zenon DEF CloseSocket, Close
<1>2. ids \in SUBSET Id /\ \A j \in ids : InUse(j)
  BY Zenon
<1>3. id \in ids
  BY Zenon
<1>4. \A j \in Id : SameHeld(j) /\ (j \in ids => sock'[j].st # "open")
  <2> HIDE DEF ids
  <2> QED
    BY ZenonT(60), <1>1, <1>2, CloseHolds
<1>5. c \in 0 .. Conns /\ sock[id].rid \in 0 .. MaxOpens
  BY DEF Typed, SockTyped, Socks
<1>6. p \in Packets /\ p.cmd = "CLSE"
  BY SMTT(20), <1>5, SeqNone, PacketTypes DEF RemoteSocketClose
<1> HIDE DEF c, p
<1>7. \A d \in Conn : SentGood(d)
  <2>1. CASE c = 0
    BY Zenon, <1>1, <2>1, SentStays
  <2>2. CASE c # 0
    <3>1. c \in Conn
      BY <1>5, <2>2, Bounds DEF Conn
    <3>2. <<p>> \in Seq(Packets) /\ Items(<<p>>) = {p}
      BY <1>6 DEF Items
    <3>3. \A x \in Items(<<p>>) : GoodOut(x)
      BY <1>6, <3>2 DEF GoodOut
    <3> QED
      BY ZenonT(60), <1>1, <2>2, <3>1, <3>2, <3>3, SendsGood
  <2> QED
    BY Zenon, <2>1, <2>2
<1> QED
  BY Zenon, <1>3, <1>4, <1>7

LEMMA Handling ==
  ASSUME Typed, StreamInv, NEW c \in Conn, NEW cmd, Handle(c, cmd)
  PROVE  /\ UNCHANGED <<file, exited, host, opens, plugged, rx, tx, outPc, inPc>>
         /\ toLoop[c] # << >> /\ Head(toLoop[c]).cmd = cmd /\ Head(toLoop[c]) \in Packets
         /\ Head(toLoop[c]).data \in Seq(1 .. Count)
         /\ Head(toLoop[c]) \in Items(toLoop[c]) /\ GoodIn(c, Head(toLoop[c]))
         /\ \A d \in Conn : toLoop'[d] = IF d = c THEN Tail(toLoop[c]) ELSE toLoop[d]
         /\ \A d \in Conn : Moved(d)
         /\ \A d \in Conn : \A id : d # c \/ ~ForSocket(Head(toLoop[c]), id) => Carried(d, id)
<1>0. toLoop \in [Conn -> Seq(Packets)] /\ QueuesGood
  BY Zenon DEF Typed, PairTyped, StreamInv
<1>1. UNCHANGED <<file, exited, host, opens, plugged, rx, tx, outPc, inPc>>
  BY DEF Handle, link, threads, hosts
<1>2. /\ toLoop[c] # << >> /\ Head(toLoop[c]).cmd = cmd /\ toLoop' = [toLoop EXCEPT ![c] = Tail(@)]
  BY Zenon DEF Handle
<1>3. \A d \in Conn : toLoop'[d] = IF d = c THEN Tail(toLoop[c]) ELSE toLoop[d]
  BY Zenon, <1>0, <1>2
<1>4. Head(toLoop[c]) \in Items(toLoop[c]) /\ Head(toLoop[c]) \in Packets
  BY Zenon, <1>0, <1>2, ItemsFacts, TailFacts
<1>5. GoodIn(c, Head(toLoop[c])) /\ Head(toLoop[c]).data \in Seq(1 .. Count)
  BY Zenon, <1>0, <1>4 DEF QueuesGood, Packets
<1>6. ASSUME NEW d \in Conn
      PROVE  Moved(d) /\ \A id : d # c \/ ~ForSocket(Head(toLoop[c]), id) => Carried(d, id)
  <2>1. rx'[d] = rx[d] /\ plugged'[d] = plugged[d] /\ (Reads(d)' => Reads(d))
    BY Zenon, <1>1 DEF Reads
  <2>2. CASE d = c
    BY Zenon, <1>2, <1>3, <2>1, <2>2 DEF Moved, Carried
  <2>3. CASE d # c
    BY ZenonT(60), <1>3, <2>1, <2>3, QueuesStay
  <2> QED
    BY Zenon, <2>2, <2>3
<1> QED
  BY ZenonT(60), <1>1, <1>2, <1>3, <1>4, <1>5, <1>6

LEMMA HandlerStream ==
  ASSUME Typed, StreamInv, NEW c \in Conn, NEW cmd, Handle(c, cmd), UNCHANGED <<nextId, svc, overlap>>,
         \A d \in Conn : tr'[d].kicked = tr[d].kicked /\ Stays(d) /\ SentGood(d),
         \A id \in Id : SameSock(id) /\ (Stream(id) => Stream(id)')
  PROVE  StreamInv'
<1>1. /\ UNCHANGED <<file, exited, host, opens, plugged, rx, tx, outPc, inPc>>
      /\ \A d \in Conn : Moved(d)
  BY Zenon, Handling
<1>2. \A d \in Conn : Kicked(d)'
  BY Zenon, <1>1, KickStays DEF FirstKick
<1>3. plugged' \in [Conn -> BOOLEAN]
  BY ZenonT(60), <1>1 DEF StreamInv, SvcTyped
<1>4. UNCHANGED <<nextId, svc, file, overlap, exited, host, opens>>
  BY ZenonT(60), <1>1
<1>5. Quiet
  BY ZenonT(60), <1>1, <1>2, <1>3, <1>4 DEF Quiet
<1> QED
  BY Zenon, <1>5, QuietKeeps

LEMMA HandlerHolds ==
  ASSUME Typed, StreamInv, NEW c \in Conn, NEW cmd, Handle(c, cmd), UNCHANGED <<nextId, svc, overlap>>,
         \A d \in Conn : tr'[d].kicked = tr[d].kicked /\ Stays(d) /\ SentGood(d),
         \A id \in Id : SameHeld(id),
         \A id \in Id : sock'[id].st = "open" /\ sock'[id].peer = c => ~ForSocket(Head(toLoop[c]), id)
  PROVE  StreamInv'
<1>1. /\ host' = host /\ svc' = svc
      /\ \A d \in Conn : \A id : d # c \/ ~ForSocket(Head(toLoop[c]), id) => Carried(d, id)
  BY Zenon, Handling
<1>2. \A id \in Id, d \in Conn : sock'[id].st = "open" /\ sock'[id].peer = d => Carried(d, id)
  BY Zenon, <1>1
<1>3. \A id \in Id : SameSock(id) /\ (Stream(id) => Stream(id)')
  BY ZenonT(60), <1>1, <1>2, StreamKept DEF SameHeld
<1> QED
  BY Zenon, <1>3, HandlerStream

LEMMA OneGood ==
  ASSUME Typed, StreamInv, NEW c \in Conn, NEW p \in Packets, GoodOut(p), toInput' = Sent(c, <<p>>),
         UNCHANGED tx
  PROVE  \A d \in Conn : SentGood(d)
<1>1. <<p>> \in Seq(Packets) /\ Items(<<p>>) = {p}
  BY DEF Items
<1>2. \A x \in Items(<<p>>) : GoodOut(x)
  BY Zenon, <1>1
<1> QED
  BY Zenon, <1>1, <1>2, SendsGood

(* The handlers of all packets but data and OPEN.                          *)
LEMMA HandlersStream ==
  ASSUME Typed, StreamInv, NEW c \in Conn,
         \/ HandleSyncOn(c) \/ HandleSyncOff(c) \/ HandleConnect(c) \/ HandleOpenFails(c)
         \/ HandleOkay(c) \/ HandleClose(c) \/ HandleNothing(c)
  PROVE  StreamInv'
<1> DEFINE p == Head(toLoop[c])
<1>t. /\ tr \in [Conn -> Transports] /\ \A d \in Conn : Attached(d)
      /\ \A id \in Id : SockLife(id)
  BY Zenon DEF Typed, TrTyped, StreamInv
<1>0. PICK cmd : Handle(c, cmd) /\ UNCHANGED <<nextId, svc, overlap>>
  BY Zenon DEF HandleSyncOn, HandleSyncOff, HandleConnect, HandleOpenFails, HandleOkay, HandleClose,
               HandleNothing
<1>1. /\ tx' = tx /\ toLoop[c] # << >> /\ p \in Packets /\ p.cmd = cmd /\ GoodIn(c, p)
  BY Zenon, <1>0, Handling
<1>2. p.cmd # "OKAY" => GoodOut(p)
  BY Zenon DEF GoodOut
<1>3. p.a0 \in 0 .. MaxOpens /\ p.a1 \in 0 .. MaxOpens
  BY Zenon, <1>1 DEF Packets
<1>4. ASSUME UNCHANGED <<tr, sock, chan>>
      PROVE  /\ \A d \in Conn : tr'[d].kicked = tr[d].kicked /\ Stays(d)
             /\ \A id \in Id : SameHeld(id)
  BY Zenon, <1>0, <1>4, SocksStay, TransportStays
<1>5. ASSUME cmd # "WRTE"
      PROVE  \A id \in Id : ~ForSocket(p, id)
  BY Zenon, <1>1, <1>5 DEF ForSocket
<1>6. CASE HandleSyncOn(c)
  <2>1. toInput' = Sent(c, <<p>>) /\ UNCHANGED <<tr, sock, chan>> /\ p.cmd = "SYNC"
    BY ZenonT(60), <1>6 DEF HandleSyncOn, Handle
  <2>2. GoodOut(p) /\ cmd # "WRTE"
    BY <1>1, <1>2, <2>1
  <2>3. \A d \in Conn : SentGood(d)
    BY ZenonT(60), <1>1, <2>1, <2>2, OneGood
  <2> QED
    BY ZenonT(60), <1>0, <1>4, <1>5, <2>1, <2>2, <2>3, HandlerHolds
<1>Offline.
  ASSUME NEW s, tr' = [tr EXCEPT ![c].cs = s], HandleOffline(c)
  PROVE  /\ \A d \in Conn : tr'[d].kicked = tr[d].kicked /\ Stays(d)
         /\ \A id \in Id : SameHeld(id)
  <2> USE <1>Offline
  <2> DEFINE ids == OfTransport(c)
  <2>1. sock' = ClosedSocks(ids) /\ chan' = ClosedChans(ids)
    BY Zenon DEF HandleOffline, Close
  <2>2. ids \in SUBSET Id /\ \A j \in ids : InUse(j)
    BY Bounds DEF OfTransport, InUse, Conn
  <2>3. \A id \in Id : SameHeld(id) /\ (id \in ids => sock'[id].peer = 0)
    <3> HIDE DEF ids
    <3> QED
      BY ZenonT(60), <1>0, <2>1, <2>2, CloseHolds
  <2>4. c # 0
    BY Bounds DEF Conn
  <2>5. OfTransport(c)' = {}
    BY Zenon, <2>3, <2>4 DEF OfTransport, SameHeld, SameSock
  <2>6. ASSUME NEW d \in Conn
        PROVE  tr'[d].kicked = tr[d].kicked /\ Stays(d)
    <3>1. tr'[d].kicked = tr[d].kicked
      BY Zenon, <1>t DEF Transports
    <3>2. CASE d = c
      BY Zenon, <2>5, <3>1, <3>2 DEF Stays
    <3>3. CASE d # c
      <4>1. tr'[d] = tr[d]
        BY Zenon, <1>t, <3>3
      <4> QED
        BY Zenon, <3>1, <4>1, TransportStays
    <3> QED
      BY Zenon, <3>2, <3>3
  <2> QED
    BY Zenon, <2>3, <2>6
<1>7. CASE HandleSyncOff(c)
  <2>1. /\ toInput' = Sent(c, <<p>>) /\ tr' = [tr EXCEPT ![c].cs = "offline"] /\ HandleOffline(c)
        /\ p.cmd = "SYNC"
    BY Zenon, <1>7 DEF HandleSyncOff, Handle
  <2>2. GoodOut(p) /\ cmd # "WRTE"
    BY <1>1, <1>2, <2>1
  <2>3. \A d \in Conn : SentGood(d)
    BY ZenonT(60), <1>1, <2>1, <2>2, OneGood
  <2>4. /\ \A d \in Conn : tr'[d].kicked = tr[d].kicked /\ Stays(d)
        /\ \A id \in Id : SameHeld(id)
    BY Zenon, <2>1, <1>Offline
  <2> QED
    BY ZenonT(60), <1>0, <1>5, <2>2, <2>3, <2>4, HandlerHolds
<1>8. CASE HandleConnect(c)
  <2> DEFINE q == Pkt("CNXN", 0, 0)
  <2>1. /\ toInput' = Sent(c, <<q>>) /\ tr' = [tr EXCEPT ![c].cs = "host"] /\ p.cmd = "CNXN"
        /\ HandleOffline(c) \/ UNCHANGED <<sock, chan>>
    BY Zenon, <1>8 DEF HandleConnect, Handle
  <2>2. q \in Packets /\ q.cmd = "CNXN" /\ cmd # "WRTE"
    BY SMTT(60), <1>1, <2>1, SeqNone, PacketTypes
  <2>3. GoodOut(q)
    BY <2>2 DEF GoodOut
  <2> HIDE DEF q
  <2>4. \A d \in Conn : SentGood(d)
    BY ZenonT(60), <1>1, <2>1, <2>2, <2>3, OneGood
  <2>5. /\ \A d \in Conn : tr'[d].kicked = tr[d].kicked /\ Stays(d)
        /\ \A id \in Id : SameHeld(id)
    <3>1. CASE HandleOffline(c)
      BY ZenonT(60), <2>1, <3>1, <1>Offline
    <3>2. CASE UNCHANGED <<sock, chan>>
      <4>1. \A id \in Id : SameHeld(id)
        BY ZenonT(60), <1>0, <3>2, SocksStay
      <4>2. ASSUME NEW d \in Conn
            PROVE  /\ tr'[d].kicked = tr[d].kicked /\ tr'[d].st = tr[d].st
                   /\ tr'[d].cs = tr[d].cs \/ tr'[d].cs = "host"
        BY Zenon, <1>t, <2>1 DEF Transports
      <4>3. "host" # "offline"
        OBVIOUS
      <4> QED
        BY ZenonT(60), <4>1, <4>2, <4>3 DEF Stays, Online
    <3> QED
      BY ZenonT(60), <2>1, <3>1, <3>2
  <2> QED
    BY ZenonT(60), <1>0, <1>5, <2>2, <2>4, <2>5, HandlerHolds
<1>9. CASE HandleOpenFails(c)
  <2> DEFINE q == Pkt("CLSE", 0, p.a0)
  <2>1. /\ UNCHANGED toInput \/ toInput' = Sent(c, <<q>>)
        /\ UNCHANGED <<tr, sock, chan>> /\ p.cmd = "OPEN"
    BY ZenonT(60), <1>9 DEF HandleOpenFails, Handle
  <2>2. q \in Packets /\ q.cmd = "CLSE" /\ cmd # "WRTE"
    BY SMTT(60), <1>1, <1>3, <2>1, SeqNone, PacketTypes
  <2>3. GoodOut(q)
    BY <2>2 DEF GoodOut
  <2> HIDE DEF q
  <2>4. \A d \in Conn : SentGood(d)
    BY ZenonT(60), <1>1, <2>1, <2>2, <2>3, OneGood, SentStays
  <2> QED
    BY ZenonT(60), <1>0, <1>4, <1>5, <2>1, <2>2, <2>4, HandlerHolds
<1>10. CASE HandleOkay(c)
  <2>1. UNCHANGED <<toInput, tr, sock, chan>> /\ p.cmd = "OKAY"
    BY ZenonT(60), <1>10 DEF HandleOkay, Handle
  <2>2. cmd # "WRTE"
    BY <1>1, <2>1
  <2>3. \A d \in Conn : SentGood(d)
    BY ZenonT(60), <1>1, <2>1, SentStays
  <2> QED
    BY ZenonT(60), <1>0, <1>4, <1>5, <2>1, <2>2, <2>3, HandlerHolds
<1>11. CASE HandleClose(c)
  <2>1. /\ UNCHANGED tr /\ p.cmd = "CLSE" /\ Found(p.a1)
        /\ CloseSocket(FdDequeue(fde, T(c)), p.a1)
    BY ZenonT(60), <1>11 DEF HandleClose, Handle
  <2>2. cmd # "WRTE" /\ p.a1 \in Id /\ InUse(p.a1)
    BY <1>1, <1>3, <2>1 DEF Found, InUse, Id
  <2>3. /\ \A id \in Id : SameHeld(id)
        /\ \A d \in Conn : SentGood(d)
    BY ZenonT(60), <1>0, <1>1, <2>1, <2>2, CloseSocketHolds
  <2>4. \A d \in Conn : tr'[d].kicked = tr[d].kicked /\ Stays(d)
    BY Zenon, <2>1, TransportStays
  <2> QED
    BY ZenonT(60), <1>0, <1>5, <2>2, <2>3, <2>4, HandlerHolds
<1>12. CASE HandleNothing(c)
  <2>1. UNCHANGED <<toInput, tr, sock, chan>> /\ ~(Online(c) /\ Found(p.a1))
    BY Zenon, <1>12 DEF HandleNothing
  <2>2. \A d \in Conn : SentGood(d)
    BY ZenonT(60), <1>1, <2>1, SentStays
  <2>3. ASSUME NEW id \in Id, sock'[id].st = "open", sock'[id].peer = c
        PROVE  ~ForSocket(p, id)
    <3>1. sock[id].st = "open" /\ id \in OfTransport(c)
      BY Zenon, <2>1, <2>3 DEF OfTransport
    <3>2. Online(c)
      BY Zenon, <1>t, <3>1 DEF Attached
    <3>3. id # 0
      BY Bounds DEF Id
    <3> QED
      BY ZenonT(60), <2>1, <3>1, <3>2, <3>3 DEF ForSocket, Found
  <2> QED
    BY ZenonT(60), <1>0, <1>4, <2>1, <2>2, <2>3, HandlerHolds
<1> QED
  BY ZenonT(60), <1>6, <1>7, <1>8, <1>9, <1>10, <1>11, <1>12

(* Data of the host goes to the service and to the packets of its socket.  *)
LEMMA DataWritten ==
  ASSUME Typed, SvcTyped, NEW id \in Id, NEW n \in Nat, NEW ks \in Seq(1 .. Count), UNCHANGED svc,
         Held(id), From(ks, Pos(id)), sock[id].pkts = << >> \/ n = 0,
         chan'[id].down = chan[id].down \o Fits(n, ks),
         sock'[id].pkts = sock[id].pkts \o Rest(n, ks)
  PROVE  Held(id)' /\ Pos(id)' = Pos(id) + Len(ks)
<1> DEFINE g == svc[id].got
           d == chan[id].down
           k == sock[id].pkts
           f == Fits(n, ks)
           r == Rest(n, ks)
           d1 == d \o f
           k1 == k \o r
<1>1. g \in Nat /\ d \in Seq(1 .. Count) /\ Len(d) \in Nat /\ k \in Seq(1 .. Count) /\ Len(k) \in Nat
  BY Zenon, HeldTypes
<1>2. From(d, g) /\ From(k, g + Len(d)) /\ From(ks, g + Len(d) + Len(k))
  BY Zenon DEF Held, Pos
<1>3. svc'[id].got = g /\ chan'[id].down = d1 /\ sock'[id].pkts = k1
  BY Zenon
<1>4. Held(id)' <=> From(chan'[id].down, svc'[id].got) /\ From(sock'[id].pkts, svc'[id].got + Len(chan'[id].down))
  BY Zenon DEF Held, From
<1>5. /\ Pos(id)' = svc'[id].got + Len(chan'[id].down) + Len(sock'[id].pkts)
      /\ Pos(id) = g + Len(d) + Len(k) /\ (k = << >> \/ n = 0)
  BY Zenon DEF Pos
<1> HIDE DEF g, d, k
<1>6. /\ f \in Seq(1 .. Count) /\ r \in Seq(1 .. Count) /\ Len(f) + Len(r) = Len(ks)
      /\ n = 0 => f = << >>
  BY ZenonT(60), <1>1, Chunks
<1>7. g + Len(d) \in Nat /\ g + Len(d) + Len(k) \in Nat
  BY <1>1
<1>8. From(f, g + Len(d) + Len(k)) /\ From(r, (g + Len(d) + Len(k)) + Len(f))
  BY ZenonT(60), <1>1, <1>2, <1>7, SplitFrom
<1> HIDE DEF f, r
<1>9. Len(f) \in Nat /\ Len(r) \in Nat
  BY <1>6
<1>10. From(f, g + Len(d)) /\ (g + Len(d) + Len(k)) + Len(f) = g + Len(d) + Len(f) + Len(k)
  <2>1. CASE k = << >>
    <3>1. g + Len(d) + Len(k) = g + Len(d)
      BY SMTT(60), <1>7, <2>1
    <3> QED
      BY SMTT(60), <1>1, <1>8, <1>9, <3>1
  <2>2. CASE n = 0
    <3>1. f = << >> /\ Len(f) = 0
      BY ZenonT(60), <1>6, <2>2
    <3>2. From(f, g + Len(d))
      BY <3>1 DEF From
    <3> QED
      BY <1>1, <3>1, <3>2
  <2> QED
    BY ZenonT(60), <1>5, <2>1, <2>2
<1>11. From(d1, g) /\ Len(d1) = Len(d) + Len(f)
  BY ZenonT(60), <1>1, <1>2, <1>6, <1>10, JoinFrom
<1>12. From(k1, g + Len(d1)) /\ Len(k1) = Len(k) + Len(r)
  <2>1. CASE k = << >>
    <3>1. k1 = r /\ (g + Len(d) + Len(k)) + Len(f) = g + (Len(d) + Len(f)) /\ Len(k) = 0
      BY <1>1, <1>6, <1>9, <2>1
    <3> HIDE DEF k1, d1
    <3>2. From(k1, g + Len(d1))
      BY Zenon, <1>8, <1>11, <3>1
    <3> QED
      BY SMTT(60), <1>9, <3>1, <3>2
  <2>2. CASE n = 0
    <3>1. Len(f) = 0
      BY SMTT(60), <1>6, <2>2
    <3>2. g + Len(d1) = g + Len(d) /\ (g + Len(d) + Len(k)) + Len(f) = (g + Len(d1)) + Len(k)
      BY <1>1, <1>11, <3>1
    <3>3. From(k, g + Len(d1)) /\ From(r, (g + Len(d1)) + Len(k)) /\ g + Len(d1) \in Nat
      BY ZenonT(60), <1>2, <1>7, <1>8, <3>2
    <3> HIDE DEF d1
    <3> QED
      BY ZenonT(60), <1>1, <1>6, <3>3, JoinFrom
  <2> QED
    BY ZenonT(60), <1>5, <2>1, <2>2
<1> HIDE DEF d1, k1
<1>13. g + Len(d1) + Len(k1) = (g + Len(d) + Len(k)) + Len(ks)
  <2>1. PICK D \in Nat, K \in Nat, F \in Nat, R \in Nat :
            D = Len(d) /\ K = Len(k) /\ F = Len(f) /\ R = Len(r)
    BY Zenon, <1>1, <1>9
  <2>2. F + R = Len(ks) /\ Len(d1) = D + F /\ Len(k1) = K + R
    BY ZenonT(60), <1>6, <1>11, <1>12, <2>1
  <2>3. g \in Nat
    BY ZenonT(60), <1>1
  <2>4. g + (D + F) + (K + R) = (g + D + K) + (F + R)
    BY <2>3
  <2> QED
    BY Zenon, <2>1, <2>2, <2>4
<1> QED
  BY ZenonT(60), <1>3, <1>4, <1>5, <1>11, <1>12, <1>13

(* local_socket_enqueue(): the stream of the socket goes on.               *)
LEMMA DataStream ==
  ASSUME Typed, StreamInv, NEW c \in Conn, Handle(c, "WRTE"), NEW id \in Id, id = Head(toLoop[c]).a1,
         sock[id].st = "open", UNCHANGED svc, SameSock(id), NEW n \in Nat,
         sock[id].pkts = << >> \/ n = 0,
         chan'[id].down = chan[id].down \o Fits(n, Head(toLoop[c]).data),
         sock'[id].pkts = sock[id].pkts \o Rest(n, Head(toLoop[c]).data)
  PROVE  Stream(id) => Stream(id)'
<1> DEFINE p == Head(toLoop[c])
           ks == p.data
<1>0. PICK l, r, l1 : l = toLoop[c] /\ r = rx[c] /\ l1 = toLoop'[c]
  BY Zenon
<1>1. /\ toLoop[c] # << >> /\ p.cmd = "WRTE" /\ p \in Packets /\ GoodIn(c, p)
      /\ ks \in Seq(1 .. Count) /\ toLoop'[c] = Tail(toLoop[c])
      /\ UNCHANGED <<host, plugged, rx, outPc>>
  BY Zenon, Handling
<1>2. LinkTyped /\ PairTyped /\ SvcTyped /\ SockLife(id)
  BY Zenon DEF Typed, StreamInv
<1>3. sock[id].peer = c
  BY Zenon, <1>1, <1>2 DEF GoodIn, SockLife
<1>4. l \in Seq(Packets) /\ l # << >> /\ l1 = Tail(l) /\ Head(l) = p
  BY Zenon, <1>0, <1>1, <1>2 DEF PairTyped
<1>5. SUFFICES ASSUME Stream(id), Live(id)'
               PROVE  Held(id)' /\ \A d \in Conn : sock'[id].peer = d /\ sock'[id].st = "open" => Coming(id, d)'
  BY Zenon DEF Stream
<1>6. Held(id) /\ Coming(id, c)
  BY Zenon, <1>3, <1>5 DEF Stream, Live
<1>7. PICK m : /\ Chain(l, id, Pos(id), m)
               /\ Reads(c) => \E k : /\ Chain(r, id, m, k)
                                     /\ plugged[c] /\ host[c].rid = sock[id].rid => host[c].sent = k
  BY Zenon, <1>0, <1>6 DEF Coming
<1>8. PICK d \in Nat : Leads(p, id, Pos(id), d) /\ Chain(l1, id, d, m)
  <2> HIDE DEF p
  <2> QED
    BY Zenon, <1>4, <1>7, ChainLeads
<1>9. From(ks, Pos(id)) /\ d = Pos(id) + Len(ks)
  BY Zenon, <1>1, <1>8 DEF Leads, ForSocket
<1>10. Held(id)' /\ Pos(id)' = d
  <2> HIDE DEF p
  <2> QED
    BY Zenon, <1>1, <1>2, <1>6, <1>9, DataWritten DEF p
<1>11. sock'[id].peer = c \/ sock'[id].peer = 0
  BY Zenon, <1>3 DEF SameSock
<1>12. \A e \in Conn : e # 0
  BY Zenon, ConnPositive
<1>13. Coming(id, c)'
  <2>1. toLoop'[c] = l1 /\ rx'[c] = r /\ plugged'[c] = plugged[c] /\ host'[c] = host[c]
        /\ sock'[id].rid = sock[id].rid /\ (Reads(c)' <=> Reads(c))
    BY Zenon, <1>0, <1>1 DEF SameSock, Reads
  <2>2. Chain(toLoop'[c], id, Pos(id)', m)
    BY Zenon, <1>8, <1>10, <2>1
  <2>3. Reads(c)' => \E k : /\ Chain(rx'[c], id, m, k)
                            /\ plugged'[c] /\ host'[c].rid = sock'[id].rid => host'[c].sent = k
    BY Zenon, <1>7, <2>1
  <2> QED
    BY Zenon, <2>2, <2>3 DEF Coming, Chain
<1> QED
  BY ZenonT(60), <1>10, <1>11, <1>12, <1>13

LEMMA WriteStream ==
  ASSUME Typed, StreamInv, NEW c \in Conn, HandleWrite(c)
  PROVE  StreamInv'
<1> DEFINE p == Head(toLoop[c])
<1>0. /\ Handle(c, "WRTE") /\ Online(c) /\ Found(p.a1) /\ UNCHANGED <<tr, nextId, svc, overlap>>
  BY Zenon DEF HandleWrite
<1>1. /\ tx' = tx /\ host' = host /\ p.cmd = "WRTE" /\ p \in Packets /\ GoodIn(c, p)
      /\ p.data \in Seq(1 .. Count)
      /\ \A d \in Conn : \A j : d # c \/ ~ForSocket(p, j) => Carried(d, j)
  BY Zenon, <1>0, Handling
<1>2. PICK id \in Id : id = p.a1
  BY ZenonT(60), <1>1 DEF GoodIn
<1>3. /\ sock[id].st = "open" /\ p.a0 \in 0 .. MaxOpens /\ p.a0 = sock[id].rid /\ id < nextId
      /\ InUse(id)
  BY <1>0, <1>1, <1>2 DEF Found, GoodIn, Packets, InUse
<1>4. \A d \in Conn : tr'[d].kicked = tr[d].kicked /\ Stays(d)
  BY Zenon, <1>0, TransportStays
<1>t. ChanTyped /\ SvcTyped /\ sock \in [Id -> Socks] /\ chan \in [Id -> Chans]
  BY Zenon DEF Typed, StreamInv, ChanTyped, SockTyped
<1>5. sock[id].pkts \in Seq(1 .. Count) /\ Room(id) \in Nat /\ Len(p.data) \in Nat
  BY <1>1, <1>t, RoomLeft DEF Socks
<1>Effect.
  ASSUME NEW n \in Nat, sock[id].pkts = << >> \/ n = 0,
         chan' = [chan EXCEPT ![id].down = @ \o Fits(n, p.data)],
         sock' = [sock EXCEPT ![id].pkts = @ \o Rest(n, p.data)],
         \A d \in Conn : SentGood(d)
  PROVE  StreamInv'
  <2> USE <1>Effect
  <2>1. /\ chan'[id].down = chan[id].down \o Fits(n, p.data)
        /\ sock'[id].pkts = sock[id].pkts \o Rest(n, p.data)
        /\ \A j \in Id : j # id => sock'[j] = sock[j] /\ chan'[j] = chan[j]
        /\ \A j \in Id : /\ sock'[j].st = sock[j].st /\ sock'[j].peer = sock[j].peer
                         /\ sock'[j].rid = sock[j].rid
    BY ZenonT(60), <1>t DEF Socks, Chans
  <2>2. \A j \in Id : SameSock(j)
    BY Zenon, <2>1 DEF SameSock, InUse
  <2>3. Stream(id) => Stream(id)'
    BY ZenonT(60), <1>0, <1>2, <1>3, <2>1, <2>2, DataStream
  <2>4. ASSUME NEW j \in Id, j # id
        PROVE  Stream(j) => Stream(j)'
    <3>1. sock'[j] = sock[j] /\ chan'[j] = chan[j] /\ svc' = svc
      BY Zenon, <1>0, <2>1, <2>4
    <3>2. (Held(j) => Held(j)') /\ Pos(j)' = Pos(j)
      BY Zenon, <3>1 DEF Held, Pos, From
    <3>3. \A d \in Conn : Carried(d, j)
      BY Zenon, <1>1, <1>2, <2>4 DEF ForSocket
    <3> QED
      BY ZenonT(60), <1>0, <1>1, <2>2, <3>2, <3>3, StreamKept
  <2> QED
    BY ZenonT(60), <1>0, <1>4, <2>2, <2>3, <2>4, HandlerStream
<1>6. CASE CloseSocket(FdDequeue(fde, T(c)), p.a1)
  <2>1. /\ \A j \in Id : SameHeld(j)
        /\ \A d \in Conn : SentGood(d)
        /\ sock'[id].st # "open"
    BY ZenonT(60), <1>0, <1>1, <1>2, <1>3, <1>6, CloseSocketHolds
  <2>2. \A j \in Id : sock'[j].st = "open" /\ sock'[j].peer = c => ~ForSocket(p, j)
    BY Zenon, <1>2, <2>1 DEF ForSocket
  <2> QED
    BY ZenonT(60), <1>0, <1>4, <2>1, <2>2, HandlerHolds
<1>7. CASE /\ Len(p.data) <= (IF sock[id].pkts = << >> THEN Room(id) ELSE 0)
           /\ chan' = [chan EXCEPT ![id].down = @ \o p.data]
           /\ toInput' = Sent(c, <<Pkt("OKAY", id, p.a0)>>) /\ UNCHANGED sock
  <2> DEFINE q == Pkt("OKAY", id, p.a0)
             n == Len(p.data)
  <2>1. /\ n \in Nat /\ Fits(n, p.data) = p.data /\ Rest(n, p.data) = << >>
    BY ZenonT(60), <1>1, AllFits
  <2>2. sock[id].pkts = << >> \/ n = 0
    BY <1>5, <1>7
  <2>3. sock[id].pkts \o << >> = sock[id].pkts
    <3> DEFINE K == 1 .. Count
    <3>1. sock[id].pkts \in Seq(K)
      BY Zenon, <1>5
    <3> HIDE DEF K
    <3> QED
      BY <3>1
  <2>4. sock' = [sock EXCEPT ![id].pkts = @ \o Rest(n, p.data)]
    <3>1. [sock EXCEPT ![id].pkts = sock[id].pkts] = sock
      BY Zenon, <1>t DEF Socks
    <3> QED
      BY ZenonT(60), <1>7, <2>1, <2>3, <3>1
  <2>5. id \in 0 .. MaxOpens
    BY DEF Id
  <2>6. q \in Packets /\ q.a0 = id /\ q.a1 = p.a0
    BY SMTT(20), <1>3, <2>5, PacketTypes DEF Pkt
  <2>7. GoodOut(q)
    BY Zenon, <1>3, <2>6 DEF GoodOut
  <2>8. toInput' = Sent(c, <<q>>)
    BY Zenon, <1>7
  <2> HIDE DEF q
  <2>9. \A d \in Conn : SentGood(d)
    BY ZenonT(60), <1>1, <2>6, <2>7, <2>8, OneGood
  <2>10. chan' = [chan EXCEPT ![id].down = @ \o Fits(n, p.data)]
    BY Zenon, <1>7, <2>1
  <2> HIDE DEF n
  <2> QED
    BY ZenonT(60), <2>1, <2>2, <2>4, <2>9, <2>10, <1>Effect
<1>8. CASE LET n == IF sock[id].pkts = << >> THEN Room(id) ELSE 0 IN
           /\ chan' = [chan EXCEPT ![id].down = @ \o Fits(n, p.data)]
           /\ sock' = [sock EXCEPT ![id].pkts = @ \o Rest(n, p.data)]
           /\ UNCHANGED toInput
  <2> DEFINE n == IF sock[id].pkts = << >> THEN Room(id) ELSE 0
  <2>1. n \in Nat /\ (sock[id].pkts = << >> \/ n = 0)
    BY <1>5
  <2>2. \A d \in Conn : SentGood(d)
    BY Zenon, <1>1, <1>8, SentStays
  <2>3. /\ chan' = [chan EXCEPT ![id].down = @ \o Fits(n, p.data)]
        /\ sock' = [sock EXCEPT ![id].pkts = @ \o Rest(n, p.data)]
    BY Zenon, <1>8
  <2> HIDE DEF n
  <2> QED
    BY ZenonT(60), <2>1, <2>2, <2>3, <1>Effect
<1> QED
  BY Zenon, <1>2, <1>6, <1>7, <1>8 DEF HandleWrite, Acked, BacklogNoAck

(* OPEN: a new socket, whose stream nobody has sent anything of.           *)
LEMMA OpenStream ==
  ASSUME AdbInv, StreamInv, NEW c \in Conn, HandleOpen(c)
  PROVE  StreamInv'
<1> DEFINE p == Head(toLoop[c])
<1>t. /\ Typed /\ LoopInv /\ sock \in [Id -> Socks] /\ nextId \in Nat \ {0}
      /\ toLoop \in [Conn -> Seq(Packets)] /\ rx \in [Conn -> Seq(Packets)] /\ opens \in 0 .. MaxOpens
  BY DEF AdbInv, Typed, SockTyped, PairTyped, LinkTyped, HostTyped
<1>i. /\ \A d \in Conn : Kicked(d) /\ Attached(d)
      /\ \A id \in Id : SockLife(id) /\ Stream(id)
      /\ QueuesGood /\ AskedOnce /\ StreamNames /\ SvcTyped /\ SvcInv /\ FileInv
  BY Zenon DEF StreamInv
<1>0. /\ Handle(c, "OPEN") /\ Online(c) /\ nextId <= MaxOpens
      /\ sock' = [sock EXCEPT ![nextId] = NewSocket(c, p.a0)]
      /\ chan' = [chan EXCEPT ![nextId] = NewServiceChannel]
      /\ toInput' = Sent(c, <<Pkt("OKAY", nextId, p.a0)>>)
      /\ svc' = [svc EXCEPT ![nextId].pc = "create"]
      /\ overlap' = (overlap \/ \E id \in Id : Running(id))
      /\ nextId' = nextId + 1 /\ tr' = tr
  BY Zenon DEF HandleOpen
<1>1. /\ UNCHANGED <<file, exited, host, opens, plugged, rx, tx, outPc, inPc>>
      /\ toLoop[c] # << >> /\ p.cmd = "OPEN" /\ p \in Packets /\ p \in Items(toLoop[c]) /\ GoodIn(c, p)
      /\ \A d \in Conn : toLoop'[d] = IF d = c THEN Tail(toLoop[c]) ELSE toLoop[d]
      /\ \A d \in Conn : Moved(d)
      /\ \A d \in Conn : \A id : d # c \/ ~ForSocket(p, id) => Carried(d, id)
  BY ZenonT(60), <1>0, <1>t, Handling
<1>2. PICK x \in Id : x = nextId
  BY <1>0, <1>t DEF Id
<1>3. PICK rid : rid = p.a0
  BY Zenon
<1>4. /\ rid \in 1 .. opens /\ rid \in 0 .. MaxOpens
      /\ \A id \in Id : sock[id].rid # rid
      /\ \A d \in Conn : host[d].rid = rid => d = c /\ host[d].sent = 0
  BY Zenon, <1>1, <1>3 DEF GoodIn, Packets
<1>5. /\ sock'[x].st = "open" /\ sock'[x].peer = c /\ sock'[x].rid = rid /\ sock'[x].pkts = << >>
      /\ \A id \in Id : id # x => sock'[id] = sock[id]
  <2>1. sock'[x] = NewSocket(c, rid) /\ \A id \in Id : id # x => sock'[id] = sock[id]
    BY ZenonT(60), <1>0, <1>2, <1>3, <1>t
  <2> QED
    BY <2>1 DEF NewSocket, NoSock
<1>6. chan'[x].down = << >> /\ \A id \in Id : id # x => chan'[id] = chan[id]
  <2>1. chan'[x] = NewServiceChannel /\ \A id \in Id : id # x => chan'[id] = chan[id]
    BY ZenonT(60), <1>0, <1>2, <1>t DEF Typed, ChanTyped
  <2> QED
    BY <2>1 DEF NewServiceChannel, NoChan
<1>7. svc[x].pc = "none" /\ svc[x].got = 0
  <2>1. ~(x < nextId)
    BY <1>2, <1>t
  <2>2. svc[x].pc = "none"
    BY Zenon, <1>i, <2>1 DEF SockLife
  <2> QED
    BY ZenonT(60), <1>i, <2>2 DEF SvcInv
<1>8. svc'[x].pc = "create" /\ svc'[x].got = 0 /\ \A id \in Id : id # x => svc'[id] = svc[id]
  BY ZenonT(60), <1>0, <1>2, <1>7, <1>i DEF SvcTyped
<1>9. \A id \in Id : id < nextId => id < nextId' /\ id # x
  BY <1>0, <1>2, <1>t DEF Id
<1>10. x < nextId' /\ c # 0 /\ rid # 0
  BY SMTT(60), <1>0, <1>2, <1>4, <1>t, Bounds DEF Conn
<1>11. \A d \in Conn : Kicked(d)'
  BY Zenon, <1>0, <1>1, KickStays DEF FirstKick
<1>12. \A d \in Conn : Attached(d)'
  <2>1. T(c) \in fde.pending
    BY Zenon, <1>0 DEF Handle, Dispatched
  <2>2. tr[c].st = "registered"
    BY Zenon, <1>t, <2>1, Descriptors DEF LoopInv, Installed
  <2>3. \A d \in Conn : d # c => OfTransport(d)' \subseteq OfTransport(d)
    BY Zenon, <1>5 DEF OfTransport
  <2> QED
    BY Zenon, <1>0, <1>i, <2>2, <2>3 DEF Attached, Online
<1>13. \A id \in Id : SockLife(id)'
  <2> SUFFICES ASSUME NEW id \in Id PROVE SockLife(id)'
    BY Zenon
  <2>1. CASE id = x
    BY Zenon, <1>5, <1>10, <2>1 DEF SockLife
  <2>2. CASE id # x
    BY ZenonT(60), <1>5, <1>8, <1>9, <1>i, <2>2 DEF SockLife, InUse
  <2> QED
    BY ZenonT(60), <2>1, <2>2
<1>14. /\ \A d \in Conn : \A q \in Items(rx'[d]) \cup Items(toLoop'[d]) :
             q \in Items(rx[d]) \cup Items(toLoop[d]) /\ (q.cmd = "OPEN" => q.a0 # rid)
  <2> SUFFICES ASSUME NEW d \in Conn, NEW q \in Items(rx'[d]) \cup Items(toLoop'[d])
               PROVE  q \in Items(rx[d]) \cup Items(toLoop[d]) /\ (q.cmd = "OPEN" => q.a0 # rid)
    BY Zenon
  <2>1. rx'[d] = rx[d] /\ toLoop[c] \in Seq(Packets)
    BY Zenon, <1>1, <1>t
  <2>2. rid \in OpensIn(toLoop[c])
    BY Zenon, <1>1, <1>3 DEF OpensIn
  <2>3. q.cmd = "OPEN" => q.a0 \in OpensIn(rx[d]) \/ q.a0 \in OpensIn(toLoop'[d])
    BY Zenon, <2>1 DEF OpensIn
  <2>4. CASE d # c
    <3>1. toLoop'[d] = toLoop[d]
      BY Zenon, <1>1, <2>4
    <3>2. rid \notin Asked(d)
      BY Zenon, <1>i, <2>2, <2>4 DEF AskedOnce, Asked
    <3> QED
      BY Zenon, <2>1, <2>3, <3>1, <3>2 DEF Asked
  <2>5. CASE d = c
    <3>1. toLoop'[d] = Tail(toLoop[c]) /\ Items(Tail(toLoop[c])) \subseteq Items(toLoop[c])
      BY Zenon, <1>1, <2>1, <2>5, ItemsFacts
    <3>2. rid \notin OpensIn(Tail(toLoop[c]))
      BY ZenonT(60), <1>1, <1>3, <1>i, <2>1, OnceFacts DEF AskedOnce
    <3>3. rid \notin OpensIn(rx[c])
      BY Zenon, <1>i, <2>2 DEF AskedOnce
    <3> QED
      BY ZenonT(60), <2>1, <2>3, <2>5, <3>1, <3>2, <3>3
  <2> QED
    BY Zenon, <2>4, <2>5
<1>15. \A d \in Conn : \A q \in Items(rx'[d]) \cup Items(toLoop'[d]) :
           GoodIn(d, q)' /\ ~ForSocket(q, x)
  <2> SUFFICES ASSUME NEW d \in Conn, NEW q \in Items(rx'[d]) \cup Items(toLoop'[d])
               PROVE  GoodIn(d, q)' /\ ~ForSocket(q, x)
    BY Zenon
  <2>1. GoodIn(d, q) /\ (q.cmd = "OPEN" => q.a0 # rid)
    BY Zenon, <1>14, <1>i DEF QueuesGood
  <2>2. q.cmd = "WRTE" => q.a1 \in Id /\ q.a1 < nextId' /\ q.a1 # x /\ sock'[q.a1] = sock[q.a1]
    BY Zenon, <1>5, <1>9, <2>1 DEF GoodIn
  <2>3. q.cmd = "OPEN" => \A id \in Id : sock'[id].rid # q.a0
    BY Zenon, <1>5, <2>1 DEF GoodIn
  <2> QED
    BY Zenon, <1>1, <2>1, <2>2, <2>3 DEF GoodIn, ForSocket
<1>16. QueuesGood'
  <2> DEFINE o == Pkt("OKAY", x, rid)
  <2>1. x \in 0 .. MaxOpens /\ toInput \in [Conn -> Seq(Packets)]
    BY <1>t DEF Id, Typed, PairTyped
  <2>2. o \in Packets /\ o.a0 = x /\ o.a1 = rid
    BY SMTT(20), <1>4, <2>1, PacketTypes DEF Pkt
  <2>3. toInput' = [toInput EXCEPT ![c] = @ \o <<o>>]
    BY Zenon, <1>0, <1>2, <1>3 DEF Sent
  <2> HIDE DEF o
  <2>4. <<o>> \in Seq(Packets) /\ Items(<<o>>) = {o}
    BY <2>2 DEF Items
  <2>5. \A q : GoodOut(q) => GoodOut(q)'
    BY Zenon, <1>5, <1>9 DEF GoodOut
  <2>6. GoodOut(o)'
    BY Zenon, <1>5, <1>10, <2>2 DEF GoodOut
  <2>7. ASSUME NEW d \in Conn, NEW q \in Items(toInput'[d]) \cup Items(tx'[d])
        PROVE  GoodOut(q)'
    <3>1. toInput'[d] = toInput[d] \/ toInput'[d] = toInput[d] \o <<o>>
      BY Zenon, <2>1, <2>3
    <3>2. Items(toInput[d] \o <<o>>) = Items(toInput[d]) \cup Items(<<o>>)
      <4>1. toInput[d] \in Seq(Packets)
        BY Zenon, <2>1
      <4> QED
        BY Zenon, <2>4, <4>1, JoinItems
    <3>3. tx'[d] = tx[d]
      BY Zenon, <1>1
    <3>4. q \in Items(toInput[d]) \cup Items(tx[d]) \/ q = o
      BY Zenon, <2>4, <3>1, <3>2, <3>3
    <3> QED
      BY Zenon, <1>i, <2>5, <2>6, <3>4 DEF QueuesGood
  <2> QED
    BY Zenon, <1>15, <2>7 DEF QueuesGood, Items
<1>17. AskedOnce'
  <2>1. ASSUME NEW d \in Conn
        PROVE  /\ Once(rx'[d]) /\ Once(toLoop'[d]) /\ OpensIn(rx'[d]) \cap OpensIn(toLoop'[d]) = {}
               /\ Asked(d)' \subseteq Asked(d)
    <3>1. Once(rx[d]) /\ Once(toLoop[d]) /\ OpensIn(rx[d]) \cap OpensIn(toLoop[d]) = {}
      BY Zenon, <1>i DEF AskedOnce
    <3> QED
      BY Zenon, <1>1, <1>t, <3>1, MovedKeeps DEF Typed
  <2>2. \A d \in Conn : /\ Once(rx[d])' /\ Once(toLoop[d])'
                        /\ (OpensIn(rx[d]) \cap OpensIn(toLoop[d]))' = {}
    BY Zenon, <2>1 DEF Once, OpensIn, Items
  <2>3. \A d, e \in Conn : d # e => Asked(d)' \cap Asked(e)' = {}
    BY Zenon, <1>i, <2>1 DEF AskedOnce
  <2> QED
    BY Zenon, <2>2, <2>3 DEF AskedOnce
<1>18. StreamNames'
  <2>1. opens \in 0 .. MaxOpens
    BY Zenon, <1>t DEF Typed, HostTyped
  <2>2. host' = host /\ opens' = opens
    BY Zenon, <1>1
  <2>3. rid <= opens
    BY <1>4, <2>1, Bounds
  <2>4. sock'[x].rid = rid /\ sock'[x].peer = c /\ \A id \in Id : id # x => sock'[id] = sock[id]
    BY Zenon, <1>5
  <2>5. \A id \in Id : sock'[id].rid <= opens
    BY Zenon, <1>i, <2>3, <2>4 DEF StreamNames
  <2>6. ASSUME NEW id \in Id, NEW j \in Id, sock'[id].rid = sock'[j].rid, id # j
        PROVE  sock'[id].rid = 0
    <3>1. CASE id = x \/ j = x
      BY Zenon, <1>4, <2>4, <2>6, <3>1
    <3>2. CASE id # x /\ j # x
      BY ZenonT(60), <1>i, <2>4, <2>6, <3>2 DEF StreamNames
    <3> QED
      BY Zenon, <3>1, <3>2
  <2>7. ASSUME NEW id \in Id, NEW d \in Conn, sock'[id].rid = host[d].rid
        PROVE  sock'[id].rid = 0 \/ sock'[id].peer \in {0, d}
    <3>1. CASE id = x
      BY Zenon, <1>4, <2>4, <2>7, <3>1
    <3>2. CASE id # x
      BY ZenonT(60), <1>i, <2>4, <2>7, <3>2 DEF StreamNames
    <3> QED
      BY Zenon, <3>1, <3>2
  <2> QED
    BY Zenon, <1>i, <2>2, <2>5, <2>6, <2>7 DEF StreamNames
<1>19. SvcTyped' /\ SvcInv'
  <2>1. SvcTyped'
    BY Zenon, <1>0, <1>1, <1>i DEF SvcTyped
  <2>2. "create" # "exit"
    OBVIOUS
  <2>3. \A id \in Id : svc[id].pc = "exit" => id # x /\ svc'[id].pc = "exit"
    BY Zenon, <1>7, <1>8
  <2> QED
    BY ZenonT(60), <1>1, <1>8, <1>i, <2>1, <2>2, <2>3 DEF SvcInv
<1>20. FileInv'
  <2> SUFFICES ASSUME ~overlap'
               PROVE  /\ \A id, j \in Id : Running(id)' /\ Running(j)' => id = j
                      /\ \A id \in Id : Writer(id)' => \A k \in 1 .. svc'[id].got : file'[k] = <<id, k>>
    BY Zenon DEF FileInv, Running, Writer
  <2>1. ~overlap /\ \A id \in Id : ~Running(id)
    BY Zenon, <1>0
  <2>2. \A id \in Id : id # x => ~Running(id)'
    BY Zenon, <1>8, <2>1 DEF Running
  <2>3. \A id \in Id : Writer(id)' => Running(id)'
    BY DEF Writer, Running
  <2>4. ~Writer(x)'
    BY <1>8 DEF Writer
  <2> QED
    BY Zenon, <2>2, <2>3, <2>4
<1>21. \A id \in Id : id # x => Stream(id)'
  <2> SUFFICES ASSUME NEW id \in Id, id # x, Live(id)'
               PROVE  /\ Held(id)'
                      /\ \A d \in Conn : sock'[id].st = "open" /\ sock'[id].peer = d => Coming(id, d)'
    BY Zenon DEF Stream
  <2>1. sock'[id] = sock[id] /\ chan'[id] = chan[id] /\ svc'[id] = svc[id] /\ host' = host
    BY Zenon, <1>1, <1>5, <1>6, <1>8
  <2>2. Live(id) /\ Pos(id)' = Pos(id) /\ (Held(id) => Held(id)')
    BY Zenon, <2>1 DEF Live, Pos, Held, From
  <2>3. \A d \in Conn : Carried(d, id)
    <3>1. ~ForSocket(p, id)
      BY Zenon, <1>1 DEF ForSocket
    <3> QED
      BY Zenon, <1>1, <3>1
  <2>4. LinkTyped /\ PairTyped
    BY Zenon, <1>t DEF Typed
  <2>5. ASSUME NEW d \in Conn, sock'[id].st = "open", sock'[id].peer = d
        PROVE  Coming(id, d)'
    <3>1. Coming(id, d)
      BY Zenon, <1>i, <2>1, <2>2, <2>5 DEF Stream
    <3> QED
      BY Zenon, <2>1, <2>2, <2>3, <2>4, <3>1, ComingKept
  <2> QED
    BY Zenon, <1>i, <2>2, <2>5 DEF Stream
<1>22. Stream(x)'
  <2>1. \A a : From(<< >>, a)
    BY DEF From
  <2>2. Held(x)'
    BY Zenon, <1>5, <1>6, <2>1 DEF Held
  <2>3. Pos(x)' = 0
    <3>1. Len(<< >>) = 0 /\ 0 + 0 + 0 = 0
      OBVIOUS
    <3> QED
      BY Zenon, <1>5, <1>6, <1>8, <3>1 DEF Pos
  <2>4. PICK l, r : l = toLoop'[c] /\ r = rx'[c]
    BY Zenon
  <2>5. l \in Seq(Packets) /\ r \in Seq(Packets)
    BY ZenonT(60), <1>1, <1>t, <2>4, TailFacts
  <2>6. \A q \in Items(l) \cup Items(r) : ~ForSocket(q, x)
    BY Zenon, <1>15, <2>4
  <2>7. 0 \in Nat
    OBVIOUS
  <2>8. Chain(l, x, 0, 0) /\ Chain(r, x, 0, 0)
    BY Zenon, <2>5, <2>6, <2>7, ChainFacts
  <2>9. host'[c].rid = sock'[x].rid => host'[c].sent = 0
    BY Zenon, <1>1, <1>4, <1>5
  <2>10. Chain(toLoop'[c], x, Pos(x)', 0) /\ Chain(rx'[c], x, 0, 0)
    BY Zenon, <2>3, <2>4, <2>8
  <2>11. Coming(x, c)'
    BY Zenon, <2>9, <2>10 DEF Coming, Chain
  <2> QED
    BY Zenon, <1>5, <2>2, <2>11 DEF Stream
<1>23. \A id \in Id : Stream(id)'
  BY Zenon, <1>21, <1>22
<1> QED
  BY ZenonT(60), <1>11, <1>12, <1>13, <1>16, <1>17, <1>18, <1>19, <1>20, <1>23 DEF StreamInv

LEMMA HandlePacketStream ==
  ASSUME AdbInv, StreamInv, NEW c \in Conn, HandlePacket(c)
  PROVE  StreamInv'
<1>1. Typed
  BY Zenon DEF AdbInv
<1> QED
  BY Zenon, <1>1, HandlersStream, OpenStream, WriteStream DEF HandlePacket

(* The callback of a socket: packets go on to the service, and the answers *)
(* to the host name the socket's own stream.                               *)
LEMMA EventHolds ==
  ASSUME Typed, StreamInv, NEW id \in Id, Event(id), \A j \in Id : SameHeld(j),
         \A d \in Conn : SentGood(d)
  PROVE  StreamInv'
<1>1. /\ UNCHANGED <<nextId, svc, file, overlap, exited, host, opens>>
      /\ UNCHANGED <<plugged, rx, tr, outPc, inPc, toLoop>>
  BY DEF Event, link, threads, service, hosts
<1>2. plugged' \in [Conn -> BOOLEAN]
  BY Zenon, <1>1 DEF StreamInv, SvcTyped
<1>3. \A d \in Conn : Kicked(d)' /\ Stays(d)
  BY Zenon, <1>1, KickStays, TransportStays DEF FirstKick
<1>4. \A d \in Conn : Moved(d) /\ \A j : Carried(d, j)
  BY Zenon, <1>1, QueuesStay DEF Reads
<1> QED
  BY Zenon, <1>1, <1>2, <1>3, <1>4, QuietSteps

LEMMA SocketEventStream ==
  ASSUME AdbInv, StreamInv, NEW id \in Id, LocalSocketEvent(id)
  PROVE  StreamInv'
<1>t. /\ Typed /\ LoopInv /\ ChanTyped /\ sock \in [Id -> Socks] /\ chan \in [Id -> Chans] /\ SvcTyped
      /\ SockLife(id)
  BY DEF AdbInv, Typed, SockTyped, ChanTyped, StreamInv
<1>0. Event(id)
  BY Zenon DEF LocalSocketEvent, EventWriteFails, EventWriteBlocks, EventWriteCloses, EventRest
<1>1. /\ UNCHANGED <<svc, tx>> /\ S(id) \in fde.pending
  BY <1>0 DEF Event, Dispatched, link, service
<1>2. sock[id].st \in {"open", "closing"}
  BY Zenon, <1>1, <1>t, Descriptors DEF LoopInv, Installed
<1>3. InUse(id) /\ id < nextId
  BY SMTT(60), <1>2, <1>t DEF InUse, SockLife
<1>4. /\ sock[id] \in Socks /\ sock[id].pkts \in Seq(1 .. Count) /\ Room(id) \in Nat
      /\ sock[id].peer \in 0 .. Conns /\ sock[id].rid \in 0 .. MaxOpens
  BY <1>t, RoomLeft DEF Socks
<1>5. ASSUME NEW j \in Id, sock'[j] = sock[j], chan'[j] = chan[j]
      PROVE  SameHeld(j)
  BY Zenon, <1>1, <1>5 DEF SameHeld, SameSock, Held, Pos, From, InUse
<1>6. CASE EventWriteFails(id)
  <2>1. CloseSocket(FdDequeue(fde, S(id)), id)
    BY Zenon, <1>6 DEF EventWriteFails
  <2>2. (\A j \in Id : SameHeld(j)) /\ \A d \in Conn : SentGood(d)
    BY ZenonT(60), <1>1, <1>3, <1>t, <2>1, CloseSocketHolds
  <2> QED
    BY Zenon, <1>0, <1>t, <2>2, EventHolds
<1>7. CASE EventWriteBlocks(id)
  <2>1. /\ sock' = [sock EXCEPT ![id].pkts = Rest(Room(id), @)]
        /\ chan' = [chan EXCEPT ![id].down = @ \o Fits(Room(id), sock[id].pkts)]
        /\ toInput' = toInput
    BY Zenon, <1>7 DEF EventWriteBlocks
  <2>2. /\ chan'[id].down = chan[id].down \o Fits(Room(id), sock[id].pkts)
        /\ sock'[id].pkts = Rest(Room(id), sock[id].pkts)
        /\ sock'[id].rid = sock[id].rid /\ sock'[id].peer = sock[id].peer /\ sock'[id].st = sock[id].st
        /\ \A j \in Id : j # id => sock'[j] = sock[j] /\ chan'[j] = chan[j]
    BY Zenon, <1>t, <2>1 DEF Socks, Chans
  <2>3. Held(id) => Held(id)' /\ Pos(id)' = Pos(id)
    BY ZenonT(60), <1>1, <1>4, <1>t, <2>2, PacketsWritten
  <2>4. SameHeld(id)
    BY Zenon, <2>2, <2>3 DEF SameHeld, SameSock, InUse
  <2>5. \A j \in Id : SameHeld(j)
    BY Zenon, <1>5, <2>2, <2>4
  <2>6. \A d \in Conn : SentGood(d)
    BY ZenonT(60), <1>1, <2>1, SentStays
  <2> QED
    BY ZenonT(60), <1>0, <1>t, <2>5, <2>6, EventHolds
<1>8. CASE EventWriteCloses(id)
  <2>1. /\ sock' = [sock EXCEPT ![id].st = "freed", ![id].pkts = << >>]
        /\ chan' = [chan EXCEPT ![id].down = @ \o sock[id].pkts, ![id].loopOpen = FALSE, ![id].up = 0]
        /\ toInput' = toInput /\ sock[id].st = "closing"
    BY Zenon, <1>8 DEF EventWriteCloses
  <2>2. /\ sock'[id] = [sock[id] EXCEPT !.st = "freed", !.pkts = << >>]
        /\ chan'[id] = [chan[id] EXCEPT !.down = @ \o sock[id].pkts, !.loopOpen = FALSE, !.up = 0]
        /\ \A j \in Id : j # id => sock'[j] = sock[j] /\ chan'[j] = chan[j]
    BY <1>t, <2>1
  <2>3. /\ chan'[id].down = chan[id].down \o sock[id].pkts
        /\ sock'[id].pkts = << >> /\ sock'[id].st = "freed"
        /\ sock'[id].rid = sock[id].rid /\ sock'[id].peer = sock[id].peer
    BY <1>4, <1>t, <2>2 DEF Socks, Chans
  <2>4. /\ Len(sock[id].pkts) \in Nat /\ Fits(Len(sock[id].pkts), sock[id].pkts) = sock[id].pkts
        /\ Rest(Len(sock[id].pkts), sock[id].pkts) = << >>
    BY Zenon, <1>4, AllFits
  <2>5. Held(id) => Held(id)' /\ Pos(id)' = Pos(id)
    BY ZenonT(60), <1>1, <1>t, <2>3, <2>4, PacketsWritten
  <2>6. "freed" # "open"
    OBVIOUS
  <2>7. SameHeld(id)
    BY ZenonT(60), <1>3, <2>3, <2>5, <2>6 DEF SameHeld, SameSock
  <2>8. \A j \in Id : SameHeld(j)
    BY Zenon, <1>5, <2>2, <2>7
  <2>9. \A d \in Conn : SentGood(d)
    BY Zenon, <1>1, <2>1, SentStays
  <2> QED
    BY Zenon, <1>0, <1>t, <2>8, <2>9, EventHolds
<1>9. CASE EventRest(id)
  <2> DEFINE w == "WRITE" \in Evs(id)
             r == "READ" \in Evs(id)
             data == r /\ chan[id].up > 0 /\ sock[id].peer # 0
             eof == r /\ ~chan[id].svcOpen
             c == sock[id].peer
             ps == (IF w THEN <<RemoteSocketReady(id)>> ELSE << >>)
                   \o (IF data THEN <<RemoteSocketEnqueue(id)>> ELSE << >>)
                   \o (IF eof /\ c # 0 THEN <<RemoteSocketClose(id)>> ELSE << >>)
             left == IF w THEN << >> ELSE sock[id].pkts
             gone == eof /\ (sock[id].st = "closing" \/ left = << >>)
             ks == IF gone THEN << >> ELSE left
             peer == IF eof THEN 0 ELSE c
             st == CASE gone -> "freed" [] eof /\ ~gone -> "closing" [] OTHER -> sock[id].st
             up == IF r THEN 0 ELSE chan[id].up
             down == IF w THEN chan[id].down \o sock[id].pkts ELSE chan[id].down
  <2>1. /\ toInput' = IF c = 0 THEN toInput ELSE Sent(c, ps)
        /\ sock' = [sock EXCEPT ![id].pkts = ks, ![id].peer = peer, ![id].st = st]
        /\ chan' = [chan EXCEPT ![id].up = up, ![id].down = down, ![id].loopOpen = ~gone]
    BY <1>9 DEF EventRest
  <2>2. \A d \in Conn : SentGood(d)
    <3>1. id \in 0 .. MaxOpens
      BY DEF Id
    <3> DEFINE p1 == RemoteSocketReady(id)
               p2 == RemoteSocketEnqueue(id)
               p3 == RemoteSocketClose(id)
    <3>2. p1 \in Packets /\ p1.a0 = id /\ p1.a1 = sock[id].rid
      BY ZenonT(60), <1>4, <3>1, PacketTypes DEF RemoteSocketReady, Pkt
    <3>3. p2 \in Packets /\ p2.cmd = "WRTE"
      <4>1. p2 = [cmd |-> "WRTE", a0 |-> id, a1 |-> sock[id].rid, data |-> << >>]
        BY DEF RemoteSocketEnqueue, Wrte, Pkt
      <4>2. << >> \in Seq(1 .. Count)
        BY Zenon, SeqNone
      <4> HIDE DEF p2
      <4> QED
        BY <1>4, <3>1, <4>1, <4>2 DEF Packets
    <3>4. p3 \in Packets /\ p3.cmd = "CLSE"
      BY SMTT(20), <1>4, SeqNone, PacketTypes DEF RemoteSocketClose
    <3>5. ps = (IF w THEN <<p1>> ELSE << >>) \o (IF data THEN <<p2>> ELSE << >>)
               \o (IF eof /\ c # 0 THEN <<p3>> ELSE << >>)
      OBVIOUS
    <3> HIDE DEF p1, p2, p3
    <3>6. GoodOut(p1) /\ GoodOut(p2) /\ GoodOut(p3)
      BY <1>3, <3>2, <3>3, <3>4 DEF GoodOut
    <3> DEFINE s1 == IF w THEN <<p1>> ELSE << >>
               s2 == IF data THEN <<p2>> ELSE << >>
               s3 == IF eof /\ c # 0 THEN <<p3>> ELSE << >>
               s12 == s1 \o s2
    <3>7. /\ s1 \in Seq(Packets) /\ Items(s1) \subseteq {p1}
          /\ s2 \in Seq(Packets) /\ Items(s2) \subseteq {p2}
          /\ s3 \in Seq(Packets) /\ Items(s3) \subseteq {p3}
      <4>1. \A x \in Packets : <<x>> \in Seq(Packets) /\ Items(<<x>>) = {x}
        BY DEF Items
      <4>2. << >> \in Seq(Packets) /\ Items(<< >>) = {}
        BY DEF Items
      <4> QED
        BY Zenon, <3>2, <3>3, <3>4, <4>1, <4>2
    <3>8. ps = s12 \o s3
      BY Zenon, <3>5
    <3> HIDE DEF s1, s2, s3
    <3>9. s12 \in Seq(Packets) /\ Items(s12) = Items(s1) \cup Items(s2)
      <4>1. s1 \o s2 \in Seq(Packets)
        BY <3>7
      <4> QED
        BY Zenon, <3>7, <4>1, JoinItems
    <3> HIDE DEF s12
    <3>10. ps \in Seq(Packets) /\ Items(ps) = Items(s12) \cup Items(s3)
      <4> HIDE DEF ps
      <4>1. s12 \o s3 \in Seq(Packets)
        BY <3>7, <3>9
      <4> QED
        BY ZenonT(60), <3>7, <3>8, <3>9, <4>1, JoinItems
    <3> HIDE DEF ps, c
    <3>11. \A x \in Items(ps) : GoodOut(x)
      BY Zenon, <3>6, <3>7, <3>9, <3>10
    <3>12. CASE c = 0
      BY Zenon, <1>1, <2>1, <3>12, SentStays
    <3>13. CASE c # 0
      <4>1. c \in Conn
        BY <1>4, <3>13, Bounds DEF Conn, c
      <4> QED
        BY ZenonT(60), <1>1, <1>t, <2>1, <3>10, <3>11, <3>13, <4>1, SendsGood
    <3> QED
      BY Zenon, <3>12, <3>13
  <2>3. \A j \in Id : j # id => sock'[j] = sock[j] /\ chan'[j] = chan[j]
    <3> HIDE DEF ks, peer, st, up, down, gone, ps, c
    <3> QED
      BY Zenon, <1>t, <2>1
  <2>4. /\ sock'[id].pkts = ks /\ sock'[id].peer = peer /\ sock'[id].st = st
        /\ sock'[id].rid = sock[id].rid /\ chan'[id].down = down
    <3> HIDE DEF ks, peer, st, up, down, gone, ps, c
    <3>1. /\ sock'[id] = [sock[id] EXCEPT !.pkts = ks, !.peer = peer, !.st = st]
          /\ chan'[id] = [chan[id] EXCEPT !.up = up, !.down = down, !.loopOpen = ~gone]
      BY <1>t, <2>1
    <3> QED
      BY <1>4, <1>t, <3>1 DEF Socks, Chans
  <2>5. CASE eof
    <3>1. peer = 0 /\ st # "open" /\ (ks = << >> \/ (ks = sock[id].pkts /\ ~w))
      BY <2>5
    <3>2. Held(id) => Held(id)'
      <4>1. \A a : From(<< >>, a)
        BY DEF From
      <4>2. CASE w
        <5>1. ks = << >> /\ down = chan[id].down \o sock[id].pkts
          BY ZenonT(60), <3>1, <4>2
        <5>2. /\ Len(sock[id].pkts) \in Nat /\ Fits(Len(sock[id].pkts), sock[id].pkts) = sock[id].pkts
              /\ Rest(Len(sock[id].pkts), sock[id].pkts) = << >>
          BY Zenon, <1>4, AllFits
        <5> HIDE DEF ks, down
        <5> QED
          BY ZenonT(60), <1>1, <1>t, <2>4, <5>1, <5>2, PacketsWritten
      <4>3. CASE ~w
        <5>1. down = chan[id].down
          BY Zenon, <4>3
        <5> HIDE DEF ks, down
        <5>2. chan'[id].down = chan[id].down /\ svc'[id] = svc[id]
          BY Zenon, <1>1, <2>4, <5>1
        <5>3. From(chan[id].down, svc[id].got) => From(chan'[id].down, svc'[id].got)
          BY Zenon, <5>2
        <5>4. From(sock[id].pkts, svc[id].got + Len(chan[id].down)) =>
                 From(sock'[id].pkts, svc'[id].got + Len(chan'[id].down))
          BY ZenonT(60), <2>4, <3>1, <4>1, <5>2
        <5> QED
          BY Zenon, <5>3, <5>4 DEF Held, From
      <4> QED
        BY Zenon, <4>2, <4>3
    <3> HIDE DEF st, peer, ks, down
    <3>3. SameHeld(id)
      BY ZenonT(60), <1>3, <2>4, <3>1, <3>2 DEF SameHeld, SameSock
    <3>4. \A j \in Id : SameHeld(j)
      BY ZenonT(60), <1>5, <2>3, <3>3
    <3> QED
      BY ZenonT(60), <1>0, <1>t, <2>2, <3>4, EventHolds
  <2>6. CASE ~eof
    <3>1. peer = sock[id].peer /\ st = sock[id].st /\ ks = left
      BY Zenon, <2>6
    <3>2. Held(id) => Held(id)' /\ Pos(id)' = Pos(id)
      <4>1. CASE w
        <5>1. ks = << >> /\ down = chan[id].down \o sock[id].pkts
          BY Zenon, <3>1, <4>1
        <5>2. /\ Len(sock[id].pkts) \in Nat /\ Fits(Len(sock[id].pkts), sock[id].pkts) = sock[id].pkts
              /\ Rest(Len(sock[id].pkts), sock[id].pkts) = << >>
          BY Zenon, <1>4, AllFits
        <5> HIDE DEF ks, down
        <5> QED
          BY ZenonT(60), <1>1, <1>t, <2>4, <5>1, <5>2, PacketsWritten
      <4>2. CASE ~w
        <5>1. ks = sock[id].pkts /\ down = chan[id].down
          BY Zenon, <3>1, <4>2
        <5> HIDE DEF ks, down
        <5> QED
          BY Zenon, <1>1, <2>4, <5>1 DEF Held, Pos, From
      <4> QED
        BY Zenon, <4>1, <4>2
    <3> HIDE DEF st, peer, ks, down
    <3>3. SameHeld(id)
      BY ZenonT(60), <2>4, <3>1, <3>2 DEF SameHeld, SameSock, InUse
    <3>4. \A j \in Id : SameHeld(j)
      BY Zenon, <1>5, <2>3, <3>3
    <3> QED
      BY Zenon, <1>0, <1>t, <2>2, <3>4, EventHolds
  <2> QED
    BY ZenonT(60), <2>5, <2>6
<1> QED
  BY Zenon, <1>6, <1>7, <1>8, <1>9 DEF LocalSocketEvent
=============================================================================
