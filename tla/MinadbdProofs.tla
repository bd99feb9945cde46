--------------------------- MODULE MinadbdProofs ----------------------------
(***************************************************************************)
(* The rest of the proof about minadbd, for the packets, sockets and the   *)
(* service that its event loop drives, and the theorems that follow.       *)
(***************************************************************************)
EXTENDS TransportProofs

-----------------------------------------------------------------------------
(* Steps that only do what most steps do, and select().                    *)
LEMMA HarmlessKeeps ==
  ASSUME AdbInv, Harmless
  PROVE  AdbInv'
<1>0. Typed /\ LifeInv /\ PacketInv /\ LoopInv /\ RegTyped
  BY DEF AdbInv, Typed
<1>1. Typed' /\ SameLife /\ PacketEffects /\ LoopEffects
  BY DEF Harmless
<1>2. (reg # << >> => reg' # << >>) /\ \A c \in Conn : tr'[c].st = tr[c].st
  BY SMTT(20), <1>1 DEF SameLife
<1> QED
  BY <1>0, <1>1, <1>2, PacketKept, LifeKept, LoopKept DEF AdbInv

LEMMA FdeSelect ==
  ASSUME NEW F \in Evented, NEW ready
  PROVE  /\ FdSelected(F, ready) \in Evented /\ FdSelected(F, ready).want = F.want
         /\ \A d \in FdSelected(F, ready).pending : F.want[d] # {} /\ ready[d] # {}
  BY Zenon DEF FdSelected, Evented

LEMMA ReadyReg ==
  ASSUME Ready[Reg] # {}
  PROVE  reg # << >>
  BY Descriptors DEF Ready, Reg

LEMMA SelectKeeps ==
  ASSUME AdbInv, Select
  PROVE  AdbInv'
<1>0. /\ Typed /\ LifeInv /\ PacketInv /\ LoopInv /\ UsbTyped /\ LinkTyped /\ RegTyped /\ TrTyped
      /\ PcTyped /\ PairTyped /\ FdeTyped /\ SockTyped /\ ChanTyped /\ HostTyped
  BY DEF AdbInv, Typed
<1>1. /\ fde' = FdSelected(fde, Ready)
      /\ UNCHANGED <<usbFd, openPc, last, rx, tx, reg, tr, outPc, inPc, toLoop, toInput, sock,
                     nextId, chan, host, opens>>
  BY DEF Select, usb, link, threads, hosts
<1>2. /\ fde' \in Evented /\ fde'.want = fde.want
      /\ \A d \in fde'.pending : fde.want[d] # {} /\ Ready[d] # {}
  BY <1>0, <1>1, FdeSelect DEF FdeTyped
<1>3. Typed'
  BY <1>0, <1>1, <1>2 DEF Typed, UsbTyped, LinkTyped, RegTyped, TrTyped, PcTyped, PairTyped,
        FdeTyped, SockTyped, ChanTyped, HostTyped
<1>4. LifeInv'
  <2>1. SameLife
    BY <1>1 DEF SameLife, FirstKick
  <2> QED
    BY <1>0, <2>1, LifeKept
<1>5. PacketInv'
  <2>1. PacketEffects
    BY <1>1 DEF PacketEffects, NoSyncSent, NoSyncAdded, OfTransport
  <2> QED
    BY <1>0, <2>1, PacketKept
<1>6. LoopInv'
  <2>1. Reg \in fde'.pending => reg' # << >>
    BY <1>1, <1>2, ReadyReg
  <2>2. ASSUME NEW d \in Fds, fde'.want[d] # {} \/ d \in fde'.pending
        PROVE  Installed(d)'
    <3>1. Installed(d)
      BY <1>0, <1>2, <2>2 DEF LoopInv
    <3> QED
      BY <1>1, <3>1 DEF Installed
  <2> QED
    BY <2>1, <2>2 DEF LoopInv
<1> QED
  BY <1>3, <1>4, <1>5, <1>6 DEF AdbInv

LEMMA StutterKeeps ==
  ASSUME AdbInv, UNCHANGED vars
  PROVE  AdbInv'
<1>0. Typed
  BY DEF AdbInv
<1>1. UNCHANGED <<usbFd, openPc, last, rx, tx, reg, tr, outPc, inPc, toLoop, toInput, fde, sock,
                  nextId, chan, host, opens>>
  BY DEF vars
<1>2. Typed'
  BY <1>0, <1>1 DEF Typed, UsbTyped, LinkTyped, RegTyped, TrTyped, PcTyped, PairTyped,
        FdeTyped, SockTyped, ChanTyped, HostTyped
<1>3. SameLife
  BY <1>1 DEF SameLife, FirstKick
<1>4. PacketEffects
  BY <1>1 DEF PacketEffects, NoSyncSent, NoSyncAdded, OfTransport
<1>5. LoopEffects
  BY <1>0, <1>1 DEF Typed, FdeTyped, LoopEffects, Watched
<1>6. Harmless
  BY <1>2, <1>3, <1>4, <1>5 DEF Harmless
<1> QED
  BY <1>6, HarmlessKeeps

-----------------------------------------------------------------------------
(* What the callbacks of the loop have in common.                          *)
LEMMA JoinFacts ==
  ASSUME NEW X, NEW q \in Seq(X), NEW ps \in Seq(X)
  PROVE  /\ DOMAIN q = 1 .. Len(q) /\ DOMAIN (q \o ps) = 1 .. Len(q) + Len(ps)
         /\ \A j \in DOMAIN (q \o ps) : IF j \in DOMAIN q THEN (q \o ps)[j] = q[j]
                                        ELSE /\ j - Len(q) \in 1 .. Len(ps)
                                             /\ (q \o ps)[j] = ps[j - Len(q)]
  OBVIOUS

LEMMA SentPackets ==
  ASSUME PairTyped, NEW c \in Conn, NEW ps \in Seq(Packets), toInput' = Sent(c, ps)
  PROVE  /\ toInput' \in [Conn -> Seq(Packets)]
         /\ (\A i \in 1 .. Len(ps) : ~IsSync0(ps[i])) => NoSyncAdded
<1>0. toInput \in [Conn -> Seq(Packets)] /\ toInput' = [toInput EXCEPT ![c] = @ \o ps]
  BY DEF PairTyped, Sent
<1>1. toInput' \in [Conn -> Seq(Packets)]
  BY <1>0, Queues
<1>2. ASSUME \A i \in 1 .. Len(ps) : ~IsSync0(ps[i]),
             NEW e \in Conn, NEW j \in DOMAIN toInput'[e], IsSync0(toInput'[e][j])
      PROVE  \E i \in DOMAIN toInput[e] : IsSync0(toInput[e][i])
  <2>1. CASE e # c
    BY <1>0, <1>2, <2>1
  <2>2. CASE e = c
    <3>1. toInput'[c] = toInput[c] \o ps /\ toInput[c] \in Seq(Packets)
      BY <1>0
    <3> HIDE DEF IsSync0
    <3> QED
      BY <1>2, <2>2, <3>1, JoinFacts
  <2> QED
    BY <2>1, <2>2
<1> QED
  BY Zenon, <1>1, <1>2 DEF NoSyncAdded

LEMMA NothingSent ==
  ASSUME PairTyped, UNCHANGED toInput
  PROVE  toInput' \in [Conn -> Seq(Packets)] /\ NoSyncAdded
  BY DEF PairTyped, NoSyncAdded

LEMMA Dequeued ==
  ASSUME Typed, NEW x \in Fds
  PROVE  /\ FdDequeue(fde, x) \in Evented /\ FdDequeue(fde, x).pending \subseteq fde.pending
         /\ \A d \in Fds : FdDequeue(fde, x).want[d] = fde.want[d]
<1>1. fde \in Evented
  BY DEF Typed, FdeTyped
<1> QED
  BY Zenon, <1>1 DEF FdDequeue, Evented

LEMMA Written ==
  ASSUME ChanTyped, NEW id \in Id, NEW ks \in Seq(1 .. Count),
         Len(chan[id].down) + Len(ks) <= SockRoom, chan' = [chan EXCEPT ![id].down = @ \o ks]
  PROVE  ChanTyped'
<1> DEFINE K == 1 .. Count
<1>0. /\ chan \in [Id -> Chans] /\ \A j \in Id : Len(chan[j].down) <= SockRoom
      /\ chan[id].down \in Seq(K) /\ ks \in Seq(K)
  BY DEF ChanTyped, Chans
<1> HIDE DEF K
<1>1. chan[id].down \o ks \in Seq(K) /\ Len(chan[id].down \o ks) = Len(chan[id].down) + Len(ks)
  BY <1>0
<1>2. chan'[id].down = chan[id].down \o ks /\ \A j \in Id : j # id => chan'[j] = chan[j]
  BY <1>0 DEF Chans
<1>3. chan' \in [Id -> Chans]
  BY Zenon, <1>0, <1>1 DEF Chans, K
<1> QED
  BY <1>0, <1>1, <1>2, <1>3 DEF ChanTyped

LEMMA Queued ==
  ASSUME Typed, NEW id \in Id, NEW ks \in Seq(1 .. Count), sock' = [sock EXCEPT ![id].pkts = ks]
  PROVE  /\ sock' \in [Id -> Socks] /\ \A j \in Id : sock'[j].st = sock[j].st
         /\ \A e \in Conn : OfTransport(e)' = OfTransport(e)
<1>1. sock \in [Id -> Socks]
  BY DEF Typed, SockTyped
<1>2. sock' \in [Id -> Socks] /\ \A j \in Id : sock'[j].st = sock[j].st /\ sock'[j].peer = sock[j].peer
  BY Zenon, <1>1 DEF Socks
<1> QED
  BY <1>2 DEF OfTransport

(* s->close() of a socket, with what it sends to the host.                 *)
LEMMA SocketCloses ==
  ASSUME Typed, NEW x \in Fds, NEW id \in Id, CloseSocket(FdDequeue(fde, x), id)
  PROVE  /\ sock' \in [Id -> Socks] /\ ChanTyped' /\ FdeTyped' /\ LoopEffects
         /\ toInput' \in [Conn -> Seq(Packets)] /\ NoSyncAdded
         /\ \A e \in Conn : OfTransport(e)' \subseteq OfTransport(e)
<1> DEFINE F == FdDequeue(fde, x)
           ids == {id}
           p == RemoteSocketClose(id)
           c == sock[id].peer
<1>0. /\ SockTyped /\ ChanTyped /\ FdeTyped /\ PairTyped /\ ids \in SUBSET Id /\ Close(F, ids)
      /\ toInput' = IF c = 0 THEN toInput ELSE Sent(c, <<p>>)
  BY DEF Typed, CloseSocket
<1>1. /\ F \in Evented /\ F.pending \subseteq fde.pending
      /\ \A d \in Fds : F.want[d] \subseteq fde.want[d]
  BY <1>0, Dequeued
<1>2. c \in 0 .. Conns /\ sock[id].rid \in 0 .. MaxOpens
  BY Zenon, <1>0, SockFields
<1>3. <<p>> \in Seq(Packets) /\ p.cmd = "CLSE"
  <2>1. p = Pkt("CLSE", 0, sock[id].rid)
    BY Zenon DEF RemoteSocketClose
  <2> HIDE DEF p
  <2> QED
    BY Zenon, <1>2, <2>1, CloseTypes
<1> HIDE DEF F, ids, p, c
<1>4. /\ sock' \in [Id -> Socks] /\ ChanTyped' /\ FdeTyped' /\ LoopEffects
      /\ \A e \in Conn : OfTransport(e)' \subseteq OfTransport(e) \ ids
  BY <1>0, <1>1, ClosingEffects
<1>5. \A i \in 1 .. Len(<<p>>) : ~IsSync0(<<p>>[i])
  BY <1>3 DEF IsSync0
<1>6. toInput' \in [Conn -> Seq(Packets)] /\ NoSyncAdded
  <2>1. CASE c = 0
    BY <1>0, <2>1, NothingSent
  <2>2. CASE c # 0
    <3>1. c \in Conn /\ toInput' = Sent(c, <<p>>)
      BY <1>0, <1>2, <2>2 DEF Conn
    <3> QED
      BY Zenon, <1>0, <1>3, <1>5, <3>1, SentPackets
  <2> QED
    BY <2>1, <2>2
<1> QED
  BY <1>4, <1>6

-----------------------------------------------------------------------------
(* The callback of a transport: what every handler of a packet does, and   *)
(* then each of them.  HandleSyncOff passes SYNC(0) on, after closing all  *)
(* of the sockets; the others do no more than Harmless.                    *)
LEMMA HandlePacketKeeps ==
  \A c \in Conn : AdbInv /\ HandlePacket(c) => AdbInv'
<1>DequeueOnly.
  ASSUME Typed, NEW x \in Fds, fde' = FdDequeue(fde, x), UNCHANGED sock
  PROVE  FdeTyped' /\ LoopEffects
  <2> USE <1>DequeueOnly
  <2>1. /\ FdDequeue(fde, x) \in Evented /\ FdDequeue(fde, x).pending \subseteq fde.pending
        /\ \A d \in Fds : FdDequeue(fde, x).want[d] = fde.want[d]
    BY Dequeued
  <2> QED
    BY <2>1 DEF FdeTyped, LoopEffects, Watched
<1>AddOne.
  ASSUME Typed, NEW F \in Evented, NEW id \in Id, NEW ev \in SUBSET {"READ", "WRITE"},
         F.pending \subseteq fde.pending,
         \A d \in Fds : d # S(id) => F.want[d] \subseteq fde.want[d],
         fde' = FdAdd(F, {S(id)}, ev), sock' \in [Id -> Socks], sock'[id].st = "open",
         \A j \in Id : j # id => sock'[j].st = sock[j].st
  PROVE  FdeTyped' /\ LoopEffects
  <2> USE <1>AddOne
  <2> DEFINE D == {S(id)}
  <2>0. D \in SUBSET Fds /\ fde' = FdAdd(F, D, ev) /\ \A d \in Fds : d # S(id) => d \notin D
    BY Descriptors
  <2> HIDE DEF D
  <2>1. /\ fde' \in Evented /\ fde'.pending \subseteq F.pending
        /\ \A d \in Fds : d # S(id) => fde'.want[d] = F.want[d]
    <3>1. D \in SUBSET Fds /\ F \in Evented /\ ev \in SUBSET {"READ", "WRITE"}
      BY <2>0
    <3>2. /\ FdAdd(F, D, ev) \in Evented /\ FdAdd(F, D, ev).pending \subseteq F.pending
          /\ \A d \in Fds : d \notin D => FdAdd(F, D, ev).want[d] = F.want[d]
      BY ZenonT(60), <3>1, FdeAdded
    <3> QED
      BY Zenon, <2>0, <3>2
  <2>2. Installed(S(id))'
    BY Descriptors DEF Installed
  <2> QED
    BY Zenon, <2>1, <2>2 DEF FdeTyped, LoopEffects, Watched
<1>NothingLeft.
  ASSUME NEW X, NEW q \in Seq(X), Len(q) = 0
  PROVE  q = << >>
  BY SMTT(20), <1>NothingLeft
<1>Handled.
  ASSUME Typed, NEW c \in Conn, NEW cmd, Handle(c, cmd)
  PROVE  /\ toLoop' \in [Conn -> Seq(Packets)] /\ toLoop[c] # << >>
         /\ Head(toLoop[c]) \in Packets /\ Head(toLoop[c]).cmd = cmd
         /\ Head(toLoop[c]).a0 \in 0 .. MaxOpens /\ Head(toLoop[c]).a1 \in 0 .. MaxOpens
         /\ Head(toLoop[c]).data \in Seq(1 .. Count)
         /\ UNCHANGED <<usbFd, last, openPc, rx, tx, reg, outPc, inPc, host, opens>>
         /\ \A e \in Conn : toLoop'[e] = IF e = c THEN Tail(toLoop[c]) ELSE toLoop[e]
  <2> USE <1>Handled
  <2>1. toLoop \in [Conn -> Seq(Packets)] /\ toLoop[c] # << >>
    BY DEF Typed, PairTyped, Handle
  <2>2. toLoop' = [toLoop EXCEPT ![c] = Tail(@)]
    BY DEF Handle
  <2>3. toLoop' \in [Conn -> Seq(Packets)] /\ Head(toLoop[c]) \in Packets
    BY <2>1, <2>2, Queues
  <2>4. /\ Head(toLoop[c]).a0 \in 0 .. MaxOpens /\ Head(toLoop[c]).a1 \in 0 .. MaxOpens
        /\ Head(toLoop[c]).data \in Seq(1 .. Count)
    BY <2>3 DEF Packets
  <2>5. /\ UNCHANGED <<usbFd, last, openPc, rx, tx, reg, outPc, inPc, host, opens>>
        /\ Head(toLoop[c]).cmd = cmd
    BY DEF Handle, usb, link, threads, hosts
  <2>6. \A e \in Conn : toLoop'[e] = IF e = c THEN Tail(toLoop[c]) ELSE toLoop[e]
    BY <2>1, <2>2
  <2> QED
    BY <2>1, <2>3, <2>4, <2>5, <2>6
<1>HandlerTyped.
  ASSUME Typed, NEW c \in Conn, NEW cmd, Handle(c, cmd), TrTyped',
         toInput' \in [Conn -> Seq(Packets)], SockTyped', ChanTyped', FdeTyped'
  PROVE  Typed'
  <2> USE <1>HandlerTyped
  <2>0. UsbTyped /\ LinkTyped /\ RegTyped /\ PcTyped /\ HostTyped
    BY Zenon DEF Typed
  <2>1. /\ UNCHANGED <<usbFd, last, openPc, rx, tx, reg, outPc, inPc, host, opens>>
        /\ toLoop' \in [Conn -> Seq(Packets)]
    BY Zenon, <1>Handled
  <2>2. UsbTyped' /\ LinkTyped' /\ RegTyped' /\ PcTyped' /\ HostTyped'
    BY <2>0, <2>1 DEF UsbTyped, LinkTyped, RegTyped, PcTyped, HostTyped
  <2>3. PairTyped'
    BY Zenon, <2>1 DEF PairTyped
  <2> QED
    BY Zenon, <2>2, <2>3 DEF Typed
<1>HandlerPackets.
  ASSUME Typed, NEW c \in Conn, NEW cmd, Handle(c, cmd), NoSyncAdded,
         \A e \in Conn : e # c => OfTransport(e)' \subseteq OfTransport(e)
  PROVE  PacketEffects
  <2> USE <1>HandlerPackets
  <2>1. /\ UNCHANGED <<rx, outPc, inPc>> /\ toLoop[c] # << >>
        /\ \A e \in Conn : toLoop'[e] = IF e = c THEN Tail(toLoop[c]) ELSE toLoop[e]
    BY Zenon, <1>Handled
  <2>2. NoSyncSent
    BY <2>1 DEF NoSyncSent
  <2> QED
    BY <2>1, <2>2 DEF PacketEffects
<1>HandlerLife.
  ASSUME Typed, NEW c \in Conn, NEW cmd, Handle(c, cmd), NEW s \in {"offline", "host"},
         UNCHANGED tr \/ tr' = [tr EXCEPT ![c].cs = s]
  PROVE  TrTyped' /\ SameLife
  <2> USE <1>HandlerLife
  <2>0. tr \in [Conn -> Transports]
    BY DEF Typed, TrTyped
  <2>1. UNCHANGED <<usbFd, last, openPc, reg, outPc, inPc>>
    BY Zenon, <1>Handled
  <2>2. TrTyped'
    BY <2>0 DEF TrTyped, Transports
  <2>3. ASSUME NEW e \in Conn
        PROVE  tr'[e].st = tr[e].st /\ tr'[e].ref = tr[e].ref /\ tr'[e].kicked = tr[e].kicked
    BY <2>0 DEF Transports
  <2>4. ASSUME NEW e \in Conn
        PROVE  FirstKick(e)' <=> FirstKick(e)
    BY <2>3, Zenon DEF FirstKick
  <2> QED
    BY <2>1, <2>2, <2>3, <2>4 DEF SameLife
<1>OfflineCloses.
  ASSUME Typed, NEW c \in Conn, Close(FdDequeue(fde, T(c)), OfTransport(c))
  PROVE  /\ sock' \in [Id -> Socks] /\ ChanTyped' /\ FdeTyped' /\ LoopEffects
         /\ \A e \in Conn : OfTransport(e)' \subseteq OfTransport(e) \ OfTransport(c)
  <2> USE <1>OfflineCloses
  <2> DEFINE F == FdDequeue(fde, T(c))
             ids == OfTransport(c)
  <2>1. SockTyped /\ ChanTyped /\ FdeTyped /\ T(c) \in Fds /\ ids \in SUBSET Id /\ Close(F, ids)
    BY Descriptors DEF Typed, OfTransport
  <2>2. /\ F \in Evented /\ F.pending \subseteq fde.pending
        /\ \A d \in Fds : F.want[d] \subseteq fde.want[d]
    BY Zenon, <2>1, Dequeued
  <2> HIDE DEF F, ids
  <2>3. /\ sock' \in [Id -> Socks] /\ ChanTyped' /\ FdeTyped' /\ LoopEffects
        /\ \A e \in Conn : OfTransport(e)' \subseteq OfTransport(e) \ ids
    BY <2>1, <2>2, ClosingEffects
  <2> QED
    BY <2>3 DEF ids
<1>HandleSyncOnKeeps.
  ASSUME Typed, NEW c \in Conn, HandleSyncOn(c)
  PROVE  Harmless
  <2> USE <1>HandleSyncOnKeeps
  <2> DEFINE p == Head(toLoop[c])
  <2>0. /\ Handle(c, "SYNC") /\ p.a0 = 1 /\ toInput' = Sent(c, <<p>>)
        /\ fde' = FdDequeue(fde, T(c)) /\ UNCHANGED <<tr, sock, nextId, chan>>
    BY DEF HandleSyncOn
  <2>t. T(c) \in Fds /\ PairTyped /\ SockTyped /\ ChanTyped
    BY Descriptors DEF Typed
  <2>1. p \in Packets
    BY <2>0, <1>Handled
  <2> HIDE DEF p
  <2>2. <<p>> \in Seq(Packets) /\ \A i \in 1 .. Len(<<p>>) : ~IsSync0(<<p>>[i])
    BY <2>0, <2>1 DEF IsSync0
  <2>3. toInput' \in [Conn -> Seq(Packets)] /\ NoSyncAdded
    BY Zenon, <2>0, <2>2, <2>t, SentPackets
  <2>4. FdeTyped' /\ LoopEffects
    BY <2>0, <2>t, <1>DequeueOnly
  <2>5. SockTyped' /\ ChanTyped'
    BY <2>0, <2>t DEF SockTyped, ChanTyped
  <2>6. TrTyped' /\ SameLife
    BY <2>0, <1>HandlerLife
  <2>7. Typed'
    BY Zenon, <2>0, <2>3, <2>4, <2>5, <2>6, <1>HandlerTyped
  <2>8. PacketEffects
    <3>1. \A e \in Conn : OfTransport(e)' = OfTransport(e)
      BY <2>0 DEF OfTransport
    <3> QED
      BY <2>0, <2>3, <3>1, <1>HandlerPackets
  <2> QED
    BY <2>4, <2>6, <2>7, <2>8 DEF Harmless
<1>HandleSyncOffKeeps.
  ASSUME Typed, NEW c \in Conn, HandleSyncOff(c)
  PROVE  Typed' /\ SameLife /\ LoopEffects /\ OfTransport(c)' = {}
         /\ \A e \in Conn : OfTransport(e)' \subseteq OfTransport(e)
  <2> USE <1>HandleSyncOffKeeps
  <2> DEFINE p == Head(toLoop[c])
  <2>0. /\ Handle(c, "SYNC") /\ toInput' = Sent(c, <<p>>) /\ UNCHANGED nextId
        /\ tr' = [tr EXCEPT ![c].cs = "offline"] /\ Close(FdDequeue(fde, T(c)), OfTransport(c))
    BY DEF HandleSyncOff, HandleOffline
  <2>t. T(c) \in Fds /\ PairTyped /\ SockTyped /\ ChanTyped /\ FdeTyped
    BY Descriptors DEF Typed
  <2>1. p \in Packets
    BY <2>0, <1>Handled
  <2> HIDE DEF p
  <2>2. <<p>> \in Seq(Packets)
    BY <2>1
  <2>3. toInput' \in [Conn -> Seq(Packets)]
    BY Zenon, <2>0, <2>2, <2>t, SentPackets
  <2>4. /\ sock' \in [Id -> Socks] /\ ChanTyped' /\ FdeTyped' /\ LoopEffects
        /\ \A e \in Conn : OfTransport(e)' \subseteq OfTransport(e) \ OfTransport(c)
    BY <2>0, <2>t, <1>OfflineCloses
  <2>5. SockTyped'
    BY <2>0, <2>4, <2>t DEF SockTyped
  <2>6. TrTyped' /\ SameLife
    BY Zenon, <2>0, <1>HandlerLife
  <2>7. Typed'
    BY Zenon, <2>0, <2>3, <2>4, <2>5, <2>6, <1>HandlerTyped
  <2> QED
    BY <2>4, <2>6, <2>7
<1>SyncOffKeeps.
  ASSUME AdbInv, NEW c \in Conn, HandleSyncOff(c)
  PROVE  AdbInv'
  <2> USE <1>SyncOffKeeps
  <2>0. /\ Typed /\ LifeInv /\ PacketInv /\ LoopInv /\ RegTyped /\ toLoop \in [Conn -> Seq(Packets)]
        /\ toInput \in [Conn -> Seq(Packets)]
    BY DEF AdbInv, Typed, PairTyped
  <2>1. /\ Typed' /\ SameLife /\ LoopEffects /\ OfTransport(c)' = {}
        /\ \A e \in Conn : OfTransport(e)' \subseteq OfTransport(e)
    BY Zenon, <2>0, <1>HandleSyncOffKeeps
  <2>2. LifeInv' /\ LoopInv'
    <3>1. (reg # << >> => reg' # << >>) /\ \A e \in Conn : tr'[e].st = tr[e].st
      BY <2>1 DEF SameLife
    <3> QED
      BY Zenon, <2>0, <2>1, <3>1, LifeKept, LoopKept
  <2>3. /\ toLoop[c] # << >> /\ IsSync0(Head(toLoop[c])) /\ UNCHANGED <<rx, outPc, inPc>>
        /\ toLoop' = [toLoop EXCEPT ![c] = Tail(@)]
        /\ toInput' = [toInput EXCEPT ![c] = @ \o <<Head(toLoop[c])>>]
    BY DEF HandleSyncOff, Handle, Sent, IsSync0, threads, link
  <2>4. ASSUME NEW e \in Conn
        PROVE  PacketsOf(e)'
    <3>0. PacketsOf(e) /\ (Stopping(e)' <=> Stopping(e)) /\ rx'[e] = rx[e]
      BY ZenonT(60), <2>0, <2>3 DEF PacketInv, Stopping
    <3>1. CASE e # c
      <4>1. toLoop'[e] = toLoop[e] /\ (Over(e)' <=> Over(e))
        BY Zenon, <2>0, <2>3, <3>1 DEF Over
      <4> QED
        BY <2>1, <3>0, <4>1, PacketsStay
    <3>2. CASE e = c
      <4>1. toLoop[e] \in Seq(Packets) /\ toLoop[e] # << >> /\ toLoop'[e] = Tail(toLoop[e])
        BY <2>0, <2>3, <3>2
      <4>2. /\ IsSync0(toLoop[e][1]) /\ 1 \in DOMAIN toLoop[e]
            /\ Tail(toLoop[e]) \in Seq(Packets) /\ Len(Tail(toLoop[e])) = Len(toLoop[e]) - 1
        BY <2>3, <3>2, <4>1, TailFacts
      <4>3. 1 = Len(toLoop[e]) /\ Stopping(e)
        BY Zenon, <3>0, <4>2 DEF PacketsOf
      <4>4. Len(toLoop'[e]) = 0
        BY <4>1, <4>2, <4>3
      <4>5. toLoop'[e] = << >>
        BY Zenon, <4>1, <4>2, <4>4, <1>NothingLeft
      <4> QED
        <5>1. DOMAIN toLoop'[e] = {}
          BY <4>5
        <5> QED
          BY Zenon, <2>1, <3>0, <3>2, <4>3, <4>5, <5>1 DEF PacketsOf
    <3> QED
      BY Zenon, <3>1, <3>2
  <2> QED
    BY <2>1, <2>2, <2>4 DEF AdbInv, PacketInv
<1>HandleConnectKeeps.
  ASSUME Typed, NEW c \in Conn, HandleConnect(c)
  PROVE  Harmless
  <2> USE <1>HandleConnectKeeps
  <2> DEFINE p == Pkt("CNXN", 0, 0)
  <2>0. /\ Handle(c, "CNXN") /\ toInput' = Sent(c, <<p>>) /\ UNCHANGED nextId
        /\ tr' = [tr EXCEPT ![c].cs = "host"]
        /\ \/ Close(FdDequeue(fde, T(c)), OfTransport(c))
           \/ fde' = FdDequeue(fde, T(c)) /\ UNCHANGED <<sock, chan>>
    BY DEF HandleConnect, HandleOffline
  <2>t. T(c) \in Fds /\ PairTyped /\ SockTyped /\ ChanTyped /\ FdeTyped
    BY Descriptors DEF Typed
  <2>1. <<p>> \in Seq(Packets) /\ p.cmd = "CNXN"
    BY SeqNone, PacketTypes
  <2> HIDE DEF p
  <2>2. \A i \in 1 .. Len(<<p>>) : ~IsSync0(<<p>>[i])
    BY <2>1 DEF IsSync0
  <2>3. toInput' \in [Conn -> Seq(Packets)] /\ NoSyncAdded
    BY Zenon, <2>0, <2>1, <2>2, <2>t, SentPackets
  <2>4. /\ sock' \in [Id -> Socks] /\ ChanTyped' /\ FdeTyped' /\ LoopEffects
        /\ \A e \in Conn : OfTransport(e)' \subseteq OfTransport(e)
    <3>1. CASE Close(FdDequeue(fde, T(c)), OfTransport(c))
      <4>1. /\ sock' \in [Id -> Socks] /\ ChanTyped' /\ FdeTyped' /\ LoopEffects
            /\ \A e \in Conn : OfTransport(e)' \subseteq OfTransport(e) \ OfTransport(c)
        BY <3>1, <1>OfflineCloses
      <4> QED
        BY <4>1
    <3>2. CASE fde' = FdDequeue(fde, T(c)) /\ UNCHANGED <<sock, chan>>
      <4>1. FdeTyped' /\ LoopEffects
        BY <3>2, <2>t, <1>DequeueOnly
      <4>2. sock' \in [Id -> Socks] /\ ChanTyped'
        BY <3>2, <2>t DEF SockTyped, ChanTyped
      <4>3. \A e \in Conn : OfTransport(e)' = OfTransport(e)
        BY <3>2 DEF OfTransport
      <4> QED
        BY <4>1, <4>2, <4>3
    <3> QED
      BY <2>0, <3>1, <3>2
  <2>5. SockTyped'
    BY <2>0, <2>4, <2>t DEF SockTyped
  <2>6. TrTyped' /\ SameLife
    BY Zenon, <2>0, <1>HandlerLife
  <2>7. Typed'
    BY <2>0, <2>3, <2>4, <2>5, <2>6, <1>HandlerTyped
  <2>8. PacketEffects
    BY <2>0, <2>3, <2>4, <1>HandlerPackets
  <2> QED
    BY <2>4, <2>6, <2>7, <2>8 DEF Harmless
<1>HandlerWatches.
  ASSUME Typed, NEW c \in Conn, NEW cmd, Handle(c, cmd), UNCHANGED <<tr, sock, nextId, chan>>,
         toInput' \in [Conn -> Seq(Packets)], NoSyncAdded, FdeTyped', LoopEffects
  PROVE  Harmless
  <2> USE <1>HandlerWatches
  <2>1. SockTyped' /\ ChanTyped'
    BY DEF Typed, SockTyped, ChanTyped
  <2>2. TrTyped' /\ SameLife
    BY <1>HandlerLife
  <2>3. Typed'
    BY <2>1, <2>2, <1>HandlerTyped
  <2>4. \A e \in Conn : OfTransport(e)' = OfTransport(e)
    BY DEF OfTransport
  <2>5. PacketEffects
    BY <2>4, <1>HandlerPackets
  <2> QED
    BY <2>2, <2>3, <2>5 DEF Harmless
<1>HandlerSends.
  ASSUME Typed, NEW c \in Conn, NEW cmd, Handle(c, cmd), UNCHANGED <<tr, sock, nextId, chan>>,
         toInput' \in [Conn -> Seq(Packets)], NoSyncAdded, fde' = FdDequeue(fde, T(c))
  PROVE  Harmless
  <2> USE <1>HandlerSends
  <2>1. FdeTyped' /\ LoopEffects
    BY Descriptors, <1>DequeueOnly
  <2> QED
    BY Zenon, <2>1, <1>HandlerWatches
<1>HandlerQuiet.
  ASSUME Typed, NEW c \in Conn, NEW cmd, Handle(c, cmd), UNCHANGED <<tr, sock, nextId, chan>>,
         UNCHANGED toInput, fde' = FdDequeue(fde, T(c))
  PROVE  Harmless
  <2> USE <1>HandlerQuiet
  <2>1. toInput' \in [Conn -> Seq(Packets)] /\ NoSyncAdded
    BY NothingSent DEF Typed
  <2> QED
    BY <2>1, <1>HandlerSends
<1>HandleNothingKeeps.
  ASSUME Typed, NEW c \in Conn, HandleNothing(c)
  PROVE  Harmless
  <2> USE <1>HandleNothingKeeps
  <2>0. PICK cmd \in {"OKAY", "CLSE", "WRTE"} : Handle(c, cmd)
    BY DEF HandleNothing
  <2>1. fde' = FdDequeue(fde, T(c)) /\ UNCHANGED <<tr, toInput, sock, nextId, chan>>
    BY DEF HandleNothing
  <2> QED
    BY <2>0, <2>1, <1>HandlerQuiet
<1>HandleOpenFailsKeeps.
  ASSUME Typed, NEW c \in Conn, HandleOpenFails(c)
  PROVE  Harmless
  <2> USE <1>HandleOpenFailsKeeps
  <2> DEFINE p == Pkt("CLSE", 0, Head(toLoop[c]).a0)
  <2>0. /\ Handle(c, "OPEN") /\ fde' = FdDequeue(fde, T(c)) /\ UNCHANGED <<tr, sock, nextId, chan>>
        /\ UNCHANGED toInput \/ toInput' = Sent(c, <<p>>)
    BY DEF HandleOpenFails
  <2>t. T(c) \in Fds /\ PairTyped
    BY ZenonT(60), Descriptors DEF Typed
  <2>1. Head(toLoop[c]).a0 \in 0 .. MaxOpens
    BY <2>0, <1>Handled
  <2>2. <<p>> \in Seq(Packets) /\ p.cmd = "CLSE"
    BY <2>1, SeqNone, PacketTypes
  <2> HIDE DEF p
  <2>3. \A i \in 1 .. Len(<<p>>) : ~IsSync0(<<p>>[i])
    BY <2>2 DEF IsSync0
  <2>4. toInput' \in [Conn -> Seq(Packets)] /\ NoSyncAdded
    BY Zenon, <2>0, <2>2, <2>3, <2>t, SentPackets, NothingSent
  <2> QED
    BY Zenon, <2>0, <2>4, <1>HandlerSends
<1>HandleOkayKeeps.
  ASSUME Typed, NEW c \in Conn, HandleOkay(c)
  PROVE  Harmless
  <2> USE <1>HandleOkayKeeps
  <2> DEFINE id == Head(toLoop[c]).a1
             F == FdDequeue(fde, T(c))
  <2>0. /\ Handle(c, "OKAY") /\ Found(id) /\ UNCHANGED <<tr, toInput, sock, nextId, chan>>
        /\ fde' = FdAdd(F, {S(id)}, {"READ"})
    BY Zenon DEF HandleOkay
  <2>t. T(c) \in Fds /\ PairTyped /\ SockTyped /\ ChanTyped
    BY Descriptors DEF Typed
  <2>1. id \in Id /\ sock[id].st = "open" /\ sock \in [Id -> Socks]
    <3>1. id \in 0 .. MaxOpens
      BY Zenon, <2>0, <1>Handled
    <3> QED
      BY Zenon, <2>0, <2>t, <3>1, IdsNamed DEF Found, SockTyped
  <2>2. /\ F \in Evented /\ F.pending \subseteq fde.pending
        /\ \A d \in Fds : F.want[d] \subseteq fde.want[d]
    BY ZenonT(60), <2>t, Dequeued
  <2> HIDE DEF id, F
  <2>3. FdeTyped' /\ LoopEffects
    BY <2>0, <2>1, <2>2, <1>AddOne
  <2>4. toInput' \in [Conn -> Seq(Packets)] /\ NoSyncAdded
    BY <2>0, <2>t, NothingSent
  <2> QED
    BY Zenon, <2>0, <2>3, <2>4, <1>HandlerWatches
<1>HandlerSockets.
  ASSUME Typed, NEW c \in Conn, NEW cmd, Handle(c, cmd), UNCHANGED <<tr, nextId>>,
         sock' \in [Id -> Socks], ChanTyped', FdeTyped', LoopEffects,
         toInput' \in [Conn -> Seq(Packets)], NoSyncAdded,
         \A e \in Conn : OfTransport(e)' \subseteq OfTransport(e)
  PROVE  Harmless
  <2> USE <1>HandlerSockets
  <2>1. SockTyped'
    BY DEF Typed, SockTyped
  <2>2. TrTyped' /\ SameLife
    BY <1>HandlerLife
  <2>3. Typed'
    BY <2>1, <2>2, <1>HandlerTyped
  <2>4. PacketEffects
    BY <1>HandlerPackets
  <2> QED
    BY <2>2, <2>3, <2>4 DEF Harmless
<1>HandlerCloses.
  ASSUME Typed, NEW c \in Conn, NEW cmd, Handle(c, cmd), UNCHANGED <<tr, nextId>>,
         NEW id \in Id, CloseSocket(FdDequeue(fde, T(c)), id)
  PROVE  Harmless
  <2> USE <1>HandlerCloses
  <2>0. T(c) \in Fds
    BY Descriptors
  <2>1. /\ sock' \in [Id -> Socks] /\ ChanTyped' /\ FdeTyped' /\ LoopEffects
        /\ toInput' \in [Conn -> Seq(Packets)] /\ NoSyncAdded
        /\ \A e \in Conn : OfTransport(e)' \subseteq OfTransport(e)
    BY <2>0, SocketCloses
  <2> QED
    BY <2>1, <1>HandlerSockets
<1>HandleCloseKeeps.
  ASSUME Typed, NEW c \in Conn, HandleClose(c)
  PROVE  Harmless
  <2> USE <1>HandleCloseKeeps
  <2> DEFINE id == Head(toLoop[c]).a1
  <2>0. /\ Handle(c, "CLSE") /\ Found(id) /\ UNCHANGED <<tr, nextId>>
        /\ CloseSocket(FdDequeue(fde, T(c)), id)
    BY Zenon DEF HandleClose
  <2>1. id \in Id
    <3>1. id \in 0 .. MaxOpens
      BY Zenon, <2>0, <1>Handled
    <3> QED
      BY Zenon, <2>0, <3>1, IdsNamed DEF Found
  <2> HIDE DEF id
  <2> QED
    BY Zenon, <2>0, <2>1, <1>HandlerCloses
<1>HandleOpenKeeps.
  ASSUME Typed, NEW c \in Conn, HandleOpen(c)
  PROVE  Harmless
  <2> USE <1>HandleOpenKeeps
  <2> DEFINE rid == Head(toLoop[c]).a0
             p == Pkt("OKAY", nextId, rid)
             G == FdDequeue(fde, T(c))
             F == FdInstall(G, S(nextId), {})
  <2>0. /\ Handle(c, "OPEN") /\ nextId <= MaxOpens /\ nextId' = nextId + 1 /\ UNCHANGED tr
        /\ sock' = [sock EXCEPT ![nextId] = NewSocket(c, rid)]
        /\ chan' = [chan EXCEPT ![nextId] = NewServiceChannel]
        /\ fde' = FdAdd(F, {S(nextId)}, {"READ"}) /\ toInput' = Sent(c, <<p>>)
    BY Zenon DEF HandleOpen
  <2>t. /\ T(c) \in Fds /\ PairTyped /\ SockTyped /\ ChanTyped /\ FdeTyped
        /\ sock \in [Id -> Socks] /\ nextId \in Id /\ nextId \in Nat \ {0} /\ nextId \in 0 .. MaxOpens
        /\ S(nextId) \in Fds
    BY SMTT(20), <2>0, Bounds, Descriptors DEF Typed, SockTyped, Id
  <2>1. rid \in 0 .. MaxOpens
    BY Zenon, <2>0, <1>Handled
  <2>2. <<p>> \in Seq(Packets) /\ p.cmd = "OKAY"
    BY <2>1, <2>t, PacketTypes
  <2>3. NewSocket(c, rid) \in Socks /\ NewSocket(c, rid).st = "open" /\ NewSocket(c, rid).peer = c
    <3>1. /\ c \in 0 .. Conns /\ 0 \in 0 .. Conns /\ 0 \in 0 .. MaxOpens /\ << >> \in Seq(1 .. Count)
      BY Bounds DEF Conn
    <3> QED
      BY Zenon, <2>1, <3>1 DEF NewSocket, NoSock, Socks
  <2>4. /\ G \in Evented /\ G.pending \subseteq fde.pending
        /\ \A d \in Fds : G.want[d] = fde.want[d]
    BY Zenon, <2>t, Dequeued
  <2> HIDE DEF rid, p, G
  <2>5. /\ F \in Evented /\ F.pending \subseteq fde.pending
        /\ \A d \in Fds : d # S(nextId) => F.want[d] \subseteq fde.want[d]
    <3>1. {} \in SUBSET {"READ", "WRITE"}
      BY Zenon
    <3>2. /\ F \in Evented /\ F.pending = G.pending
          /\ \A d \in Fds : F.want[d] = IF d = S(nextId) THEN {} ELSE G.want[d]
      <4>1. ASSUME NEW x \in Fds
            PROVE  LET H == FdInstall(G, x, {}) IN
                   /\ H \in Evented /\ H.pending = G.pending
                   /\ \A d \in Fds : H.want[d] = IF d = x THEN {} ELSE G.want[d]
        BY <2>4, <3>1, FdeSteps
      <4> QED
        BY Zenon, <2>t, <4>1
    <3> QED
      BY <2>4, <3>2
  <2> HIDE DEF F
  <2>6. /\ sock' \in [Id -> Socks] /\ sock'[nextId].st = "open"
        /\ \A j \in Id : j # nextId => sock'[j] = sock[j]
        /\ sock'[nextId].peer = c
    BY Zenon, <2>0, <2>3, <2>t
  <2>7. FdeTyped' /\ LoopEffects
    BY Zenon, <2>0, <2>5, <2>6, <2>t, <1>AddOne
  <2>8. ChanTyped'
    <3>1. /\ 0 \in 0 .. 1 /\ << >> \in Seq(1 .. Count) /\ SockRoom \in Nat
          /\ chan \in [Id -> Chans] /\ \A j \in Id : Len(chan[j].down) <= SockRoom
      BY <2>t, Bounds DEF ChanTyped
    <3>2. NewServiceChannel \in Chans /\ NewServiceChannel.down = << >>
      BY Zenon, <3>1 DEF NewServiceChannel, NoChan, Chans
    <3>3. chan' \in [Id -> Chans] /\ \A j \in Id : chan'[j].down \in {chan[j].down, << >>}
      BY Zenon, <2>0, <2>t, <3>1, <3>2
    <3> QED
      BY <3>1, <3>3 DEF ChanTyped
  <2>9. \A i \in 1 .. Len(<<p>>) : ~IsSync0(<<p>>[i])
    BY <2>2 DEF IsSync0
  <2>10. toInput' \in [Conn -> Seq(Packets)] /\ NoSyncAdded
    BY Zenon, <2>0, <2>2, <2>9, <2>t, SentPackets
  <2>11. TrTyped' /\ SameLife
    BY <2>0, <1>HandlerLife
  <2>12. SockTyped'
    BY <2>0, <2>6, <2>t DEF SockTyped
  <2>13. Typed'
    BY Zenon, <2>0, <2>7, <2>8, <2>10, <2>11, <2>12, <1>HandlerTyped
  <2>14. PacketEffects
    <3>1. \A e \in Conn : e # c => OfTransport(e)' \subseteq OfTransport(e)
      BY Zenon, <2>6 DEF OfTransport
    <3> QED
      BY Zenon, <2>0, <2>10, <3>1, <1>HandlerPackets
  <2> QED
    BY <2>7, <2>11, <2>13, <2>14 DEF Harmless
<1>HandleWriteKeeps.
  ASSUME Typed, NEW c \in Conn, HandleWrite(c)
  PROVE  Harmless
  <2> USE <1>HandleWriteKeeps
  <2> DEFINE p == Head(toLoop[c])
             id == p.a1
             queue == sock[id].pkts
             n == IF queue = << >> THEN Room(id) ELSE 0
             F == FdDequeue(fde, T(c))
  <2>0. Handle(c, "WRTE") /\ Found(id) /\ UNCHANGED <<tr, nextId>>
    BY Zenon DEF HandleWrite
  <2>t. T(c) \in Fds /\ PairTyped /\ SockTyped /\ ChanTyped /\ FdeTyped /\ sock \in [Id -> Socks]
    BY Descriptors DEF Typed, SockTyped
  <2>1. id \in 0 .. MaxOpens /\ p.a0 \in 0 .. MaxOpens /\ p.data \in Seq(1 .. Count)
    BY Zenon, <2>0, <1>Handled
  <2>2. id \in Id /\ sock[id].st = "open" /\ queue \in Seq(1 .. Count)
    <3>1. id # 0 /\ sock[id].st = "open"
      BY Zenon, <2>0 DEF Found
    <3>2. id \in Id
      BY Zenon, <2>1, <3>1, IdsNamed
    <3> QED
      BY Zenon, <2>t, <3>1, <3>2, SockFields
  <2>3. n \in Nat /\ n <= Room(id) /\ Room(id) \in Nat
    <3>1. Room(id) \in Nat
      BY Zenon, <2>2, <2>t, RoomLeft
    <3>2. n = Room(id) \/ n = 0
      OBVIOUS
    <3> HIDE DEF n
    <3> QED
      BY <3>1, <3>2
  <2>4. /\ F \in Evented /\ F.pending \subseteq fde.pending
        /\ \A d \in Fds : F.want[d] \subseteq fde.want[d]
    BY SMTT(20), <2>t, Dequeued
  <2>5. \/ CloseSocket(F, id)
        \/ /\ Len(p.data) <= n /\ chan' = [chan EXCEPT ![id].down = @ \o p.data]
           /\ toInput' = Sent(c, <<Pkt("OKAY", id, p.a0)>>) /\ fde' = F /\ UNCHANGED sock
        \/ /\ chan' = [chan EXCEPT ![id].down = @ \o Fits(n, p.data)]
           /\ sock' = [sock EXCEPT ![id].pkts = queue \o Rest(n, p.data)]
           /\ fde' = FdAdd(F, {S(id)}, {"WRITE"}) /\ UNCHANGED toInput
    BY Zenon DEF HandleWrite, Acked, BacklogNoAck
  <2>6. CASE CloseSocket(F, id)
    BY Zenon, <2>0, <2>2, <2>6, <1>HandlerCloses
  <2>7. CASE /\ Len(p.data) <= n /\ chan' = [chan EXCEPT ![id].down = @ \o p.data]
             /\ toInput' = Sent(c, <<Pkt("OKAY", id, p.a0)>>) /\ fde' = F /\ UNCHANGED sock
    <3> DEFINE q == Pkt("OKAY", id, p.a0)
    <3>1. <<q>> \in Seq(Packets) /\ q.cmd = "OKAY"
      BY <2>1, PacketTypes
    <3> HIDE DEF q, id, n
    <3>2. Len(p.data) \in Int /\ Len(p.data) <= Room(id)
      <4>1. Len(p.data) \in Nat
        BY <2>1
      <4>2. Len(p.data) <= n
        BY Zenon, <2>7
      <4> QED
        BY <2>3, <4>1, <4>2
    <3>3. \A i \in 1 .. Len(<<q>>) : ~IsSync0(<<q>>[i])
      BY <3>1 DEF IsSync0
    <3>4. toInput' \in [Conn -> Seq(Packets)] /\ NoSyncAdded
      BY Zenon, <2>7, <2>t, <3>1, <3>3, SentPackets DEF q
    <3>5. ChanTyped'
      <4>1. Len(chan[id].down) + Len(p.data) <= SockRoom
        BY Zenon, <2>2, <2>t, <3>2, RoomLeft
      <4> QED
        BY Zenon, <2>1, <2>2, <2>7, <2>t, <4>1, Written
    <3>6. FdeTyped' /\ LoopEffects
      BY Zenon, <2>7, <2>t, <1>DequeueOnly
    <3>7. \A e \in Conn : OfTransport(e)' = OfTransport(e)
      BY Zenon, <2>7 DEF OfTransport
    <3> QED
      BY ZenonT(60), <2>0, <2>7, <2>t, <3>4, <3>5, <3>6, <3>7, <1>HandlerSockets
  <2>8. CASE /\ chan' = [chan EXCEPT ![id].down = @ \o Fits(n, p.data)]
             /\ sock' = [sock EXCEPT ![id].pkts = queue \o Rest(n, p.data)]
             /\ fde' = FdAdd(F, {S(id)}, {"WRITE"}) /\ UNCHANGED toInput
    <3> DEFINE f == Fits(n, p.data)
               r == queue \o Rest(n, p.data)
    <3> HIDE DEF id, n, queue, F
    <3>1. f \in Seq(1 .. Count) /\ Rest(n, p.data) \in Seq(1 .. Count) /\ Len(f) <= n
      BY Zenon, <2>1, <2>3, Chunks
    <3>2. r \in Seq(1 .. Count)
      <4>1. ASSUME NEW X, NEW s \in Seq(X), NEW t \in Seq(X) PROVE s \o t \in Seq(X)
        BY <4>1
      <4> QED
        BY Zenon, <2>2, <3>1, <4>1
    <3>3. Len(f) \in Int /\ Len(f) <= Room(id)
      BY <2>3, <3>1
    <3> HIDE DEF f, r
    <3>4. ChanTyped'
      <4>1. Len(chan[id].down) + Len(f) <= SockRoom
        BY <2>2, <2>t, <3>3, RoomLeft
      <4> QED
        BY Zenon, <2>2, <2>8, <2>t, <3>1, <4>1, Written DEF f
    <3>5. /\ sock' \in [Id -> Socks] /\ \A j \in Id : sock'[j].st = sock[j].st
          /\ \A e \in Conn : OfTransport(e)' = OfTransport(e)
      BY Zenon, <2>2, <2>8, <3>2, Queued DEF r
    <3>6. FdeTyped' /\ LoopEffects
      BY ZenonT(60), <2>2, <2>4, <2>8, <3>5, <1>AddOne
    <3>7. toInput' \in [Conn -> Seq(Packets)] /\ NoSyncAdded
      BY <2>8, <2>t, NothingSent
    <3> QED
      BY Zenon, <2>0, <3>4, <3>5, <3>6, <3>7, <1>HandlerSockets
  <2> QED
    BY Zenon, <2>5, <2>6, <2>7, <2>8
<1>Harmless.
  ASSUME Typed, NEW c \in Conn, HandlePacket(c), ~HandleSyncOff(c)
  PROVE  Harmless
  BY ZenonT(60), <1>Harmless, <1>HandleSyncOnKeeps, <1>HandleConnectKeeps, <1>HandleNothingKeeps,
     <1>HandleOpenFailsKeeps, <1>HandleOkayKeeps, <1>HandleCloseKeeps, <1>HandleOpenKeeps,
     <1>HandleWriteKeeps DEF HandlePacket
<1>1. AdbInv => Typed
  BY DEF AdbInv
<1> QED
  BY <1>1, <1>Harmless, <1>SyncOffKeeps, HarmlessKeeps

-----------------------------------------------------------------------------
LEMMA WriteTypes ==
  ASSUME NEW a0 \in 0 .. MaxOpens, NEW a1 \in 0 .. MaxOpens, NEW ks \in Seq(1 .. Count)
  PROVE  /\ Wrte(a0, a1, ks) \in Packets /\ <<Wrte(a0, a1, ks)>> \in Seq(Packets)
         /\ Wrte(a0, a1, ks).cmd = "WRTE"
<1>1. Wrte(a0, a1, ks) \in Packets /\ Wrte(a0, a1, ks).cmd = "WRTE"
  BY DEF Wrte, Pkt, Packets
<1> QED
  BY <1>1

(* The callback of a socket.                                               *)
LEMMA SocketEventKeeps ==
  \A id \in Id : AdbInv /\ LocalSocketEvent(id) => AdbInv'
<1>DequeueStates.
  ASSUME Typed, NEW x \in Fds, fde' = FdDequeue(fde, x), \A id \in Id : sock'[id].st = sock[id].st
  PROVE  FdeTyped' /\ LoopEffects
  <2> USE <1>DequeueStates
  <2>1. /\ FdDequeue(fde, x) \in Evented /\ FdDequeue(fde, x).pending \subseteq fde.pending
        /\ \A d \in Fds : FdDequeue(fde, x).want[d] = fde.want[d]
    BY Zenon, Dequeued
  <2> QED
    BY <2>1 DEF FdeTyped, LoopEffects, Watched
<1>ChannelEnds.
  ASSUME ChanTyped, NEW id \in Id, NEW ks \in Seq(1 .. Count), Len(ks) <= Room(id),
         NEW o \in BOOLEAN, NEW u \in 0 .. 1,
         chan' = [chan EXCEPT ![id].down = @ \o ks, ![id].loopOpen = o, ![id].up = u]
  PROVE  ChanTyped'
  <2> USE <1>ChannelEnds
  <2> DEFINE K == 1 .. Count
             D == chan[id].down \o ks
  <2>0. /\ chan \in [Id -> Chans] /\ \A j \in Id : Len(chan[j].down) <= SockRoom
        /\ chan[id].down \in Seq(K) /\ ks \in Seq(K) /\ SockRoom \in Nat
    BY Bounds DEF ChanTyped, Chans
  <2> HIDE DEF K
  <2>1. D \in Seq(K) /\ Len(D) = Len(chan[id].down) + Len(ks) /\ Len(D) <= SockRoom
    BY <2>0 DEF Room
  <2>2. chan' = [chan EXCEPT ![id] = [chan[id] EXCEPT !.down = D, !.loopOpen = o, !.up = u]]
    BY Zenon, <2>0
  <2> HIDE DEF D
  <2>3. [chan[id] EXCEPT !.down = D, !.loopOpen = o, !.up = u] \in Chans
    <3>1. chan[id] \in Chans
      BY <2>0
    <3> QED
      BY Zenon, <2>1, <3>1 DEF Chans, K
  <2>4. [chan[id] EXCEPT !.down = D, !.loopOpen = o, !.up = u].down = D
    BY <2>0 DEF Chans
  <2> HIDE DEF K
  <2>5. chan' \in [Id -> Chans] /\ chan'[id].down = D /\ \A j \in Id : j # id => chan'[j] = chan[j]
    BY ZenonT(60), <2>0, <2>2, <2>3, <2>4
  <2> QED
    BY <2>0, <2>1, <2>5 DEF ChanTyped
<1>EventResult.
  ASSUME Typed, NEW id \in Id, Event(id), sock' \in [Id -> Socks], ChanTyped', FdeTyped',
         LoopEffects, toInput' \in [Conn -> Seq(Packets)], NoSyncAdded,
         \A e \in Conn : OfTransport(e)' \subseteq OfTransport(e)
  PROVE  Harmless
  <2> USE <1>EventResult
  <2>0. UsbTyped /\ LinkTyped /\ RegTyped /\ TrTyped /\ PcTyped /\ PairTyped /\ SockTyped /\ HostTyped
    BY Zenon DEF Typed
  <2>1. UNCHANGED <<usbFd, last, openPc, rx, tx, reg, tr, outPc, inPc, toLoop, nextId, host, opens>>
    BY Zenon DEF Event, usb, link, threads, hosts
  <2>2. UsbTyped' /\ LinkTyped' /\ RegTyped' /\ TrTyped' /\ PcTyped' /\ HostTyped'
    BY Zenon, <2>0, <2>1 DEF UsbTyped, LinkTyped, RegTyped, TrTyped, PcTyped, HostTyped
  <2>3. PairTyped' /\ SockTyped'
    BY <2>0, <2>1 DEF PairTyped, SockTyped
  <2>4. Typed'
    BY Zenon, <2>2, <2>3 DEF Typed
  <2>5. SameLife
    BY Zenon, <2>1 DEF SameLife, FirstKick
  <2>6. PacketEffects
    BY Zenon, <2>1 DEF PacketEffects, NoSyncSent
  <2> QED
    BY <2>4, <2>5, <2>6 DEF Harmless
<1>EventWriteFailsKeeps.
  ASSUME Typed, NEW id \in Id, EventWriteFails(id)
  PROVE  Harmless
  <2> USE <1>EventWriteFailsKeeps
  <2>0. Event(id) /\ CloseSocket(FdDequeue(fde, S(id)), id) /\ S(id) \in Fds
    BY Zenon, Descriptors DEF EventWriteFails
  <2>1. /\ sock' \in [Id -> Socks] /\ ChanTyped' /\ FdeTyped' /\ LoopEffects
        /\ toInput' \in [Conn -> Seq(Packets)] /\ NoSyncAdded
        /\ \A e \in Conn : OfTransport(e)' \subseteq OfTransport(e)
    BY <2>0, SocketCloses
  <2> QED
    BY Zenon, <2>0, <2>1, <1>EventResult
<1>EventWriteBlocksKeeps.
  ASSUME Typed, NEW id \in Id, EventWriteBlocks(id)
  PROVE  Harmless
  <2> USE <1>EventWriteBlocksKeeps
  <2> DEFINE n == Room(id)
             f == Fits(n, sock[id].pkts)
             r == Rest(n, sock[id].pkts)
  <2>t. /\ S(id) \in Fds /\ PairTyped /\ ChanTyped /\ sock \in [Id -> Socks]
        /\ sock[id].pkts \in Seq(1 .. Count)
    BY Zenon, Descriptors DEF Typed, SockTyped, Socks
  <2>0. /\ Event(id) /\ fde' = FdDequeue(fde, S(id)) /\ UNCHANGED toInput
        /\ chan' = [chan EXCEPT ![id].down = @ \o f]
    BY DEF EventWriteBlocks
  <2>1. sock' = [sock EXCEPT ![id].pkts = r]
    BY <2>t DEF EventWriteBlocks
  <2>2. n \in Nat
    BY Zenon, <2>t, RoomLeft
  <2> HIDE DEF n
  <2>3. f \in Seq(1 .. Count) /\ r \in Seq(1 .. Count) /\ Len(f) <= n
    BY <2>t, <2>2, Chunks
  <2> HIDE DEF f, r
  <2>4. ChanTyped'
    <3>1. Len(f) \in Int
      BY <2>3
    <3>2. Len(chan[id].down) + Len(f) <= SockRoom
      BY <2>3, <2>t, <3>1, RoomLeft DEF n
    <3> QED
      BY Zenon, <2>0, <2>3, <2>t, <3>2, Written
  <2>5. /\ sock' \in [Id -> Socks] /\ \A j \in Id : sock'[j].st = sock[j].st
        /\ \A e \in Conn : OfTransport(e)' = OfTransport(e)
    BY Zenon, <2>1, <2>3, Queued
  <2>6. FdeTyped' /\ LoopEffects
    BY <2>0, <2>5, <2>t, <1>DequeueStates
  <2>7. toInput' \in [Conn -> Seq(Packets)] /\ NoSyncAdded
    BY Zenon, <2>0, <2>t, NothingSent
  <2> QED
    BY Zenon, <2>0, <2>4, <2>5, <2>6, <2>7, <1>EventResult
<1>EventWriteClosesKeeps.
  ASSUME Typed, NEW id \in Id, EventWriteCloses(id)
  PROVE  Harmless
  <2> USE <1>EventWriteClosesKeeps
  <2> DEFINE ks == sock[id].pkts
             F == FdDequeue(fde, S(id))
  <2>t. /\ S(id) \in Fds /\ PairTyped /\ ChanTyped /\ sock \in [Id -> Socks]
        /\ ks \in Seq(1 .. Count) /\ << >> \in Seq(1 .. Count)
    BY Zenon, Descriptors, SockFields, SeqNone DEF Typed, SockTyped
  <2>0. /\ Event(id) /\ fde' = FdRemove(F, {S(id)}) /\ UNCHANGED toInput
        /\ ks = << >> \/ Room(id) >= Len(ks)
        /\ sock' = [sock EXCEPT ![id].st = "freed", ![id].pkts = << >>]
        /\ chan' = [chan EXCEPT ![id].down = @ \o ks, ![id].loopOpen = FALSE, ![id].up = 0]
    BY DEF EventWriteCloses, Drained
  <2>1. /\ sock' \in [Id -> Socks] /\ sock'[id].peer = sock[id].peer
        /\ \A j \in Id : j # id => sock'[j] = sock[j]
    BY ZenonT(60), <2>0, <2>t DEF Socks
  <2>2. /\ F \in Evented /\ F.pending \subseteq fde.pending
        /\ \A d \in Fds : F.want[d] = fde.want[d]
    BY Zenon, <2>t, Dequeued
  <2> HIDE DEF F, ks
  <2>3. /\ fde' \in Evented /\ fde'.pending = F.pending \ {S(id)}
        /\ \A d \in Fds : fde'.want[d] = IF d = S(id) THEN {} ELSE F.want[d]
    BY Zenon, <2>0, <2>2, <2>t DEF FdRemove, FdUnlisted, Evented
  <2>4. FdeTyped' /\ LoopEffects
    BY <2>1, <2>2, <2>3, <2>t DEF FdeTyped, LoopEffects, Watched
  <2>5. ChanTyped'
    <3>1. Len(ks) \in Nat /\ Room(id) \in Nat /\ Len(ks) <= Room(id)
      BY <2>0, <2>t, RoomLeft
    <3>2. FALSE \in BOOLEAN /\ 0 \in 0 .. 1
      OBVIOUS
    <3> QED
      BY Zenon, <2>0, <2>t, <3>1, <3>2, <1>ChannelEnds
  <2>6. \A e \in Conn : OfTransport(e)' = OfTransport(e)
    BY <2>1 DEF OfTransport
  <2>7. toInput' \in [Conn -> Seq(Packets)] /\ NoSyncAdded
    BY <2>0, <2>t, NothingSent
  <2> QED
    BY Zenon, <2>0, <2>1, <2>4, <2>5, <2>6, <2>7, <1>EventResult
<1>EventRestKeeps.
  ASSUME Typed, NEW id \in Id, EventRest(id)
  PROVE  Harmless
  <2> USE <1>EventRestKeeps
  <2> DEFINE w == "WRITE" \in Evs(id)
             r == "READ" \in Evs(id)
             data == r /\ chan[id].up > 0 /\ sock[id].peer # 0
             eof == r /\ ~chan[id].svcOpen
             F0 == FdDequeue(fde, S(id))
             F1 == IF w THEN FdDel(F0, {S(id)}, {"WRITE"}) ELSE F0
             F2 == IF data THEN FdDel(F1, {S(id)}, {"READ"}) ELSE F1
             c == sock[id].peer
             p1 == IF w THEN <<RemoteSocketReady(id)>> ELSE << >>
             p2 == IF data THEN <<RemoteSocketEnqueue(id)>> ELSE << >>
             p3 == IF eof /\ c # 0 THEN <<RemoteSocketClose(id)>> ELSE << >>
             left == IF w THEN << >> ELSE sock[id].pkts
             gone == eof /\ (sock[id].st = "closing" \/ left = << >>)
             pkts == IF gone THEN << >> ELSE left
             peer == IF eof THEN 0 ELSE c
             st == CASE gone -> "freed" [] eof /\ ~gone -> "closing" [] OTHER -> sock[id].st
             ks == IF w THEN sock[id].pkts ELSE << >>
             up == IF r THEN 0 ELSE chan[id].up
  <2>t. /\ S(id) \in Fds /\ PairTyped /\ ChanTyped /\ FdeTyped /\ sock \in [Id -> Socks]
        /\ chan \in [Id -> Chans] /\ sock[id] \in Socks /\ chan[id] \in Chans
        /\ sock[id].pkts \in Seq(1 .. Count) /\ << >> \in Seq(1 .. Count)
        /\ sock[id].peer \in 0 .. Conns /\ sock[id].rid \in 0 .. MaxOpens /\ chan[id].up \in 0 .. 1
        /\ sock[id].st \in {"none", "open", "closing", "freed"}
    BY Zenon, Descriptors, SockFields, ChanFields, SeqNone DEF Typed, SockTyped, ChanTyped
  <2>0. /\ Event(id) /\ (w => Drained(id))
        /\ toInput' = IF c = 0 THEN toInput ELSE Sent(c, p1 \o p2 \o p3)
        /\ fde' = IF gone THEN FdRemove(F2, {S(id)})
                  ELSE IF eof THEN FdDel(F2, {S(id)}, {"READ"}) ELSE F2
    BY Zenon DEF EventRest
  <2>1. sock' = [sock EXCEPT ![id].pkts = pkts, ![id].peer = peer, ![id].st = st]
    BY <2>t DEF EventRest
  <2>2. chan' = [chan EXCEPT ![id].down = @ \o ks, ![id].loopOpen = ~gone, ![id].up = up]
    <3>1. chan[id].down \o << >> = chan[id].down
      BY Zenon, <2>t, ChanFields
    <3> QED
      BY ZenonT(60), <2>t, <3>1 DEF EventRest
  <2>3. /\ sock' \in [Id -> Socks] /\ sock'[id].peer \in {c, 0}
        /\ sock'[id].st \in {sock[id].st, "closing", "freed"}
        /\ sock'[id].st = "freed" => gone \/ sock[id].st = "freed"
        /\ \A j \in Id : j # id => sock'[j] = sock[j]
    <3> HIDE DEF gone, eof, w
    <3>0. pkts \in Seq(1 .. Count)
      BY Zenon, <2>t
    <3>1. /\ peer \in 0 .. Conns /\ peer \in {c, 0}
          /\ st \in {sock[id].st, "closing", "freed"} /\ (st = "freed" => gone \/ sock[id].st = "freed")
      BY <2>t, Bounds
    <3> HIDE DEF pkts, peer, st, c
    <3>2. st \in {"none", "open", "closing", "freed"}
      BY <2>t, <3>1
    <3> QED
      BY Zenon, <2>1, <2>t, <3>0, <3>1, <3>2 DEF Socks
  <2>4. ChanTyped'
    <3> HIDE DEF w, r, gone
    <3>0. 0 \in 0 .. 1
      OBVIOUS
    <3>1. ks \in Seq(1 .. Count) /\ up \in 0 .. 1
      BY Zenon, <2>t, <3>0
    <3>2. Len(ks) <= Room(id)
      <4>1. Room(id) \in Nat /\ Len(<< >>) = 0
        BY SMTT(20), <2>t, RoomLeft
      <4>2. w => sock[id].pkts = << >> \/ Room(id) >= Len(sock[id].pkts)
        BY Zenon, <2>0 DEF Drained
      <4>3. Len(sock[id].pkts) \in Nat
        BY SMTT(20), <2>t
      <4>4. CASE w
        BY <4>1, <4>2, <4>3, <4>4
      <4>5. CASE ~w
        BY <4>1, <4>5
      <4> QED
        BY <4>4, <4>5
    <3>3. (~gone) \in BOOLEAN
      BY Zenon
    <3> HIDE DEF ks, up
    <3> QED
      BY Zenon, <2>2, <2>t, <3>1, <3>2, <3>3, <1>ChannelEnds
  <2>5. FdeTyped' /\ LoopEffects
    <3> DEFINE D == {S(id)}
    <3>0. /\ F0 \in Evented /\ F0.pending \subseteq fde.pending
          /\ \A d \in Fds : F0.want[d] \subseteq fde.want[d]
      BY <2>t, Dequeued
    <3>1. ASSUME NEW G \in Evented, NEW ev \in {{"READ"}, {"WRITE"}}
          PROVE  /\ FdDel(G, D, ev) \in Evented /\ FdDel(G, D, ev).pending \subseteq G.pending
                 /\ \A d \in Fds : FdDel(G, D, ev).want[d] \subseteq G.want[d]
      <4>1. D \in SUBSET Fds /\ ev \in SUBSET {"READ", "WRITE"}
        BY <2>t
      <4> HIDE DEF D
      <4> QED
        BY Zenon, <4>1, FdeDeleted
    <3> HIDE DEF F0, gone, eof, data, w
    <3>2. /\ F1 \in Evented /\ F1.pending \subseteq fde.pending
          /\ \A d \in Fds : F1.want[d] \subseteq fde.want[d]
      BY Zenon, <3>0, <3>1
    <3> HIDE DEF F1
    <3>3. /\ F2 \in Evented /\ F2.pending \subseteq fde.pending
          /\ \A d \in Fds : F2.want[d] \subseteq fde.want[d]
      BY Zenon, <3>1, <3>2
    <3> HIDE DEF F2
    <3>4. /\ FdRemove(F2, D) \in Evented /\ FdRemove(F2, D).pending = F2.pending \ D
          /\ \A d \in Fds : FdRemove(F2, D).want[d] = IF d \in D THEN {} ELSE F2.want[d]
      <4>1. D \in SUBSET Fds
        BY Zenon, <2>t
      <4> HIDE DEF D
      <4> QED
        BY <3>3, <4>1, FdeRemoved
    <3>5. /\ fde' \in Evented /\ fde'.pending \subseteq fde.pending
          /\ \A d \in Fds : fde'.want[d] \subseteq fde.want[d]
          /\ gone => fde'.want[S(id)] = {} /\ S(id) \notin fde'.pending
      BY Zenon, <2>0, <2>t, <3>1, <3>3, <3>4
    <3> QED
      BY ZenonT(60), <2>3, <3>5 DEF FdeTyped, LoopEffects, Watched
  <2>6. toInput' \in [Conn -> Seq(Packets)] /\ NoSyncAdded
    <3>1. CASE c = 0
      BY Zenon, <2>0, <2>t, <3>1, NothingSent
    <3>2. CASE c # 0
      <4>0. id \in 0 .. MaxOpens
        BY Bounds DEF Id
      <4>1. /\ RemoteSocketReady(id) \in Packets /\ RemoteSocketReady(id).cmd = "OKAY"
            /\ RemoteSocketClose(id) \in Packets /\ RemoteSocketClose(id).cmd = "CLSE"
        BY <2>t, <4>0, SeqNone, PacketTypes DEF RemoteSocketReady, RemoteSocketClose
      <4>2. RemoteSocketEnqueue(id) \in Packets /\ RemoteSocketEnqueue(id).cmd = "WRTE"
        BY Zenon, <2>t, <4>0, SeqNone, WriteTypes DEF RemoteSocketEnqueue
      <4> HIDE DEF w, data, eof
      <4> DEFINE P == {p \in Packets : ~IsSync0(p)}
      <4>a. RemoteSocketReady(id) \in P /\ RemoteSocketEnqueue(id) \in P /\ RemoteSocketClose(id) \in P
        BY <4>1, <4>2 DEF IsSync0
      <4>b. \A q \in Seq(P) : q \in Seq(Packets) /\ \A i \in 1 .. Len(q) : ~IsSync0(q[i])
        OBVIOUS
      <4> HIDE DEF P
      <4>3. p1 \in Seq(P) /\ p2 \in Seq(P) /\ p3 \in Seq(P)
        BY <4>a
      <4> HIDE DEF p1, p2, p3
      <4>4. p1 \o p2 \o p3 \in Seq(P)
        BY <4>3
      <4>5. p1 \o p2 \o p3 \in Seq(Packets) /\ \A i \in 1 .. Len(p1 \o p2 \o p3) : ~IsSync0((p1 \o p2 \o p3)[i])
        BY Zenon, <4>4, <4>b
      <4>6. c \in Conn /\ toInput' = Sent(c, p1 \o p2 \o p3)
        <5>1. c \in 0 .. Conns
          BY Zenon, <2>t
        <5> HIDE DEF c
        <5>2. c \in Conn
          BY <3>2, <5>1, Bounds DEF Conn
        <5> QED
          BY Zenon, <2>0, <3>2, <5>2
      <4> QED
        BY Zenon, <2>t, <4>5, <4>6, SentPackets
    <3> QED
      BY Zenon, <3>1, <3>2
  <2>7. \A e \in Conn : OfTransport(e)' \subseteq OfTransport(e)
    <3>1. \A e \in Conn : e # 0
      BY Bounds DEF Conn
    <3> QED
      BY <2>3, <3>1 DEF OfTransport
  <2>8. Event(id) /\ sock' \in [Id -> Socks]
    BY Zenon, <2>0, <2>3
  <2> QED
    BY Zenon, <2>4, <2>5, <2>6, <2>7, <2>8, <1>EventResult
<1>Harmless.
  ASSUME Typed, NEW id \in Id, LocalSocketEvent(id)
  PROVE  Harmless
  BY <1>Harmless, <1>EventWriteFailsKeeps, <1>EventWriteBlocksKeeps, <1>EventWriteClosesKeeps,
     <1>EventRestKeeps DEF LocalSocketEvent
<1>1. AdbInv => Typed
  BY DEF AdbInv
<1> QED
  BY ZenonT(60), <1>1, <1>Harmless, HarmlessKeeps

-----------------------------------------------------------------------------
(* The services and the hosts are seen by the loop only through queues.    *)
LEMMA OutsideKeeps ==
  ASSUME Typed, LinkTyped', ChanTyped', HostTyped', NoSyncSent,
         UNCHANGED <<usbFd, last, openPc, reg, tr, outPc, inPc, toLoop, toInput, fde, sock, nextId>>
  PROVE  Harmless
<1>0. UsbTyped /\ RegTyped /\ TrTyped /\ PcTyped /\ PairTyped /\ SockTyped /\ FdeTyped
  BY Zenon DEF Typed
<1>1. UsbTyped' /\ RegTyped' /\ TrTyped' /\ PcTyped' /\ PairTyped' /\ SockTyped' /\ FdeTyped'
  BY <1>0 DEF UsbTyped, RegTyped, TrTyped, PcTyped, PairTyped, SockTyped, FdeTyped
<1>2. Typed'
  BY Zenon, <1>1 DEF Typed
<1>3. SameLife
  BY Zenon DEF SameLife, FirstKick
<1>4. PacketEffects
  BY Zenon DEF PacketEffects, NoSyncAdded, OfTransport
<1>5. LoopEffects
  BY <1>0 DEF LoopEffects, Watched, FdeTyped
<1> QED
  BY <1>2, <1>3, <1>4, <1>5 DEF Harmless

LEMMA ServiceKeeps ==
  ASSUME Typed, NEW id \in Id, Service(id)
  PROVE  Harmless
<1>t. LinkTyped /\ ChanTyped /\ HostTyped
  BY Zenon DEF Typed
<1>0. /\ UNCHANGED <<usbFd, last, openPc, reg, tr, outPc, inPc, toLoop, toInput, fde, sock, nextId>>
      /\ UNCHANGED <<rx, tx, host, opens>>
  BY DEF Service, SideloadCreate, SideloadRead, SideloadReply, SideloadClose, SideloadExit,
         usb, link, threads, hosts
<1>1. \/ UNCHANGED chan
      \/ chan' = [chan EXCEPT ![id].svcOpen = FALSE, ![id].down = << >>]
      \/ chan[id].down # << >> /\ chan' = [chan EXCEPT ![id].down = Tail(@)]
      \/ chan' = [chan EXCEPT ![id].up = IF chan[id].loopOpen THEN 1 ELSE 0]
  BY Zenon DEF Service, SideloadCreate, SideloadRead, SideloadReply, SideloadClose, SideloadExit
<1>2. ChanTyped'
  <2>0. /\ chan \in [Id -> Chans] /\ \A j \in Id : Len(chan[j].down) <= SockRoom
        /\ chan[id] \in Chans /\ chan[id].down \in Seq(1 .. Count) /\ SockRoom \in Nat
    BY <1>t, Bounds DEF ChanTyped, Chans
  <2>1. CASE UNCHANGED chan
    BY <1>t, <2>1 DEF ChanTyped
  <2>2. CASE chan' = [chan EXCEPT ![id].svcOpen = FALSE, ![id].down = << >>]
    <3>1. << >> \in Seq(1 .. Count) /\ Len(<< >>) <= SockRoom
      BY <2>0
    <3>2. chan' \in [Id -> Chans]
      BY Zenon, <2>0, <2>2, <3>1 DEF Chans
    <3>3. \A j \in Id : chan'[j].down \in {chan[j].down, << >>}
      BY <2>0, <2>2 DEF Chans
    <3> QED
      BY <2>0, <3>1, <3>2, <3>3 DEF ChanTyped
  <2>3. CASE chan[id].down # << >> /\ chan' = [chan EXCEPT ![id].down = Tail(@)]
    <3> DEFINE K == 1 .. Count
               q == Tail(chan[id].down)
    <3>0. chan[id].down \in Seq(K)
      BY <2>0
    <3> HIDE DEF K
    <3>1. q \in Seq(K) /\ Len(q) <= Len(chan[id].down) /\ Len(q) \in Nat
      BY <2>3, <3>0
    <3>2. chan' = [chan EXCEPT ![id].down = q] /\ q \in Seq(1 .. Count)
      BY <2>0, <2>3, <3>1 DEF K
    <3> HIDE DEF q
    <3>3. chan' \in [Id -> Chans]
      BY Zenon, <2>0, <3>2 DEF Chans
    <3>4. \A j \in Id : chan'[j].down = IF j = id THEN q ELSE chan[j].down
      BY Zenon, <2>0, <3>2 DEF Chans
    <3>5. \A j \in Id : Len(chan'[j].down) <= SockRoom
      BY <2>0, <3>0, <3>1, <3>4
    <3> QED
      BY <3>3, <3>5 DEF ChanTyped
  <2>4. CASE chan' = [chan EXCEPT ![id].up = IF chan[id].loopOpen THEN 1 ELSE 0]
    <3>1. (IF chan[id].loopOpen THEN 1 ELSE 0) \in 0 .. 1
      OBVIOUS
    <3>2. chan' \in [Id -> Chans]
      BY Zenon, <2>0, <2>4, <3>1 DEF Chans
    <3>3. \A j \in Id : chan'[j].down = chan[j].down
      BY Zenon, <2>0, <2>4 DEF Chans
    <3> QED
      BY <2>0, <3>2, <3>3 DEF ChanTyped
  <2> QED
    BY Zenon, <1>1, <2>1, <2>2, <2>3, <2>4
<1>3. LinkTyped' /\ HostTyped' /\ NoSyncSent
  BY <1>0, <1>t DEF LinkTyped, HostTyped, NoSyncSent
<1> QED
  BY <1>0, <1>2, <1>3, OutsideKeeps

(* The host sends no SYNC, and reads or loses what is under way.           *)
LEMMA HostKeeps ==
  \A c \in Conn :
      AdbInv /\ (HostConnect(c) \/ HostReceive(c) \/ HostAgain(c) \/ HostInterrupt(c) \/ Unplug(c))
         => AdbInv'
<1>ToDeviceKeeps.
  ASSUME LinkTyped, NEW c \in Conn, NEW ps \in Seq(Packets), ToDevice(c, ps),
         \A i \in 1 .. Len(ps) : ps[i].cmd # "SYNC"
  PROVE  rx' \in [Conn -> Seq(Packets)] /\ NoSyncSent
  <2> USE <1>ToDeviceKeeps
  <2>0. rx \in [Conn -> Seq(Packets)] /\ rx' = [rx EXCEPT ![c] = @ \o ps]
    BY Zenon DEF LinkTyped, ToDevice
  <2>1. rx' \in [Conn -> Seq(Packets)]
    BY <2>0, Queues
  <2>2. ASSUME NEW e \in Conn, NEW j \in DOMAIN rx'[e], rx'[e][j].cmd = "SYNC"
        PROVE  \E i \in DOMAIN rx[e] : rx[e][i].cmd = "SYNC"
    <3>1. CASE e # c
      BY Zenon, <2>0, <2>2, <3>1
    <3>2. CASE e = c
      <4>1. rx'[c] = rx[c] \o ps /\ rx[c] \in Seq(Packets)
        BY <2>0
      <4> QED
        BY <2>2, <3>2, <4>1, JoinFacts
    <3> QED
      BY Zenon, <3>1, <3>2
  <2> QED
    BY Zenon, <2>1, <2>2 DEF NoSyncSent
<1>OnePacket.
  ASSUME Typed, NEW c \in Conn, NEW p \in Packets, p.cmd # "SYNC", ToDevice(c, <<p>>)
  PROVE  rx' \in [Conn -> Seq(Packets)] /\ NoSyncSent
  <2> USE <1>OnePacket
  <2>1. LinkTyped
    BY Zenon DEF Typed
  <2>2. <<p>> \in Seq(Packets) /\ \A i \in 1 .. Len(<<p>>) : <<p>>[i].cmd # "SYNC"
    OBVIOUS
  <2> QED
    BY Zenon, <2>1, <2>2, <1>ToDeviceKeeps
<1>HostOpensKeeps.
  ASSUME Typed, NEW c \in Conn, HostOpens(c)
  PROVE  rx' \in [Conn -> Seq(Packets)] /\ NoSyncSent /\ HostTyped'
  <2> USE <1>HostOpensKeeps
  <2>0. /\ opens < MaxOpens /\ opens' = opens + 1 /\ ToDevice(c, <<Pkt("OPEN", opens + 1, 0)>>)
        /\ host' = [host EXCEPT ![c] = [pc |-> "open", rid |-> opens + 1, lid |-> 0, sent |-> 0]]
    BY DEF HostOpens
  <2>t. host \in [Conn -> Hosts] /\ opens \in 0 .. MaxOpens /\ MaxOpens \in Nat /\ Count \in Nat
    BY Bounds DEF Typed, HostTyped
  <2>1. opens + 1 \in 0 .. MaxOpens /\ 0 \in 0 .. MaxOpens /\ 0 \in 0 .. Count
    BY <2>0, <2>t
  <2>2. [pc |-> "open", rid |-> opens + 1, lid |-> 0, sent |-> 0] \in Hosts
    BY Zenon, <2>1 DEF Hosts
  <2>3. HostTyped'
    BY <2>0, <2>1, <2>2, <2>t DEF HostTyped
  <2>4. Pkt("OPEN", opens + 1, 0) \in Packets /\ Pkt("OPEN", opens + 1, 0).cmd = "OPEN"
    BY <2>1, PacketTypes
  <2> HIDE DEF Pkt
  <2> QED
    BY Zenon, <2>0, <2>3, <2>4, <1>OnePacket
<1>HostMoves.
  ASSUME Typed, NEW c \in Conn, NEW pc \in {"cnxn", "result", "done"}, UNCHANGED opens,
         host' = [host EXCEPT ![c].pc = pc]
  PROVE  HostTyped'
  BY Zenon, <1>HostMoves DEF Typed, HostTyped, Hosts
<1>HostSendsKeeps.
  ASSUME Typed, NEW c \in Conn, NEW id \in 0 .. MaxOpens, host[c].sent < Count, HostSends(c, id)
  PROVE  rx' \in [Conn -> Seq(Packets)] /\ NoSyncSent /\ HostTyped'
  <2> USE <1>HostSendsKeeps
  <2> DEFINE sent == host[c].sent
             rid == host[c].rid
             n == IF sent = 0 THEN 1 ELSE Smaller(sent + PktLen, Count)
             ks == [i \in 1 .. n - sent |-> sent + i]
  <2>0. /\ ToDevice(c, <<Wrte(rid, id, ks)>>) /\ UNCHANGED opens
        /\ host' = [host EXCEPT ![c].pc = "write", ![c].lid = id, ![c].sent = n]
    BY DEF HostSends
  <2>t. /\ host \in [Conn -> Hosts] /\ opens \in 0 .. MaxOpens /\ sent \in 0 .. Count
        /\ rid \in 0 .. MaxOpens
        /\ Count \in Nat /\ Count > 0 /\ PktLen \in Nat /\ PktLen > 0 /\ sent < Count
    BY Bounds DEF Typed, HostTyped, Hosts
  <2> HIDE DEF sent, rid
  <2>1. Smaller(sent + PktLen, Count) = IF sent + PktLen <= Count THEN sent + PktLen ELSE Count
    BY <2>t DEF Smaller
  <2>2. n \in 0 .. Count /\ n > sent
    BY <2>1, <2>t
  <2> HIDE DEF n
  <2>3. n - sent \in Nat /\ \A i \in 1 .. n - sent : sent + i \in 1 .. Count
    BY <2>2, <2>t
  <2>4. ks \in Seq(1 .. Count)
    <3> DEFINE K == 1 .. Count
               m == n - sent
    <3>1. m \in Nat /\ \A i \in 1 .. m : sent + i \in K
      BY Zenon, <2>3
    <3> HIDE DEF K, m
    <3>2. [i \in 1 .. m |-> sent + i] \in Seq(K)
      BY <3>1
    <3> QED
      BY Zenon, <3>2 DEF K, m
  <2> HIDE DEF ks
  <2>5. Wrte(rid, id, ks) \in Packets /\ Wrte(rid, id, ks).cmd = "WRTE"
    BY <2>4, <2>t, WriteTypes
  <2>6. rx' \in [Conn -> Seq(Packets)] /\ NoSyncSent
    BY <2>0, <2>5, <1>OnePacket
  <2>7. HostTyped'
    BY ZenonT(60), <2>0, <2>2, <2>t DEF HostTyped, Hosts
  <2> QED
    BY <2>6, <2>7
<1>HostResult.
  ASSUME Typed, HostUnchanged, rx' \in [Conn -> Seq(Packets)], tx' \in [Conn -> Seq(Packets)],
         NoSyncSent, HostTyped'
  PROVE  Harmless
  <2> USE <1>HostResult
  <2>0. /\ UNCHANGED <<usbFd, last, openPc, reg, tr, outPc, inPc, toLoop, toInput, fde, sock, nextId>>
        /\ UNCHANGED chan
    BY DEF HostUnchanged, usb, threads
  <2>1. LinkTyped' /\ ChanTyped'
    BY <2>0 DEF LinkTyped, Typed, ChanTyped
  <2> QED
    BY <2>0, <2>1, OutsideKeeps
<1>HostReceiveKeeps.
  ASSUME Typed, NEW c \in Conn, HostReceive(c)
  PROVE  Harmless
  <2> USE <1>HostReceiveKeeps
  <2> DEFINE p == Head(tx[c])
  <2>t. LinkTyped /\ HostTyped /\ tx \in [Conn -> Seq(Packets)] /\ rx \in [Conn -> Seq(Packets)]
    BY DEF Typed, LinkTyped
  <2>0. HostUnchanged /\ tx[c] # << >> /\ tx' = [tx EXCEPT ![c] = Tail(@)]
    BY DEF HostReceive
  <2>1. tx' \in [Conn -> Seq(Packets)] /\ p \in Packets
    BY <2>0, <2>t, Queues
  <2>2. p.a0 \in 0 .. MaxOpens /\ p.a1 \in 0 .. MaxOpens
    BY Zenon, <2>1 DEF Packets
  <2> HIDE DEF p
  <2>3. rx' \in [Conn -> Seq(Packets)] /\ NoSyncSent /\ HostTyped'
    <3>1. CASE HostOpens(c)
      BY Zenon, <3>1, <1>HostOpensKeeps
    <3>2. CASE host[c].sent < Count /\ HostSends(c, p.a0)
      BY <2>2, <3>2, <1>HostSendsKeeps
    <3>3. CASE UNCHANGED <<rx, opens>> /\ \E s \in {"result", "done"} : host' = [host EXCEPT ![c].pc = s]
      <4>1. HostTyped'
        BY Zenon, <3>3, <1>HostMoves
      <4> QED
        BY <2>t, <3>3, <4>1 DEF NoSyncSent
    <3>4. CASE /\ ToDevice(c, <<Pkt("OKAY", p.a1, p.a0), Pkt("CLSE", p.a1, p.a0)>>)
               /\ host' = [host EXCEPT ![c].pc = "done"] /\ UNCHANGED opens
      <4> DEFINE a == Pkt("OKAY", p.a1, p.a0)
                 b == Pkt("CLSE", p.a1, p.a0)
      <4>1. a \in Packets /\ a.cmd = "OKAY" /\ b \in Packets /\ b.cmd = "CLSE"
        BY <2>2, PacketTypes
      <4>2. ToDevice(c, <<a, b>>)
        BY <3>4
      <4> HIDE DEF a, b
      <4>3. <<a, b>> \in Seq(Packets) /\ \A i \in 1 .. Len(<<a, b>>) : <<a, b>>[i].cmd # "SYNC"
        BY <4>1
      <4>4. HostTyped'
        BY Zenon, <3>4, <1>HostMoves
      <4> QED
        BY Zenon, <2>t, <4>2, <4>3, <4>4, <1>ToDeviceKeeps
    <3>5. CASE UNCHANGED <<rx, host, opens>>
      BY Zenon, <2>t, <3>5 DEF NoSyncSent, HostTyped
    <3> QED
      BY <3>1, <3>2, <3>3, <3>4, <3>5 DEF HostReceive, p, hosts
  <2> QED
    BY Zenon, <2>0, <2>1, <2>3, <1>HostResult
<1>HostConnectKeeps.
  ASSUME Typed, NEW c \in Conn, HostConnect(c) \/ HostAgain(c) \/ HostInterrupt(c)
  PROVE  Harmless
  <2> USE <1>HostConnectKeeps
  <2>t. HostTyped /\ tx \in [Conn -> Seq(Packets)] /\ host[c].rid \in 0 .. MaxOpens
        /\ host[c].lid \in 0 .. MaxOpens
    BY DEF Typed, LinkTyped, HostTyped, Hosts
  <2> DEFINE a == Pkt("CNXN", 0, 0)
             b == Pkt("CLSE", host[c].rid, host[c].lid)
  <2>0. HostUnchanged /\ UNCHANGED tx
    BY DEF HostConnect, HostAgain, HostInterrupt
  <2>1. \/ HostOpens(c)
        \/ ToDevice(c, <<a>>) /\ host' = [host EXCEPT ![c].pc = "cnxn"] /\ UNCHANGED opens
        \/ ToDevice(c, <<b>>) /\ host' = [host EXCEPT ![c].pc = "done"] /\ UNCHANGED opens
    BY Zenon DEF HostConnect, HostAgain, HostInterrupt
  <2>2. a \in Packets /\ a.cmd = "CNXN" /\ b \in Packets /\ b.cmd = "CLSE"
    <3>1. a \in Packets /\ a.cmd = "CNXN"
      BY SMT, SeqNone, PacketTypes
    <3>2. b \in Packets /\ b.cmd = "CLSE"
      BY SMT, <2>t, PacketTypes
    <3> QED
      BY Zenon, <3>1, <3>2
  <2> HIDE DEF a, b
  <2>3. rx' \in [Conn -> Seq(Packets)] /\ NoSyncSent /\ HostTyped'
    BY <2>1, <2>2, <1>HostOpensKeeps, <1>HostMoves, <1>OnePacket
  <2> QED
    BY Zenon, <2>0, <2>3, <2>t, <1>HostResult
<1>UnplugKeeps.
  ASSUME Typed, NEW c \in Conn, Unplug(c)
  PROVE  Harmless
  <2> USE <1>UnplugKeeps
  <2>t. LinkTyped /\ HostTyped /\ ChanTyped
    BY Zenon DEF Typed
  <2>0. /\ UNCHANGED <<usbFd, last, openPc, reg, tr, outPc, inPc, toLoop, toInput, fde, sock, nextId>>
        /\ UNCHANGED <<chan, host, opens>>
        /\ rx' = [rx EXCEPT ![c] = << >>] /\ tx' = [tx EXCEPT ![c] = << >>]
    BY DEF Unplug, usb, threads, hosts
  <2>1. LinkTyped'
    BY ZenonT(60), <2>0, <2>t, Queues DEF LinkTyped
  <2>2. NoSyncSent
    BY <2>0, <2>t DEF NoSyncSent, LinkTyped
  <2>3. HostTyped' /\ ChanTyped'
    BY <2>0, <2>t DEF HostTyped, ChanTyped
  <2> QED
    BY <2>0, <2>1, <2>2, <2>3, OutsideKeeps
<1>1. AdbInv => Typed
  BY DEF AdbInv
<1> QED
  BY Zenon, <1>1, <1>HostConnectKeeps, <1>HostReceiveKeeps, <1>UnplugKeeps, HarmlessKeeps

-----------------------------------------------------------------------------
(* AdbInv holds after every step.                                          *)
LEMMA NextKeeps ==
  ASSUME AdbInv, [Next]_vars
  PROVE  AdbInv'
<1>1. CASE OpenUsb \/ RegisterTransport
  BY <1>1, UsbThreadKeeps
<1>2. CASE Loop
  <2>1. CASE RegistrationAdd \/ RegistrationRemove
    BY <2>1, RegistrationKeeps
  <2> QED
    BY <1>2, <2>1, SelectKeeps, HandlePacketKeeps, SocketEventKeeps DEF Loop
<1>3. ASSUME NEW id \in Id, Service(id)
      PROVE  AdbInv'
  <2>1. Typed
    BY DEF AdbInv
  <2>2. Harmless
    BY <1>3, <2>1, ServiceKeeps
  <2> QED
    BY <2>2, HarmlessKeeps
<1>4. CASE UNCHANGED vars
  BY <1>4, StutterKeeps
<1>5. ASSUME NEW c \in Conn, OutputThread(c) \/ InputThread(c) \/ KickOrUnref(c)
      PROVE  AdbInv'
  BY <1>5, OutputThreadKeeps, InputThreadKeeps, EndOfThreadKeeps
<1> QED
  BY <1>1, <1>2, <1>3, <1>4, <1>5, HostKeeps DEF Next, Undisturbed

LEMMA AlwaysAdbInv == Spec => []AdbInv
<1>1. Init => AdbInv
  BY InitHolds
<1>2. AdbInv /\ [Next]_vars => AdbInv'
  BY NextKeeps
<1> QED
  BY <1>1, <1>2, PTL DEF Spec

(* The event loop never dispatches to a descriptor that a callback before  *)
(* it has closed: fdevent_remove() takes it off the list of fdevent.c, and *)
(* select() reports only what is installed.                                *)
THEOREM DispatchesTheLiving == Spec => []PendingAlive
<1>1. AdbInv => PendingAlive
  BY InvPending
<1> QED
  BY <1>1, AlwaysAdbInv, PTL

(* close_all_sockets() on the input thread finds nothing to close,         *)
(* usb_kick() never closes the device of a later connection, and           *)
(* transport_registration_func() frees a transport once, when both threads *)
(* of it have ended and no socket sends through it.                        *)
THEOREM ThreadsEndHarmlessly == Spec => []LateThreadsHarmless
<1>1. AdbInv => LateThreadsHarmless
  BY InvLate
<1> QED
  BY <1>1, AlwaysAdbInv, PTL
=============================================================================
