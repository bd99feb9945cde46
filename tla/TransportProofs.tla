-------------------------- MODULE TransportProofs ---------------------------
(***************************************************************************)
(* The inductive invariant of minadbd, and its proof for the threads of a  *)
(* connection: opening the device, the two threads of a transport, and its *)
(* registration, for any number of openings, of streams and of faults.     *)
(***************************************************************************)
EXTENDS Minadbd, TLAPS

Evented == [want : [Fds -> SUBSET {"READ", "WRITE"}],
            events : [Fds -> SUBSET {"READ", "WRITE"}], pending : SUBSET Fds]
Transports == [st : {"none", "registered", "freed"}, cs : {"offline", "host"}, ref : Int,
               kicked : BOOLEAN, active : BOOLEAN]
Socks == [st : {"none", "open", "closing", "freed"}, peer : 0 .. Conns,
          rid : 0 .. MaxOpens, pkts : Seq(1 .. Count)]
Chans == [down : Seq(1 .. Count), up : 0 .. 1, loopOpen : BOOLEAN, svcOpen : BOOLEAN]
Hosts == [pc : {"idle", "cnxn", "open", "write", "result", "done"},
          rid : 0 .. MaxOpens, lid : 0 .. MaxOpens, sent : 0 .. Count]
OutPcs == {"none", "sync", "read", "offline", "kick", "kicking", "unref", "done"}
InPcs == {"none", "read", "close", "kick", "kicking", "unref", "done"}

(* The types of what is computed with, by component.                       *)
UsbTyped == /\ usbFd \in 0 .. Conns /\ last \in 0 .. Conns /\ openPc \in {"wait", "register"}
            /\ openPc = "register" => last \in Conn
LinkTyped == rx \in [Conn -> Seq(Packets)] /\ tx \in [Conn -> Seq(Packets)]
RegTyped == reg \in Seq(Conn \X {"add", "remove"})
TrTyped == tr \in [Conn -> Transports]
PcTyped == outPc \in [Conn -> OutPcs] /\ inPc \in [Conn -> InPcs]
PairTyped == toLoop \in [Conn -> Seq(Packets)] /\ toInput \in [Conn -> Seq(Packets)]
FdeTyped == fde \in Evented
SockTyped == sock \in [Id -> Socks] /\ nextId \in Nat \ {0}
ChanTyped == chan \in [Id -> Chans] /\ \A id \in Id : Len(chan[id].down) <= SockRoom
HostTyped == host \in [Conn -> Hosts] /\ opens \in 0 .. MaxOpens

Typed == /\ UsbTyped /\ LinkTyped /\ RegTyped /\ TrTyped /\ PcTyped /\ PairTyped
         /\ FdeTyped /\ SockTyped /\ ChanTyped /\ HostTyped

-----------------------------------------------------------------------------
(* The life of a transport.  A connection is announced once, by the thread *)
(* that opened the device, and removed once, by the last of its threads;   *)
(* the device stays open until the first of them kicks it.                 *)
Started(c) == outPc[c] # "none" /\ inPc[c] # "none"
Unstarted(c) == outPc[c] = "none" /\ inPc[c] = "none" /\ tr[c].st = "none" /\ FirstKick(c)
Ended(c) == outPc[c] = "done" /\ inPc[c] = "done"
Unannounced(c) == c > last \/ (c = last /\ openPc = "register")
Refs(c) == (IF outPc[c] = "done" THEN 0 ELSE 1) + (IF inPc[c] = "done" THEN 0 ELSE 1)

UsbLife == usbFd <= last /\ (openPc = "register" => usbFd = last)
RegLife ==
    /\ \A i, j \in DOMAIN reg : reg[i][1] = reg[j][1] => i = j
    /\ \A c \in Conn : \A i \in DOMAIN reg : reg[i][1] = c =>
          /\ ~Unannounced(c)
          /\ reg[i][2] = "add" => Unstarted(c)
          /\ reg[i][2] = "remove" => Ended(c) /\ tr[c].st = "registered"
ConnLife(c) ==
    /\ Unannounced(c) => Unstarted(c)
    /\ tr[c].st = "none" => Unstarted(c)
    /\ tr[c].st # "none" => Started(c)
    /\ tr[c].st = "freed" => Ended(c) /\ \A i \in DOMAIN reg : reg[i][1] # c
    /\ tr[c].st = "registered" => tr[c].ref = Refs(c)
    /\ c <= last /\ FirstKick(c) => usbFd = c
    /\ outPc[c] = "kicking" \/ inPc[c] = "kicking" => usbFd = c
    /\ ~(outPc[c] = "kicking" /\ inPc[c] = "kicking")
    /\ outPc[c] \in {"kicking", "unref", "done"} \/ inPc[c] \in {"kicking", "unref", "done"} =>
          ~FirstKick(c)
LifeInv == UsbLife /\ RegLife /\ \A c \in Conn : ConnLife(c)

-----------------------------------------------------------------------------
(* SYNC(0) is the last packet of the output thread.  When the loop has     *)
(* passed it on, there is no packet left to open a socket, and no socket.  *)
IsSync0(p) == p.cmd = "SYNC" /\ p.a0 = 0
Stopping(c) == outPc[c] \in {"kick", "kicking", "unref", "done"}
Over(c) == \/ inPc[c] \in {"close", "kick", "kicking", "unref", "done"}
           \/ \E i \in DOMAIN toInput[c] : IsSync0(toInput[c][i])

PacketsOf(c) ==
    /\ \A i \in DOMAIN rx[c] : rx[c][i].cmd # "SYNC"
    /\ \A i \in DOMAIN toLoop[c] : IsSync0(toLoop[c][i]) => i = Len(toLoop[c]) /\ Stopping(c)
    /\ Over(c) => Stopping(c) /\ toLoop[c] = << >> /\ OfTransport(c) = {}
PacketInv == \A c \in Conn : PacketsOf(c)

-----------------------------------------------------------------------------
(* Only what is installed is watched or pending, and the registration      *)
(* socket is pending only while it has something to read.                  *)
Installed(d) ==
    /\ \A c \in Conn : d = T(c) => tr[c].st = "registered"
    /\ \A id \in Id : d = S(id) => sock[id].st \in {"open", "closing"}
LoopInv ==
    /\ Reg \in fde.pending => reg # << >>
    /\ \A d \in Fds : fde.want[d] # {} \/ d \in fde.pending => Installed(d)

AdbInv == Typed /\ LifeInv /\ PacketInv /\ LoopInv
-----------------------------------------------------------------------------
LEMMA Bounds ==
  /\ Conns \in Nat /\ Count \in Nat /\ SockRoom \in Nat /\ MaxOpens \in Nat /\ PktLen \in Nat
  /\ Conns > 0 /\ Count > 0 /\ SockRoom > 0 /\ MaxOpens > 0 /\ PktLen > 0
  BY AdbAssumption

LEMMA Descriptors ==
  /\ Reg \in Fds /\ \A c \in Conn : T(c) \in Fds /\ T(c) # Reg
  /\ \A id \in Id : S(id) \in Fds /\ S(id) # Reg /\ \A c \in Conn : S(id) # T(c)
  /\ \A c, e \in Conn : T(c) = T(e) => c = e
  /\ \A c, e \in Id : S(c) = S(e) => c = e
  /\ \A d \in Fds : d = Reg \/ (\E c \in Conn : d = T(c)) \/ \E id \in Id : d = S(id)
  BY DEF Fds, Reg, T, S

LEMMA SeqNone == << >> \in Seq(1 .. Count) /\ 0 \in 0 .. MaxOpens /\ 1 \in 0 .. MaxOpens
  BY Bounds

LEMMA PacketTypes ==
  ASSUME NEW cmd \in {"SYNC", "CNXN", "OPEN", "OKAY", "CLSE", "WRTE"},
         NEW a0 \in 0 .. MaxOpens, NEW a1 \in 0 .. MaxOpens
  PROVE  /\ Pkt(cmd, a0, a1) \in Packets /\ <<Pkt(cmd, a0, a1)>> \in Seq(Packets)
         /\ Pkt(cmd, a0, a1).cmd = cmd /\ Pkt(cmd, a0, a1).a0 = a0
<1>1. << >> \in Seq(1 .. Count)
  OBVIOUS
<1>2. Pkt(cmd, a0, a1) \in Packets /\ Pkt(cmd, a0, a1).cmd = cmd /\ Pkt(cmd, a0, a1).a0 = a0
  BY <1>1 DEF Pkt, Packets
<1> QED
  BY <1>2

LEMMA TailFacts ==
  ASSUME NEW X, NEW q \in Seq(X), q # << >>
  PROVE  /\ Tail(q) \in Seq(X) /\ Head(q) \in X /\ Len(q) \in Nat /\ Len(q) >= 1
         /\ Len(Tail(q)) = Len(q) - 1
         /\ DOMAIN Tail(q) = 1 .. Len(Tail(q)) /\ DOMAIN q = 1 .. Len(q)
         /\ \A i \in DOMAIN Tail(q) : Tail(q)[i] = q[i + 1]
         /\ Head(q) = q[1]
  OBVIOUS

LEMMA TailNext ==
  ASSUME NEW X, NEW q \in Seq(X), q # << >>
  PROVE  \A i \in DOMAIN Tail(q) : i + 1 \in DOMAIN q /\ Tail(q)[i] = q[i + 1]
  OBVIOUS

LEMMA AppendFacts ==
  ASSUME NEW X, NEW q \in Seq(X), NEW x \in X
  PROVE  /\ DOMAIN Append(q, x) = DOMAIN q \cup {Len(q) + 1} /\ Len(q) + 1 \notin DOMAIN q
         /\ Append(q, x)[Len(q) + 1] = x /\ Append(q, x) # << >>
         /\ \A i \in DOMAIN q : Append(q, x)[i] = q[i]
  OBVIOUS

LEMMA Chunks ==
  ASSUME NEW ks \in Seq(1 .. Count), NEW n \in Nat
  PROVE  /\ Fits(n, ks) \in Seq(1 .. Count) /\ Rest(n, ks) \in Seq(1 .. Count)
         /\ Len(Fits(n, ks)) <= n
         /\ Len(Fits(n, ks)) + Len(Rest(n, ks)) = Len(ks)
         /\ \A i \in 1 .. Len(Fits(n, ks)) : Fits(n, ks)[i] = ks[i]
         /\ \A i \in 1 .. Len(Rest(n, ks)) : Rest(n, ks)[i] = ks[Len(Fits(n, ks)) + i]
         /\ n = 0 => Fits(n, ks) = << >> /\ Rest(n, ks) = ks
<1> DEFINE K == 1 .. Count
<1>0. ks \in Seq(K) /\ Len(ks) \in Nat
  OBVIOUS
<1> HIDE DEF K
<1> DEFINE m == Smaller(n, Len(ks))
<1>1. m = IF n <= Len(ks) THEN n ELSE Len(ks)
  BY DEF Smaller
<1>2. m \in 0 .. Len(ks) /\ m <= n
  BY <1>1
<1>3. Fits(n, ks) = SubSeq(ks, 1, m) /\ Rest(n, ks) = SubSeq(ks, n + 1, Len(ks))
  BY DEF Fits, Rest
<1> HIDE DEF m
<1>4. /\ SubSeq(ks, 1, m) \in Seq(K) /\ Len(SubSeq(ks, 1, m)) = m
      /\ \A i \in 1 .. m : SubSeq(ks, 1, m)[i] = ks[i]
  BY <1>0, <1>2
<1>5. SubSeq(ks, n + 1, Len(ks)) \in Seq(K)
  BY <1>0
<1>6. /\ Len(SubSeq(ks, n + 1, Len(ks))) = Len(ks) - m
      /\ \A i \in 1 .. Len(ks) - m : SubSeq(ks, n + 1, Len(ks))[i] = ks[m + i]
  <2>1. CASE n <= Len(ks)
    <3>1. m = n
      BY <1>1, <2>1
    <3> QED
      BY <2>1, <3>1
  <2>2. CASE ~(n <= Len(ks))
    <3>1. m = Len(ks)
      BY <1>1, <2>2
    <3> QED
      BY <2>2, <3>1
  <2> QED
    BY <2>1, <2>2
<1>7. n = 0 => SubSeq(ks, 1, m) = << >> /\ SubSeq(ks, n + 1, Len(ks)) = ks
  BY <1>2, <1>4, <1>5, <1>6
<1>8. Fits(n, ks) \in Seq(1 .. Count) /\ Rest(n, ks) \in Seq(1 .. Count)
  BY Zenon, <1>3, <1>4, <1>5 DEF K
<1>9. Len(Fits(n, ks)) = m /\ Len(Rest(n, ks)) = Len(ks) - m
  BY <1>3, <1>4, <1>6
<1>10. /\ \A i \in 1 .. m : Fits(n, ks)[i] = ks[i]
       /\ \A i \in 1 .. Len(ks) - m : Rest(n, ks)[i] = ks[m + i]
  BY Zenon, <1>3, <1>4, <1>6
<1>11. n = 0 => Fits(n, ks) = << >> /\ Rest(n, ks) = ks
  BY Zenon, <1>3, <1>7
<1>12. m \in Nat /\ m <= n /\ m + (Len(ks) - m) = Len(ks)
  BY <1>0, <1>2
<1> QED
  BY Zenon, <1>8, <1>9, <1>10, <1>11, <1>12

LEMMA RoomLeft ==
  ASSUME ChanTyped, NEW id \in Id
  PROVE  /\ Room(id) \in Nat /\ chan[id].down \in Seq(1 .. Count)
         /\ \A n \in Int : Len(chan[id].down) + n <= SockRoom <=> n <= Room(id)
<1>1. chan[id].down \in Seq(1 .. Count) /\ Len(chan[id].down) <= SockRoom /\ SockRoom \in Nat
  BY Bounds DEF ChanTyped, Chans
<1>2. Len(chan[id].down) \in Nat
  BY <1>1
<1> QED
  BY <1>1, <1>2 DEF Room

-----------------------------------------------------------------------------
(* What most steps of the loop have in common.  Queues to the loop are     *)
(* only shortened, no SYNC(0) is sent, sockets only lose their peers ...   *)
NoSyncSent ==
    \A c \in Conn : \A j \in DOMAIN rx'[c] :
        rx'[c][j].cmd = "SYNC" => \E i \in DOMAIN rx[c] : rx[c][i].cmd = "SYNC"
NoSyncAdded ==
    \A c \in Conn : \A j \in DOMAIN toInput'[c] :
        IsSync0(toInput'[c][j]) => \E i \in DOMAIN toInput[c] : IsSync0(toInput[c][i])
PacketEffects ==
    /\ UNCHANGED <<outPc, inPc>> /\ NoSyncSent /\ NoSyncAdded
    /\ \A c \in Conn : /\ \/ toLoop'[c] = toLoop[c]
                          \/ toLoop[c] # << >> /\ toLoop'[c] = Tail(toLoop[c])
                       /\ OfTransport(c)' \subseteq OfTransport(c) \/ toLoop[c] # << >>

(* ... nothing is watched that is not installed, and a socket that ends is *)
(* no longer watched.                                                      *)
Watched(d) == fde.want[d] # {} \/ d \in fde.pending
LoopEffects ==
    /\ fde' \in Evented /\ fde'.pending \subseteq fde.pending
    /\ \A d \in Fds : fde'.want[d] # {} => Watched(d) \/ Installed(d)'
    /\ \A id \in Id : sock[id].st \in {"open", "closing"} =>
                         sock'[id].st \in {"open", "closing"} \/ ~Watched(S(id))'

(* ... and the life of no transport changes.                               *)
SameLife ==
    /\ UNCHANGED <<usbFd, last, openPc, reg, outPc, inPc>>
    /\ \A c \in Conn : /\ tr'[c].st = tr[c].st /\ tr'[c].ref = tr[c].ref
                       /\ FirstKick(c)' <=> FirstKick(c)
Harmless == Typed' /\ SameLife /\ PacketEffects /\ LoopEffects

-----------------------------------------------------------------------------
(* What the operations of the event loop do to its state.                  *)
LEMMA FdeSteps ==
  ASSUME NEW F \in Evented, NEW x \in Fds, NEW ev \in SUBSET {"READ", "WRITE"}
  PROVE  /\ FdDequeue(F, x) \in Evented /\ FdDequeue(F, x).want = F.want
         /\ FdDequeue(F, x).pending = F.pending \ {x}
         /\ FdInstall(F, x, ev) \in Evented /\ FdInstall(F, x, ev).pending = F.pending
         /\ \A d \in Fds : FdInstall(F, x, ev).want[d] = IF d = x THEN ev ELSE F.want[d]
  BY Zenon DEF FdDequeue, FdInstall, Evented

-----------------------------------------------------------------------------
(* AdbInv holds at the start ...                                           *)
LEMMA InitHolds ==
  ASSUME Init
  PROVE  AdbInv
<1>1. /\ usbFd = 0 /\ openPc = "wait" /\ last = 0 /\ reg = << >> /\ nextId = 1 /\ opens = 0
      /\ rx = [c \in Conn |-> << >>] /\ tx = rx /\ toLoop = rx /\ toInput = rx
      /\ tr = [c \in Conn |-> NoTransport] /\ outPc = [c \in Conn |-> "none"] /\ inPc = outPc
      /\ sock = [id \in Id |-> NoSock] /\ chan = [id \in Id |-> NoChan]
      /\ host = [c \in Conn |-> [pc |-> "idle", rid |-> 0, lid |-> 0, sent |-> 0]]
      /\ fde = FdInstall(FdInit(Fds), Reg, {"READ"})
  BY DEF Init
<1>2. \A c \in Conn : c \in Nat /\ c > 0
  BY Bounds DEF Conn
<1>3. FdeTyped /\ fde.pending = {} /\ \A d \in Fds : d # Reg => fde.want[d] = {}
  <2>1. FdInit(Fds) \in Evented /\ FdInit(Fds).pending = {} /\ \A d \in Fds : FdInit(Fds).want[d] = {}
    BY DEF FdInit, Evented
  <2>2. Reg \in Fds /\ {"READ"} \in SUBSET {"READ", "WRITE"}
    BY Descriptors
  <2> QED
    BY <1>1, <2>1, <2>2, FdeSteps DEF FdeTyped
<1>4. Typed
  <2>1. UsbTyped /\ RegTyped
    BY <1>1, Bounds DEF UsbTyped, RegTyped
  <2>2. LinkTyped /\ PairTyped
    <3>1. << >> \in Seq(Packets)
      OBVIOUS
    <3> QED
      BY <1>1, <3>1 DEF LinkTyped, PairTyped
  <2>3. TrTyped
    <3>1. NoTransport \in Transports
      BY DEF NoTransport, Transports
    <3> QED
      BY <1>1, <3>1 DEF TrTyped
  <2>4. PcTyped
    BY <1>1 DEF PcTyped, OutPcs, InPcs
  <2>5. SockTyped
    <3>1. NoSock \in Socks
      BY Bounds DEF NoSock, Socks
    <3> QED
      BY <1>1, <3>1 DEF SockTyped
  <2>6. ChanTyped
    <3>1. NoChan \in Chans /\ Len(NoChan.down) = 0
      BY DEF NoChan, Chans
    <3> QED
      BY <1>1, <3>1, Bounds DEF ChanTyped
  <2>7. HostTyped
    <3>1. [pc |-> "idle", rid |-> 0, lid |-> 0, sent |-> 0] \in Hosts
      BY Bounds DEF Hosts
    <3> QED
      BY <1>1, <3>1, Bounds DEF HostTyped
  <2> QED
    BY <1>3, <2>1, <2>2, <2>3, <2>4, <2>5, <2>6, <2>7 DEF Typed
<1>5. LifeInv
  <2>1. UsbLife /\ RegLife
    BY <1>1 DEF UsbLife, RegLife
  <2>2. ASSUME NEW c \in Conn
        PROVE  ConnLife(c)
    <3>1. tr[c] = NoTransport /\ outPc[c] = "none" /\ inPc[c] = "none"
      BY <1>1
    <3>2. tr[c].st = "none" /\ FirstKick(c)
      BY <3>1 DEF NoTransport, FirstKick
    <3>3. Unstarted(c) /\ ~(c <= last)
      BY <1>1, <1>2, <3>1, <3>2 DEF Unstarted
    <3> QED
      BY <3>1, <3>2, <3>3 DEF ConnLife
  <2> QED
    BY <2>1, <2>2 DEF LifeInv
<1>6. PacketInv
  BY <1>1 DEF PacketInv, PacketsOf, Over
<1>7. LoopInv
  <2>1. Installed(Reg)
    BY Descriptors DEF Installed
  <2> QED
    BY <1>3, <2>1 DEF LoopInv
<1> QED
  BY <1>4, <1>5, <1>6, <1>7 DEF AdbInv

(* ... and says of the list of pending descriptors, and of the end of a    *)
(* transport, what has to hold.                                            *)
LEMMA InvPending ==
  ASSUME AdbInv
  PROVE  PendingAlive
<1>1. fde.pending \subseteq Fds /\ LoopInv
  BY DEF AdbInv, Typed, FdeTyped, Evented
<1>2. ASSUME NEW d \in fde.pending
      PROVE  CASE d[1] = "reg" -> TRUE
               [] d[1] = "t" -> tr[d[2]].st = "registered"
               [] d[1] = "s" -> sock[d[2]].st \in {"open", "closing"}
  <2>0. Installed(d)
    BY <1>1 DEF LoopInv
  <2>1. CASE d = Reg
    BY <2>1 DEF Reg
  <2>2. ASSUME NEW c \in Conn, d = T(c)
        PROVE  d[1] = "t" /\ tr[d[2]].st = "registered"
    BY <2>0, <2>2 DEF Installed, T
  <2>3. ASSUME NEW id \in Id, d = S(id)
        PROVE  d[1] = "s" /\ sock[d[2]].st \in {"open", "closing"}
    BY <2>0, <2>3 DEF Installed, S
  <2> QED
    BY Zenon, <1>1, <2>1, <2>2, <2>3, Descriptors
<1> QED
  BY Zenon, <1>2 DEF PendingAlive

LEMMA InvLate ==
  ASSUME AdbInv
  PROVE  LateThreadsHarmless
<1>0. LifeInv /\ PacketInv /\ LoopInv
  BY DEF AdbInv
<1>1. ASSUME NEW c \in Conn
      PROVE  /\ inPc[c] = "close" => OfTransport(c) = {}
             /\ "kicking" \in {inPc[c], outPc[c]} => usbFd = c
             /\ tr[c].st = "freed" =>
                 /\ outPc[c] = "done" /\ inPc[c] = "done"
                 /\ OfTransport(c) = {} /\ fde.want[T(c)] = {}
                 /\ \A i \in DOMAIN reg : reg[i][1] # c
  <2>1. ConnLife(c) /\ PacketsOf(c)
    BY <1>0 DEF LifeInv, PacketInv
  <2>2. inPc[c] \in {"close", "done"} => OfTransport(c) = {}
    BY <2>1 DEF PacketsOf, Over
  <2>3. tr[c].st = "freed" => Ended(c) /\ \A i \in DOMAIN reg : reg[i][1] # c
    BY <2>1 DEF ConnLife
  <2>4. "kicking" \in {inPc[c], outPc[c]} => usbFd = c
    BY <2>1 DEF ConnLife
  <2>5. tr[c].st # "registered" => fde.want[T(c)] = {}
    BY <1>0, Descriptors DEF LoopInv, Installed
  <2> QED
    BY <2>2, <2>3, <2>4, <2>5 DEF Ended
<1> QED
  BY <1>1 DEF LateThreadsHarmless

-----------------------------------------------------------------------------
(* Queues and packets.                                                     *)
LEMMA Queues ==
  ASSUME NEW q \in [Conn -> Seq(Packets)], NEW c \in Conn
  PROVE  /\ \A p \in Packets : [q EXCEPT ![c] = Append(@, p)] \in [Conn -> Seq(Packets)]
         /\ \A ps \in Seq(Packets) : [q EXCEPT ![c] = @ \o ps] \in [Conn -> Seq(Packets)]
         /\ q[c] # << >> => /\ [q EXCEPT ![c] = Tail(@)] \in [Conn -> Seq(Packets)]
                            /\ Head(q[c]) \in Packets
         /\ [q EXCEPT ![c] = << >>] \in [Conn -> Seq(Packets)]
<1> DEFINE P == Packets
<1>1. q \in [Conn -> Seq(P)]
  OBVIOUS
<1> HIDE DEF P
<1>2. \A p \in P : [q EXCEPT ![c] = Append(@, p)] \in [Conn -> Seq(P)]
  BY <1>1
<1>3. \A ps \in Seq(P) : [q EXCEPT ![c] = @ \o ps] \in [Conn -> Seq(P)]
  BY <1>1
<1>4. q[c] # << >> => [q EXCEPT ![c] = Tail(@)] \in [Conn -> Seq(P)] /\ Head(q[c]) \in P
  BY <1>1
<1>5. [q EXCEPT ![c] = << >>] \in [Conn -> Seq(P)]
  BY <1>1
<1> QED
  BY <1>2, <1>3, <1>4, <1>5 DEF P

(* The fields of a socket, of its socket pair, and the ids that packets    *)
(* name.                                                                   *)
LEMMA SockFields ==
  ASSUME SockTyped, NEW id \in Id
  PROVE  /\ sock[id] \in Socks /\ sock[id].pkts \in Seq(1 .. Count)
         /\ sock[id].peer \in 0 .. Conns /\ sock[id].rid \in 0 .. MaxOpens
         /\ sock[id].st \in {"none", "open", "closing", "freed"}
  BY DEF SockTyped, Socks

LEMMA ChanFields ==
  ASSUME ChanTyped, NEW id \in Id
  PROVE  /\ chan[id] \in Chans /\ chan[id].up \in 0 .. 1 /\ chan[id].down \in Seq(1 .. Count)
         /\ chan[id].down \o << >> = chan[id].down
  BY DEF ChanTyped, Chans

LEMMA IdsNamed == \A id \in 0 .. MaxOpens : id # 0 => id \in Id
  BY Bounds DEF Id

LEMMA CloseTypes ==
  \A rid \in 0 .. MaxOpens :
      <<Pkt("CLSE", 0, rid)>> \in Seq(Packets) /\ Pkt("CLSE", 0, rid).cmd = "CLSE"
  BY SeqNone, PacketTypes

-----------------------------------------------------------------------------
(* What the effects of a step leave of the invariant.                      *)
LEMMA PacketKept ==
  ASSUME Typed, PacketInv, PacketEffects
  PROVE  PacketInv'
<1> SUFFICES ASSUME NEW c \in Conn
             PROVE  /\ \A i \in DOMAIN rx'[c] : rx'[c][i].cmd # "SYNC"
                    /\ \A i \in DOMAIN toLoop'[c] :
                          IsSync0(toLoop'[c][i]) => i = Len(toLoop'[c]) /\ Stopping(c)'
                    /\ Over(c)' => Stopping(c)' /\ toLoop'[c] = << >> /\ OfTransport(c)' = {}
  BY Zenon DEF PacketInv, PacketsOf
<1>0. /\ UNCHANGED <<outPc, inPc>>
      /\ \A j \in DOMAIN rx'[c] :
            rx'[c][j].cmd = "SYNC" => \E i \in DOMAIN rx[c] : rx[c][i].cmd = "SYNC"
      /\ toLoop'[c] = toLoop[c] \/ (toLoop[c] # << >> /\ toLoop'[c] = Tail(toLoop[c]))
      /\ OfTransport(c)' \subseteq OfTransport(c) \/ toLoop[c] # << >>
      /\ \A j \in DOMAIN toInput'[c] :
            IsSync0(toInput'[c][j]) => \E i \in DOMAIN toInput[c] : IsSync0(toInput[c][i])
  BY DEF PacketEffects, NoSyncAdded, NoSyncSent
<1>1. /\ \A i \in DOMAIN rx[c] : rx[c][i].cmd # "SYNC"
      /\ \A i \in DOMAIN toLoop[c] :
            IsSync0(toLoop[c][i]) => i = Len(toLoop[c]) /\ Stopping(c)
      /\ Over(c) => Stopping(c) /\ toLoop[c] = << >> /\ OfTransport(c) = {}
  BY DEF PacketInv, PacketsOf
<1>2. Stopping(c)' <=> Stopping(c)
  BY <1>0 DEF Stopping
<1>3. Over(c)' => Over(c)
  BY <1>0 DEF Over
<1>4. \A i \in DOMAIN rx'[c] : rx'[c][i].cmd # "SYNC"
  BY <1>0, <1>1
<1>5. \A i \in DOMAIN toLoop'[c] :
         IsSync0(toLoop'[c][i]) => i = Len(toLoop'[c]) /\ Stopping(c)'
  <2>1. CASE toLoop'[c] = toLoop[c]
    BY <1>1, <1>2, <2>1
  <2>2. CASE toLoop[c] # << >> /\ toLoop'[c] = Tail(toLoop[c])
    <3>1. toLoop[c] \in Seq(Packets)
      BY DEF Typed, PairTyped
    <3>2. /\ Len(toLoop'[c]) = Len(toLoop[c]) - 1 /\ Len(toLoop[c]) \in Nat
          /\ DOMAIN toLoop'[c] = 1 .. Len(toLoop'[c]) /\ DOMAIN toLoop[c] = 1 .. Len(toLoop[c])
          /\ \A i \in DOMAIN toLoop'[c] : toLoop'[c][i] = toLoop[c][i + 1]
      BY <2>2, <3>1, TailFacts
    <3> QED
      BY SMTT(60), <1>1, <1>2, <3>2
  <2> QED
    BY <1>0, <2>1, <2>2
<1>6. Over(c)' => Stopping(c)' /\ toLoop'[c] = << >> /\ OfTransport(c)' = {}
  BY <1>0, <1>1, <1>2, <1>3
<1> QED
  BY <1>4, <1>5, <1>6

LEMMA LifeKept ==
  ASSUME RegTyped, LifeInv, SameLife
  PROVE  LifeInv'
<1>0. UNCHANGED <<usbFd, last, openPc, reg, outPc, inPc>>
  BY Zenon DEF SameLife
<1>1. ASSUME NEW c \in Conn
      PROVE  /\ tr'[c].st = tr[c].st /\ tr'[c].ref = tr[c].ref
             /\ FirstKick(c)' <=> FirstKick(c)
             /\ Unstarted(c)' <=> Unstarted(c)
             /\ Started(c)' <=> Started(c)
             /\ Ended(c)' <=> Ended(c)
             /\ Unannounced(c)' <=> Unannounced(c)
             /\ Refs(c)' = Refs(c)
  <2>1. tr'[c].st = tr[c].st /\ tr'[c].ref = tr[c].ref /\ (FirstKick(c)' <=> FirstKick(c))
    BY Zenon DEF SameLife
  <2> QED
    BY <1>0, <2>1 DEF Unstarted, Started, Ended, Unannounced, Refs
<1>2. \A i \in DOMAIN reg : reg[i][1] \in Conn
  BY DEF RegTyped
<1>3. RegLife'
  <2>1. ASSUME NEW e \in Conn, NEW i \in DOMAIN reg, reg[i][1] = e
        PROVE  /\ ~Unannounced(e)'
               /\ reg[i][2] = "add" => Unstarted(e)'
               /\ reg[i][2] = "remove" => Ended(e)' /\ tr'[e].st = "registered"
    BY ZenonT(60), <2>1, <1>0, <1>1, <1>2 DEF RegLife, LifeInv
  <2> QED
    BY Zenon, <1>0, <2>1 DEF RegLife, LifeInv
<1>4. ASSUME NEW c \in Conn
      PROVE  ConnLife(c)'
  BY <1>0, <1>1 DEF ConnLife, LifeInv
<1> QED
  BY <1>0, <1>3, <1>4 DEF LifeInv, UsbLife

LEMMA LoopKept ==
  ASSUME LoopInv, LoopEffects, reg # << >> => reg' # << >>,
         \A c \in Conn : tr'[c].st = tr[c].st
  PROVE  LoopInv'
<1>1. Reg \in fde'.pending => reg' # << >>
  BY DEF LoopInv, LoopEffects
<1>2. ASSUME NEW d \in Fds, Watched(d)'
      PROVE  Installed(d)'
  <2>1. Watched(d) \/ Installed(d)'
    BY <1>2 DEF LoopEffects, Watched
  <2>2. Watched(d) => Installed(d)
    BY DEF LoopInv, Watched
  <2>3. ASSUME Installed(d)
        PROVE  Installed(d)'
    <3>1. ASSUME NEW id \in Id, d = S(id)
          PROVE  sock'[id].st \in {"open", "closing"}
      BY <1>2, <2>3, <3>1 DEF LoopEffects, Installed
    <3> QED
      BY <2>3, <3>1 DEF Installed
  <2> QED
    BY <2>1, <2>2, <2>3
<1> QED
  BY <1>1, <1>2 DEF LoopInv, Watched

LEMMA LoopStays ==
  ASSUME Typed, LoopInv, UNCHANGED <<fde, sock>>, reg # << >> => reg' # << >>,
         \A c \in Conn : tr'[c].st = tr[c].st
  PROVE  LoopInv'
<1>1. LoopEffects
  BY DEF Typed, FdeTyped, LoopEffects, Watched
<1> QED
  BY <1>1, LoopKept

LEMMA PacketsStay ==
  ASSUME NEW e \in Conn, PacketsOf(e), Stopping(e) => Stopping(e)', Over(e)' => Over(e),
         toLoop'[e] = toLoop[e], OfTransport(e)' \subseteq OfTransport(e),
         \A j \in DOMAIN rx'[e] :
             rx'[e][j].cmd = "SYNC" => \E i \in DOMAIN rx[e] : rx[e][i].cmd = "SYNC"
  PROVE  PacketsOf(e)'
  BY DEF PacketsOf

(* What a step of one transport leaves to the others.                      *)
EntryOf(e) ==
    \A i \in DOMAIN reg : reg[i][1] = e =>
        /\ ~Unannounced(e)
        /\ reg[i][2] = "add" => Unstarted(e)
        /\ reg[i][2] = "remove" => Ended(e) /\ tr[e].st = "registered"

LEMMA OtherLives ==
  ASSUME LifeInv, NEW c \in Conn, NEW e \in Conn, e # c, UNCHANGED <<last, openPc>>,
         usbFd' = usbFd \/ usbFd = c,
         tr'[e].st = tr[e].st, tr'[e].ref = tr[e].ref, FirstKick(e)' <=> FirstKick(e),
         outPc'[e] = outPc[e], inPc'[e] = inPc[e],
         \A i \in DOMAIN reg' : reg'[i][1] = e => \E j \in DOMAIN reg : reg[j] = reg'[i]
  PROVE  ConnLife(e)' /\ EntryOf(e)'
<1>1. /\ Unstarted(e)' <=> Unstarted(e)
      /\ Started(e)' <=> Started(e)
      /\ Ended(e)' <=> Ended(e)
      /\ Unannounced(e)' <=> Unannounced(e)
      /\ Refs(e)' = Refs(e)
  BY DEF Unstarted, Started, Ended, Unannounced, Refs
<1>2. ConnLife(e)
  BY Zenon DEF LifeInv
<1>3. ConnLife(e)'
  BY Zenon, <1>1, <1>2 DEF ConnLife
<1>4. EntryOf(e)
  BY Zenon DEF LifeInv, RegLife, EntryOf
<1>5. EntryOf(e)'
  BY <1>1, <1>4 DEF EntryOf
<1> QED
  BY Zenon, <1>3, <1>5

-----------------------------------------------------------------------------
(* The thread that opens the device.                                       *)
LEMMA UsbThreadKeeps ==
  AdbInv /\ (OpenUsb \/ RegisterTransport) => AdbInv'
<1>OpenUsbTyped.
  ASSUME Typed, OpenUsb
  PROVE  Typed'
  <2> USE <1>OpenUsbTyped
  <2>0. UsbTyped /\ LinkTyped /\ RegTyped /\ TrTyped /\ PcTyped
        /\ PairTyped /\ FdeTyped /\ SockTyped /\ ChanTyped /\ HostTyped
    BY Zenon DEF Typed
  <2>1. UNCHANGED <<rx, tx, reg, tr, outPc, inPc, toLoop, toInput, fde, sock, nextId, chan, host,
        opens>>
    BY DEF OpenUsb, usb, link, threads, hosts, HostUnchanged
  <2>2. LinkTyped' /\ RegTyped' /\ TrTyped' /\ PcTyped' /\ PairTyped' /\ FdeTyped' /\ SockTyped'
        /\ ChanTyped' /\ HostTyped'
    BY <2>0, <2>1 DEF LinkTyped, RegTyped, TrTyped, PcTyped, PairTyped, FdeTyped, SockTyped,
          ChanTyped, HostTyped
  <2>3. UsbTyped'
    BY <2>0, <2>1, Bounds DEF OpenUsb, UsbTyped, Conn
  <2> QED
    BY Zenon, <2>2, <2>3 DEF Typed
<1>RegisterTransportTyped.
  ASSUME Typed, RegisterTransport
  PROVE  Typed'
  <2> USE <1>RegisterTransportTyped
  <2>0. UsbTyped /\ LinkTyped /\ RegTyped /\ TrTyped /\ PcTyped
        /\ PairTyped /\ FdeTyped /\ SockTyped /\ ChanTyped /\ HostTyped
    BY Zenon DEF Typed
  <2>1. UNCHANGED <<rx, tx, tr, outPc, inPc, toLoop, toInput, fde, sock, nextId, chan, host, opens>>
    BY DEF RegisterTransport, usb, link, threads, hosts, HostUnchanged
  <2>2. LinkTyped' /\ TrTyped' /\ PcTyped' /\ PairTyped' /\ FdeTyped' /\ SockTyped' /\ ChanTyped'
        /\ HostTyped'
    BY <2>0, <2>1 DEF LinkTyped, TrTyped, PcTyped, PairTyped, FdeTyped, SockTyped, ChanTyped,
          HostTyped
  <2>3. UsbTyped'
    BY <2>0, <2>1 DEF RegisterTransport, UsbTyped
  <2>4. RegTyped'
    BY <2>0, <2>1 DEF RegisterTransport, UsbTyped, RegTyped
  <2> QED
    BY Zenon, <2>2, <2>3, <2>4 DEF Typed
<1>OpenUsbLife.
  ASSUME Typed, LifeInv, OpenUsb
  PROVE  LifeInv'
  <2> USE <1>OpenUsbLife
  <2>t. RegTyped /\ last \in Nat /\ Conns \in Nat
    BY Bounds DEF Typed, UsbTyped
  <2>0. /\ openPc = "wait" /\ usbFd = 0 /\ last' = last + 1 /\ usbFd' = last + 1
        /\ openPc' = "register" /\ UNCHANGED <<reg, tr, outPc, inPc>>
    BY DEF OpenUsb, threads
  <2>1. ASSUME NEW e \in Conn
        PROVE  /\ FirstKick(e)' <=> FirstKick(e)
               /\ Unstarted(e)' <=> Unstarted(e)
               /\ Started(e)' <=> Started(e)
               /\ Ended(e)' <=> Ended(e)
               /\ Refs(e)' = Refs(e)
               /\ e \in Nat \ {0}
    <3>1. FirstKick(e)' <=> FirstKick(e)
      BY Zenon, <2>0 DEF FirstKick
    <3> QED
      BY <2>0, <2>t, <3>1 DEF Unstarted, Started, Ended, Refs, Conn
  <2>2. ASSUME NEW e \in Conn
        PROVE  /\ Unannounced(e)' => Unannounced(e)
               /\ ~Unannounced(e) => ~Unannounced(e)'
    BY <2>0, <2>1, <2>t DEF Unannounced
  <2>3. \A i \in DOMAIN reg : reg[i][1] \in Conn
    BY <2>t DEF RegTyped
  <2>4. RegLife'
    <3>1. ASSUME NEW e \in Conn, NEW i \in DOMAIN reg, reg[i][1] = e
          PROVE  /\ ~Unannounced(e)'
                 /\ reg[i][2] = "add" => Unstarted(e)'
                 /\ reg[i][2] = "remove" => Ended(e)' /\ tr'[e].st = "registered"
      BY ZenonT(60), <3>1, <2>0, <2>1, <2>2, <2>3 DEF RegLife, LifeInv
    <3> QED
      BY Zenon, <2>0, <3>1 DEF RegLife, LifeInv
  <2>5. ASSUME NEW e \in Conn
        PROVE  ConnLife(e)'
    <3>1. ConnLife(e)
      BY Zenon DEF LifeInv
    <3>2. ~(e <= last /\ FirstKick(e)) /\ outPc[e] # "kicking" /\ inPc[e] # "kicking"
      BY <2>0, <2>1, <3>1 DEF ConnLife
    <3>3. e <= last' /\ FirstKick(e)' => usbFd' = e
      BY <2>0, <2>1, <2>t, <3>2
    <3> QED
      BY <2>0, <2>1, <2>2, <3>1, <3>2, <3>3 DEF ConnLife
  <2> QED
    BY <2>0, <2>4, <2>5, <2>t DEF LifeInv, UsbLife
<1>RegisterLife.
  ASSUME Typed, LifeInv, RegisterTransport
  PROVE  LifeInv'
  <2> USE <1>RegisterLife
  <2> DEFINE X == Conn \X {"add", "remove"}
             x == <<last, "add">>
  <2>t. reg \in Seq(X) /\ last \in Nat /\ Conns \in Nat /\ usbFd \in Nat
    BY Bounds DEF Typed, UsbTyped, RegTyped
  <2>0. /\ openPc = "register" /\ reg' = Append(reg, x) /\ openPc' = "wait"
        /\ UNCHANGED <<usbFd, last, tr, outPc, inPc>>
    BY DEF RegisterTransport, threads
  <2>1. last \in Conn /\ x \in X /\ x[1] = last /\ x[2] = "add"
    BY <2>0 DEF Typed, UsbTyped
  <2>2. \A i \in DOMAIN reg : reg[i] \in X /\ reg[i][1] \in Conn
    BY <2>t
  <2> HIDE DEF X, x
  <2>3. /\ DOMAIN reg' = DOMAIN reg \cup {Len(reg) + 1} /\ Len(reg) + 1 \notin DOMAIN reg
        /\ reg'[Len(reg) + 1] = x /\ \A i \in DOMAIN reg : reg'[i] = reg[i]
    BY <2>0, <2>1, <2>t, AppendFacts
  <2>4. ASSUME NEW e \in Conn
        PROVE  /\ FirstKick(e)' <=> FirstKick(e)
               /\ Unstarted(e)' <=> Unstarted(e)
               /\ Started(e)' <=> Started(e)
               /\ Ended(e)' <=> Ended(e)
               /\ Refs(e)' = Refs(e)
               /\ Unannounced(e)' <=> (Unannounced(e) /\ e # last)
               /\ ConnLife(e)
    <3>1. FirstKick(e)' <=> FirstKick(e)
      BY Zenon, <2>0 DEF FirstKick
    <3>2. Unannounced(e)' <=> (Unannounced(e) /\ e # last)
      <4>1. e \in Nat
        BY SMTT(20), <2>t DEF Conn
      <4> QED
        BY <2>0, <2>t, <4>1 DEF Unannounced
    <3>3. ConnLife(e)
      BY DEF LifeInv
    <3> QED
      BY <2>0, <3>1, <3>2, <3>3 DEF Unstarted, Started, Ended, Refs
  <2>5. Unannounced(last) /\ Unstarted(last)
    BY Zenon, <2>0, <2>1, <2>4 DEF Unannounced, ConnLife
  <2>6. \A i \in DOMAIN reg : reg[i][1] # last
    BY Zenon, <2>1, <2>5 DEF LifeInv, RegLife
  <2>7. RegLife'
    <3>1. ASSUME NEW e \in Conn, NEW i \in DOMAIN reg', reg'[i][1] = e
          PROVE  /\ ~Unannounced(e)'
                 /\ reg'[i][2] = "add" => Unstarted(e)'
                 /\ reg'[i][2] = "remove" => Ended(e)' /\ tr'[e].st = "registered"
      <4>1. CASE i \in DOMAIN reg
        <5>1. /\ ~Unannounced(e)
              /\ reg[i][2] = "add" => Unstarted(e)
              /\ reg[i][2] = "remove" => Ended(e) /\ tr[e].st = "registered"
          BY Zenon, <2>3, <3>1, <4>1 DEF LifeInv, RegLife
        <5> QED
          BY Zenon, <2>0, <2>3, <2>4, <4>1, <5>1
      <4>2. CASE i = Len(reg) + 1
        <5>1. e = last
          BY <2>1, <2>3, <3>1, <4>2
        <5>2. Unstarted(e)
          BY Zenon, <2>5, <5>1
        <5> QED
          BY Zenon, <2>1, <2>3, <2>4, <4>2, <5>1, <5>2
      <4> QED
        BY Zenon, <2>3, <3>1, <4>1, <4>2
    <3>3. \A i, j \in DOMAIN reg' : reg'[i][1] = reg'[j][1] => i = j
      BY ZenonT(60), <2>1, <2>3, <2>6 DEF LifeInv, RegLife
    <3> QED
      BY Zenon, <3>1, <3>3 DEF RegLife
  <2>8. ASSUME NEW e \in Conn
        PROVE  ConnLife(e)'
    <3>1. tr[e].st = "freed" => \A i \in DOMAIN reg' : reg'[i][1] # e
      BY <2>1, <2>3, <2>4, <2>5 DEF ConnLife, Unstarted
    <3> QED
      BY ZenonT(60), <2>0, <2>4, <3>1 DEF ConnLife
  <2> QED
    BY <2>0, <2>7, <2>8 DEF LifeInv, UsbLife
<1>UsbKeeps.
  ASSUME AdbInv, OpenUsb \/ RegisterTransport
  PROVE  AdbInv'
  <2> USE <1>UsbKeeps
  <2>0. Typed /\ LifeInv /\ PacketInv /\ LoopInv
    BY DEF AdbInv
  <2>1. Typed' /\ LifeInv'
    BY Zenon, <2>0, <1>OpenUsbTyped, <1>RegisterTransportTyped, <1>OpenUsbLife, <1>RegisterLife
  <2>2. UNCHANGED <<rx, outPc, inPc, toLoop, toInput, sock, fde, tr>>
    BY DEF OpenUsb, RegisterTransport, threads, link
  <2>3. PacketInv'
    <3>1. PacketEffects
      BY <2>2 DEF PacketEffects, NoSyncSent, NoSyncAdded, OfTransport
    <3> QED
      BY Zenon, <2>0, <3>1, PacketKept
  <2>4. reg # << >> => reg' # << >>
    <3>1. OpenUsb => UNCHANGED reg
      BY DEF OpenUsb
    <3>2. ASSUME RegisterTransport
          PROVE  reg' # << >>
      <4>1. reg' = Append(reg, <<last, "add">>) /\ reg \in Seq(Conn \X {"add", "remove"})
        BY <2>0, <3>2 DEF RegisterTransport, Typed, RegTyped
      <4> QED
        BY <4>1
    <3> QED
      BY <3>1, <3>2
  <2>5. LoopInv'
    BY <2>0, <2>2, <2>4, LoopStays
  <2> QED
    BY <2>1, <2>3, <2>5 DEF AdbInv
<1> QED
  BY <1>UsbKeeps

-----------------------------------------------------------------------------
(* The end of a thread.  One that has still to kick or to release has its  *)
(* transport registered, and nothing about it under way to the loop.       *)
LEMMA EndOfThreadKeeps ==
  \A c \in Conn : AdbInv /\ KickOrUnref(c) => AdbInv'
<1>KickOutTyped.
  ASSUME Typed, NEW c \in Conn, KickTransport(c, outPc, outPc'), UNCHANGED inPc
  PROVE  Typed'
  <2> USE <1>KickOutTyped
  <2>0. UsbTyped /\ LinkTyped /\ RegTyped /\ TrTyped /\ PcTyped
        /\ PairTyped /\ FdeTyped /\ SockTyped /\ ChanTyped /\ HostTyped
    BY Zenon DEF Typed
  <2>1. UNCHANGED <<usbFd, last, openPc, rx, tx, reg, toLoop, toInput, fde, sock, nextId, chan,
        host, opens>>
    BY DEF KickTransport, usb, link, threads, hosts, HostUnchanged
  <2>2. UsbTyped' /\ LinkTyped' /\ RegTyped' /\ PairTyped' /\ FdeTyped' /\ SockTyped' /\
        ChanTyped' /\ HostTyped'
    BY <2>0, <2>1 DEF UsbTyped, LinkTyped, RegTyped, PairTyped, FdeTyped, SockTyped, ChanTyped,
          HostTyped
  <2>3. TrTyped'
    BY Zenon, <2>0, <2>1 DEF KickTransport, TrTyped, Transports
  <2>4. PcTyped'
    BY <2>0, <2>1 DEF KickTransport, PcTyped, OutPcs, InPcs
  <2> QED
    BY Zenon, <2>2, <2>3, <2>4 DEF Typed
<1>UsbOutTyped.
  ASSUME Typed, NEW c \in Conn, UsbKick(c, outPc, outPc'), UNCHANGED inPc
  PROVE  Typed'
  <2> USE <1>UsbOutTyped
  <2>0. UsbTyped /\ LinkTyped /\ RegTyped /\ TrTyped /\ PcTyped
        /\ PairTyped /\ FdeTyped /\ SockTyped /\ ChanTyped /\ HostTyped
    BY Zenon DEF Typed
  <2>1. UNCHANGED <<rx, tx, reg, tr, toLoop, toInput, fde, sock, nextId, chan, host, opens>>
    BY DEF UsbKick, usb, link, threads, hosts, HostUnchanged
  <2>2. LinkTyped' /\ RegTyped' /\ TrTyped' /\ PairTyped' /\ FdeTyped' /\ SockTyped' /\ ChanTyped'
        /\ HostTyped'
    BY <2>0, <2>1 DEF LinkTyped, RegTyped, TrTyped, PairTyped, FdeTyped, SockTyped, ChanTyped,
          HostTyped
  <2>3. UsbTyped'
    BY <2>0, <2>1, Bounds DEF UsbKick, UsbTyped
  <2>4. PcTyped'
    BY <2>0, <2>1 DEF UsbKick, PcTyped, OutPcs, InPcs
  <2> QED
    BY Zenon, <2>2, <2>3, <2>4 DEF Typed
<1>UnrefOutTyped.
  ASSUME Typed, NEW c \in Conn, TransportUnref(c, outPc, outPc'), UNCHANGED inPc
  PROVE  Typed'
  <2> USE <1>UnrefOutTyped
  <2>0. UsbTyped /\ LinkTyped /\ RegTyped /\ TrTyped /\ PcTyped
        /\ PairTyped /\ FdeTyped /\ SockTyped /\ ChanTyped /\ HostTyped
    BY Zenon DEF Typed
  <2>1. UNCHANGED <<usbFd, last, openPc, rx, tx, toLoop, toInput, fde, sock, nextId, chan, host,
        opens>>
    BY DEF TransportUnref, usb, link, threads, hosts, HostUnchanged
  <2>2. UsbTyped' /\ LinkTyped' /\ PairTyped' /\ FdeTyped' /\ SockTyped' /\ ChanTyped' /\ HostTyped'
    BY <2>0, <2>1 DEF UsbTyped, LinkTyped, PairTyped, FdeTyped, SockTyped, ChanTyped, HostTyped
  <2>3. RegTyped'
    BY <2>0, <2>1 DEF TransportUnref, RegTyped
  <2>4. TrTyped'
    BY SMTT(20), <2>0, <2>1 DEF TransportUnref, TrTyped, Transports
  <2>5. PcTyped'
    BY <2>0, <2>1 DEF TransportUnref, PcTyped, OutPcs, InPcs
  <2> QED
    BY Zenon, <2>2, <2>3, <2>4, <2>5 DEF Typed
<1>KickInTyped.
  ASSUME Typed, NEW c \in Conn, KickTransport(c, inPc, inPc'), UNCHANGED outPc
  PROVE  Typed'
  <2> USE <1>KickInTyped
  <2>0. UsbTyped /\ LinkTyped /\ RegTyped /\ TrTyped /\ PcTyped
        /\ PairTyped /\ FdeTyped /\ SockTyped /\ ChanTyped /\ HostTyped
    BY Zenon DEF Typed
  <2>1. UNCHANGED <<usbFd, last, openPc, rx, tx, reg, toLoop, toInput, fde, sock, nextId, chan,
        host, opens>>
    BY DEF KickTransport, usb, link, threads, hosts, HostUnchanged
  <2>2. UsbTyped' /\ LinkTyped' /\ RegTyped' /\ PairTyped' /\ FdeTyped' /\ SockTyped' /\
        ChanTyped' /\ HostTyped'
    BY <2>0, <2>1 DEF UsbTyped, LinkTyped, RegTyped, PairTyped, FdeTyped, SockTyped, ChanTyped,
          HostTyped
  <2>3. TrTyped'
    BY Zenon, <2>0, <2>1 DEF KickTransport, TrTyped, Transports
  <2>4. PcTyped'
    BY Zenon, <2>0, <2>1 DEF KickTransport, PcTyped, OutPcs, InPcs
  <2> QED
    BY Zenon, <2>2, <2>3, <2>4 DEF Typed
<1>UsbInTyped.
  ASSUME Typed, NEW c \in Conn, UsbKick(c, inPc, inPc'), UNCHANGED outPc
  PROVE  Typed'
  <2> USE <1>UsbInTyped
  <2>0. UsbTyped /\ LinkTyped /\ RegTyped /\ TrTyped /\ PcTyped
        /\ PairTyped /\ FdeTyped /\ SockTyped /\ ChanTyped /\ HostTyped
    BY Zenon DEF Typed
  <2>1. UNCHANGED <<rx, tx, reg, tr, toLoop, toInput, fde, sock, nextId, chan, host, opens>>
    BY DEF UsbKick, usb, link, threads, hosts, HostUnchanged
  <2>2. LinkTyped' /\ RegTyped' /\ TrTyped' /\ PairTyped' /\ FdeTyped' /\ SockTyped' /\ ChanTyped'
        /\ HostTyped'
    BY <2>0, <2>1 DEF LinkTyped, RegTyped, TrTyped, PairTyped, FdeTyped, SockTyped, ChanTyped,
          HostTyped
  <2>3. UsbTyped'
    BY <2>0, <2>1, Bounds DEF UsbKick, UsbTyped
  <2>4. PcTyped'
    BY Zenon, <2>0, <2>1 DEF UsbKick, PcTyped, OutPcs, InPcs
  <2> QED
    BY Zenon, <2>2, <2>3, <2>4 DEF Typed
<1>UnrefInTyped.
  ASSUME Typed, NEW c \in Conn, TransportUnref(c, inPc, inPc'), UNCHANGED outPc
  PROVE  Typed'
  <2> USE <1>UnrefInTyped
  <2>0. UsbTyped /\ LinkTyped /\ RegTyped /\ TrTyped /\ PcTyped
        /\ PairTyped /\ FdeTyped /\ SockTyped /\ ChanTyped /\ HostTyped
    BY Zenon DEF Typed
  <2>1. UNCHANGED <<usbFd, last, openPc, rx, tx, toLoop, toInput, fde, sock, nextId, chan, host,
        opens>>
    BY DEF TransportUnref, usb, link, threads, hosts, HostUnchanged
  <2>2. UsbTyped' /\ LinkTyped' /\ PairTyped' /\ FdeTyped' /\ SockTyped' /\ ChanTyped' /\ HostTyped'
    BY <2>0, <2>1 DEF UsbTyped, LinkTyped, PairTyped, FdeTyped, SockTyped, ChanTyped, HostTyped
  <2>3. RegTyped'
    BY <2>0, <2>1 DEF TransportUnref, RegTyped
  <2>4. TrTyped'
    BY <2>0, <2>1 DEF TransportUnref, TrTyped, Transports
  <2>5. PcTyped'
    BY Zenon, <2>0, <2>1 DEF TransportUnref, PcTyped, OutPcs, InPcs
  <2> QED
    BY Zenon, <2>2, <2>3, <2>4, <2>5 DEF Typed
<1>InUse.
  ASSUME Typed, LifeInv, NEW c \in Conn, outPc[c] \in {"kick", "kicking", "unref"}
                                  \/ inPc[c] \in {"kick", "kicking", "unref"}
  PROVE  /\ tr[c].st = "registered" /\ Started(c) /\ ~Ended(c) /\ ~Unannounced(c)
         /\ tr[c].ref = Refs(c) /\ \A i \in DOMAIN reg : reg[i][1] # c
  <2> USE <1>InUse
  <2>1. ConnLife(c) /\ EntryOf(c)
    BY Zenon DEF LifeInv, RegLife, EntryOf
  <2>2. ~Unstarted(c) /\ ~Ended(c)
    BY Zenon, <2>1 DEF Unstarted, Ended, Started, ConnLife
  <2>3. tr[c].st # "none" /\ tr[c].st # "freed" /\ ~Unannounced(c) /\ Started(c)
    BY Zenon, <2>1, <2>2 DEF ConnLife
  <2>4. \A i \in DOMAIN reg : reg[i][1] = c => reg[i][2] \notin {"add", "remove"}
    BY Zenon, <2>1, <2>2 DEF EntryOf
  <2>5. tr[c].st \in {"none", "registered", "freed"} /\ \A i \in DOMAIN reg : reg[i][2] \in {"add", "remove"}
    BY DEF Typed, TrTyped, RegTyped, Transports
  <2> QED
    BY Zenon, <2>1, <2>2, <2>3, <2>4, <2>5 DEF ConnLife
<1>KickOutLife.
  ASSUME Typed, LifeInv, NEW c \in Conn, KickTransport(c, outPc, outPc'), UNCHANGED inPc
  PROVE  LifeInv' /\ UNCHANGED reg /\ \A e \in Conn : tr'[e].st = tr[e].st
  <2> USE <1>KickOutLife
  <2> DEFINE s == IF FirstKick(c) THEN "kicking" ELSE "unref"
  <2>t. tr \in [Conn -> Transports] /\ outPc \in [Conn -> OutPcs] /\ inPc \in [Conn -> InPcs]
    BY DEF Typed, TrTyped, PcTyped
  <2>0. /\ outPc[c] = "kick" /\ outPc' = [outPc EXCEPT ![c] = s]
        /\ tr' = [tr EXCEPT ![c].kicked = TRUE] /\ UNCHANGED <<usbFd, last, openPc, reg>>
    BY DEF KickTransport, usb
  <2>1. /\ tr[c].st = "registered" /\ Started(c) /\ ~Ended(c) /\ ~Unannounced(c)
        /\ tr[c].ref = Refs(c) /\ \A i \in DOMAIN reg : reg[i][1] # c
    BY <2>0, <1>InUse
  <2>2. \A e \in Conn : /\ tr'[e].st = tr[e].st /\ tr'[e].ref = tr[e].ref
                        /\ e # c => tr'[e] = tr[e] /\ outPc'[e] = outPc[e]
    BY <2>0, <2>t DEF Transports
  <2>3. tr'[c].kicked = TRUE
    BY <2>0, <2>t DEF Transports
  <2>4. ~FirstKick(c)'
    BY Zenon, <2>3 DEF FirstKick
  <2>5. ASSUME NEW e \in Conn, e # c
        PROVE  ConnLife(e)' /\ EntryOf(e)'
    <3>0. tr'[e] = tr[e]
      BY <2>2, <2>5
    <3>1. FirstKick(e)' <=> FirstKick(e)
      BY Zenon, <3>0 DEF FirstKick
    <3> QED
      BY Zenon, <2>0, <2>2, <2>5, <3>1, OtherLives
  <2>6. /\ outPc'[c] = s /\ s \in {"kicking", "unref"} /\ (s = "kicking" => FirstKick(c))
    BY <2>0, <2>t
  <2> HIDE DEF s
  <2>7. ConnLife(c)'
    <3>1. ConnLife(c) /\ c <= last
      <4>1. c \in Int /\ last \in Int
        BY Bounds DEF Typed, UsbTyped, Conn
      <4> QED
        BY <2>1, <4>1 DEF LifeInv, Unannounced
    <3>2. Started(c)' /\ ~Unannounced(c)' /\ Refs(c)' = Refs(c)
      BY <2>0, <2>1, <2>6 DEF Started, Unannounced, Refs
    <3>3. s = "kicking" => usbFd' = c /\ inPc[c] # "kicking"
      BY <2>0, <2>6, <3>1 DEF ConnLife
    <3> QED
      BY Zenon, <2>0, <2>1, <2>2, <2>4, <2>6, <3>1, <3>2, <3>3 DEF ConnLife
  <2>8. RegLife'
    BY <2>0, <2>1, <2>5 DEF RegLife, EntryOf, LifeInv
  <2> QED
    BY <2>0, <2>2, <2>5, <2>7, <2>8 DEF LifeInv, UsbLife
<1>UsbOutLife.
  ASSUME Typed, LifeInv, NEW c \in Conn, UsbKick(c, outPc, outPc'), UNCHANGED inPc
  PROVE  LifeInv' /\ UNCHANGED <<reg, tr>>
  <2> USE <1>UsbOutLife
  <2>t. outPc \in [Conn -> OutPcs] /\ c \in Nat \ {0} /\ last \in Nat
    BY Bounds DEF Typed, PcTyped, UsbTyped, Conn
  <2>0. /\ outPc[c] = "kicking" /\ outPc' = [outPc EXCEPT ![c] = "unref"]
        /\ usbFd' = 0 /\ UNCHANGED <<last, openPc, reg, tr>>
    BY DEF UsbKick
  <2>1. /\ tr[c].st = "registered" /\ Started(c) /\ ~Ended(c) /\ ~Unannounced(c)
        /\ tr[c].ref = Refs(c) /\ \A i \in DOMAIN reg : reg[i][1] # c
    BY ZenonT(60), <2>0, <1>InUse
  <2>2. ConnLife(c) /\ usbFd = c
    BY <2>0 DEF LifeInv, ConnLife
  <2>3. outPc'[c] = "unref" /\ \A e \in Conn : e # c => outPc'[e] = outPc[e]
    BY <2>0, <2>t
  <2>4. ASSUME NEW e \in Conn
        PROVE  FirstKick(e)' <=> FirstKick(e)
    BY Zenon, <2>0 DEF FirstKick
  <2>5. ASSUME NEW e \in Conn, e # c
        PROVE  ConnLife(e)' /\ EntryOf(e)'
    BY Zenon, <2>0, <2>2, <2>3, <2>4, <2>5, OtherLives
  <2>6. ConnLife(c)'
    <3>1. Started(c)' /\ ~Unannounced(c)' /\ Refs(c)' = Refs(c)
      BY <2>0, <2>1, <2>3 DEF Started, Unannounced, Refs
    <3>2. ~FirstKick(c)' /\ inPc[c] # "kicking"
      BY SMTT(20), <2>0, <2>2, <2>4 DEF ConnLife
    <3> QED
      BY Zenon, <2>0, <2>1, <2>3, <3>1, <3>2 DEF ConnLife
  <2>7. RegLife'
    BY ZenonT(60), <2>0, <2>1, <2>5 DEF RegLife, EntryOf, LifeInv
  <2>8. UsbLife'
    BY <2>0, <2>1, <2>2, <2>t DEF UsbLife, LifeInv, Unannounced
  <2> QED
    BY <2>0, <2>5, <2>6, <2>7, <2>8 DEF LifeInv
<1>UnrefOutLife.
  ASSUME Typed, LifeInv, NEW c \in Conn, TransportUnref(c, outPc, outPc'), UNCHANGED inPc
  PROVE  /\ LifeInv' /\ (reg # << >> => reg' # << >>) /\ \A e \in Conn : tr'[e].st = tr[e].st
  <2> USE <1>UnrefOutLife
  <2> DEFINE X == Conn \X {"add", "remove"}
             x == <<c, "remove">>
  <2>t. /\ tr \in [Conn -> Transports] /\ outPc \in [Conn -> OutPcs] /\ reg \in Seq(X)
        /\ x \in X /\ x[1] = c /\ x[2] = "remove"
    BY DEF Typed, TrTyped, PcTyped, RegTyped
  <2> HIDE DEF X, x
  <2>0. /\ outPc[c] = "unref" /\ outPc' = [outPc EXCEPT ![c] = "done"]
        /\ tr' = [tr EXCEPT ![c].ref = @ - 1] /\ UNCHANGED <<usbFd, last, openPc>>
        /\ reg' = IF tr[c].ref = 1 THEN Append(reg, x) ELSE reg
    BY DEF TransportUnref, usb, LastRef, x
  <2>1. /\ tr[c].st = "registered" /\ Started(c) /\ ~Ended(c) /\ ~Unannounced(c)
        /\ tr[c].ref = Refs(c) /\ \A i \in DOMAIN reg : reg[i][1] # c
    BY <2>0, <1>InUse
  <2>2. \A e \in Conn : /\ tr'[e].st = tr[e].st /\ tr'[e].kicked = tr[e].kicked
                        /\ e # c => tr'[e].ref = tr[e].ref /\ outPc'[e] = outPc[e]
    BY <2>0, <2>t DEF Transports
  <2>3. tr'[c].ref = tr[c].ref - 1 /\ outPc'[c] = "done"
    BY <2>0, <2>t DEF Transports
  <2>4. ASSUME NEW e \in Conn
        PROVE  FirstKick(e)' <=> FirstKick(e)
    <3>1. tr'[e].kicked = tr[e].kicked
      BY <2>2
    <3> QED
      BY Zenon, <3>1 DEF FirstKick
  <2>5. /\ \A i \in DOMAIN reg' : \/ i \in DOMAIN reg /\ reg'[i] = reg[i]
                                  \/ i = Len(reg) + 1 /\ reg'[i] = x /\ tr[c].ref = 1
        /\ reg # << >> => reg' # << >>
    <3>1. CASE tr[c].ref = 1
      BY <2>0, <2>t, <3>1, AppendFacts
    <3>2. CASE tr[c].ref # 1
      BY <2>0, <3>2
    <3> QED
      BY <3>1, <3>2
  <2>6. ASSUME NEW e \in Conn, e # c
        PROVE  ConnLife(e)' /\ EntryOf(e)'
    <3>1. \A i \in DOMAIN reg' : reg'[i][1] = e => \E j \in DOMAIN reg : reg[j] = reg'[i]
      BY <2>5, <2>6, <2>t
    <3> QED
      BY Zenon, <2>0, <2>2, <2>4, <2>6, <3>1, OtherLives
  <2>7. tr[c].ref = 1 => Ended(c)'
    BY <2>1, <2>0, <2>3 DEF Refs, Ended
  <2>8. ConnLife(c)' /\ EntryOf(c)'
    <3>1. ConnLife(c)
      BY DEF LifeInv
    <3>2. Started(c)' /\ ~Unannounced(c)' /\ Refs(c)' = Refs(c) - 1
      BY <2>0, <2>1, <2>3 DEF Started, Unannounced, Refs
    <3>3. ConnLife(c)'
      BY Zenon, <2>0, <2>1, <2>2, <2>3, <2>4, <3>1, <3>2 DEF ConnLife
    <3>4. EntryOf(c)'
      BY ZenonT(40), <2>1, <2>2, <2>5, <2>7, <2>t, <3>2 DEF EntryOf
    <3> QED
      BY <3>3, <3>4
  <2>9. RegLife'
    <3>1. \A i, j \in DOMAIN reg' : reg'[i][1] = reg'[j][1] => i = j
      BY Zenon, <2>1, <2>5, <2>t DEF RegLife, LifeInv
    <3> QED
      BY Zenon, <2>6, <2>8, <3>1 DEF RegLife, EntryOf
  <2> QED
    BY Zenon, <2>0, <2>2, <2>5, <2>6, <2>8, <2>9 DEF LifeInv, UsbLife
<1>KickInLife.
  ASSUME Typed, LifeInv, NEW c \in Conn, KickTransport(c, inPc, inPc'), UNCHANGED outPc
  PROVE  LifeInv' /\ UNCHANGED reg /\ \A e \in Conn : tr'[e].st = tr[e].st
  <2> USE <1>KickInLife
  <2> DEFINE s == IF FirstKick(c) THEN "kicking" ELSE "unref"
  <2>t. tr \in [Conn -> Transports] /\ inPc \in [Conn -> InPcs] /\ outPc \in [Conn -> OutPcs]
    BY DEF Typed, TrTyped, PcTyped
  <2>0. /\ inPc[c] = "kick" /\ inPc' = [inPc EXCEPT ![c] = s]
        /\ tr' = [tr EXCEPT ![c].kicked = TRUE] /\ UNCHANGED <<usbFd, last, openPc, reg>>
    BY DEF KickTransport, usb
  <2>1. /\ tr[c].st = "registered" /\ Started(c) /\ ~Ended(c) /\ ~Unannounced(c)
        /\ tr[c].ref = Refs(c) /\ \A i \in DOMAIN reg : reg[i][1] # c
    BY <2>0, <1>InUse
  <2>2. \A e \in Conn : /\ tr'[e].st = tr[e].st /\ tr'[e].ref = tr[e].ref
                        /\ e # c => tr'[e] = tr[e] /\ inPc'[e] = inPc[e]
    BY <2>0, <2>t DEF Transports
  <2>3. tr'[c].kicked = TRUE
    BY <2>0, <2>t DEF Transports
  <2>4. ~FirstKick(c)'
    BY Zenon, <2>3 DEF FirstKick
  <2>5. ASSUME NEW e \in Conn, e # c
        PROVE  ConnLife(e)' /\ EntryOf(e)'
    <3>0. tr'[e] = tr[e]
      BY <2>2, <2>5
    <3>1. FirstKick(e)' <=> FirstKick(e)
      BY Zenon, <3>0 DEF FirstKick
    <3> QED
      BY Zenon, <2>0, <2>2, <2>5, <3>1, OtherLives
  <2>6. /\ inPc'[c] = s /\ s \in {"kicking", "unref"} /\ (s = "kicking" => FirstKick(c))
    BY <2>0, <2>t
  <2> HIDE DEF s
  <2>7. ConnLife(c)'
    <3>1. ConnLife(c) /\ c <= last
      <4>1. c \in Int /\ last \in Int
        BY Bounds DEF Typed, UsbTyped, Conn
      <4> QED
        BY <2>1, <4>1 DEF LifeInv, Unannounced
    <3>2. Started(c)' /\ ~Unannounced(c)' /\ Refs(c)' = Refs(c)
      BY <2>0, <2>1, <2>6 DEF Started, Unannounced, Refs
    <3>3. s = "kicking" => usbFd' = c /\ outPc[c] # "kicking"
      BY Zenon, <2>0, <2>6, <3>1 DEF ConnLife
    <3> QED
      BY Zenon, <2>0, <2>1, <2>2, <2>4, <2>6, <3>1, <3>2, <3>3 DEF ConnLife
  <2>8. RegLife'
    BY <2>0, <2>1, <2>5 DEF RegLife, EntryOf, LifeInv
  <2> QED
    BY <2>0, <2>2, <2>5, <2>7, <2>8 DEF LifeInv, UsbLife
<1>UsbInLife.
  ASSUME Typed, LifeInv, NEW c \in Conn, UsbKick(c, inPc, inPc'), UNCHANGED outPc
  PROVE  LifeInv' /\ UNCHANGED <<reg, tr>>
  <2> USE <1>UsbInLife
  <2>t. inPc \in [Conn -> InPcs] /\ c \in Nat \ {0} /\ last \in Nat
    BY Bounds DEF Typed, PcTyped, UsbTyped, Conn
  <2>0. /\ inPc[c] = "kicking" /\ inPc' = [inPc EXCEPT ![c] = "unref"]
        /\ usbFd' = 0 /\ UNCHANGED <<last, openPc, reg, tr>>
    BY DEF UsbKick
  <2>1. /\ tr[c].st = "registered" /\ Started(c) /\ ~Ended(c) /\ ~Unannounced(c)
        /\ tr[c].ref = Refs(c) /\ \A i \in DOMAIN reg : reg[i][1] # c
    BY Zenon, <2>0, <1>InUse
  <2>2. ConnLife(c) /\ usbFd = c
    BY Zenon, <2>0 DEF LifeInv, ConnLife
  <2>3. inPc'[c] = "unref" /\ \A e \in Conn : e # c => inPc'[e] = inPc[e]
    BY <2>0, <2>t
  <2>4. ASSUME NEW e \in Conn
        PROVE  FirstKick(e)' <=> FirstKick(e)
    BY Zenon, <2>0 DEF FirstKick
  <2>5. ASSUME NEW e \in Conn, e # c
        PROVE  ConnLife(e)' /\ EntryOf(e)'
    BY Zenon, <2>0, <2>2, <2>3, <2>4, <2>5, OtherLives
  <2>6. ConnLife(c)'
    <3>1. Started(c)' /\ ~Unannounced(c)' /\ Refs(c)' = Refs(c)
      BY <2>0, <2>1, <2>3 DEF Started, Unannounced, Refs
    <3>2. ~FirstKick(c)' /\ outPc[c] # "kicking"
      BY Zenon, <2>0, <2>2, <2>4 DEF ConnLife
    <3> QED
      BY Zenon, <2>0, <2>1, <2>3, <3>1, <3>2 DEF ConnLife
  <2>7. RegLife'
    BY Zenon, <2>0, <2>1, <2>5 DEF RegLife, EntryOf, LifeInv
  <2>8. UsbLife'
    BY <2>0, <2>1, <2>2, <2>t DEF UsbLife, LifeInv, Unannounced
  <2> QED
    BY <2>0, <2>5, <2>6, <2>7, <2>8 DEF LifeInv
<1>UnrefInLife.
  ASSUME Typed, LifeInv, NEW c \in Conn, TransportUnref(c, inPc, inPc'), UNCHANGED outPc
  PROVE  /\ LifeInv' /\ (reg # << >> => reg' # << >>) /\ \A e \in Conn : tr'[e].st = tr[e].st
  <2> USE <1>UnrefInLife
  <2> DEFINE X == Conn \X {"add", "remove"}
             x == <<c, "remove">>
  <2>t. /\ tr \in [Conn -> Transports] /\ inPc \in [Conn -> InPcs] /\ reg \in Seq(X)
        /\ x \in X /\ x[1] = c /\ x[2] = "remove"
    BY DEF Typed, TrTyped, PcTyped, RegTyped
  <2> HIDE DEF X, x
  <2>0. /\ inPc[c] = "unref" /\ inPc' = [inPc EXCEPT ![c] = "done"]
        /\ tr' = [tr EXCEPT ![c].ref = @ - 1] /\ UNCHANGED <<usbFd, last, openPc>>
        /\ reg' = IF tr[c].ref = 1 THEN Append(reg, x) ELSE reg
    BY DEF TransportUnref, usb, LastRef, x
  <2>1. /\ tr[c].st = "registered" /\ Started(c) /\ ~Ended(c) /\ ~Unannounced(c)
        /\ tr[c].ref = Refs(c) /\ \A i \in DOMAIN reg : reg[i][1] # c
    BY Zenon, <2>0, <1>InUse
  <2>2. \A e \in Conn : /\ tr'[e].st = tr[e].st /\ tr'[e].kicked = tr[e].kicked
                        /\ e # c => tr'[e].ref = tr[e].ref /\ inPc'[e] = inPc[e]
    BY <2>0, <2>t DEF Transports
  <2>3. tr'[c].ref = tr[c].ref - 1 /\ inPc'[c] = "done"
    BY <2>0, <2>t DEF Transports
  <2>4. ASSUME NEW e \in Conn
        PROVE  FirstKick(e)' <=> FirstKick(e)
    <3>1. tr'[e].kicked = tr[e].kicked
      BY <2>2
    <3> QED
      BY Zenon, <3>1 DEF FirstKick
  <2>5. /\ \A i \in DOMAIN reg' : \/ i \in DOMAIN reg /\ reg'[i] = reg[i]
                                  \/ i = Len(reg) + 1 /\ reg'[i] = x /\ tr[c].ref = 1
        /\ reg # << >> => reg' # << >>
    <3>1. CASE tr[c].ref = 1
      BY <2>0, <2>t, <3>1, AppendFacts
    <3>2. CASE tr[c].ref # 1
      BY <2>0, <3>2
    <3> QED
      BY <3>1, <3>2
  <2>6. ASSUME NEW e \in Conn, e # c
        PROVE  ConnLife(e)' /\ EntryOf(e)'
    <3>1. \A i \in DOMAIN reg' : reg'[i][1] = e => \E j \in DOMAIN reg : reg[j] = reg'[i]
      BY <2>5, <2>6, <2>t
    <3> QED
      BY Zenon, <2>0, <2>2, <2>4, <2>6, <3>1, OtherLives
  <2>7. tr[c].ref = 1 => Ended(c)'
    BY <2>1, <2>0, <2>3 DEF Refs, Ended
  <2>8. ConnLife(c)' /\ EntryOf(c)'
    <3>1. ConnLife(c)
      BY DEF LifeInv
    <3>2. Started(c)' /\ ~Unannounced(c)' /\ Refs(c)' = Refs(c) - 1
      BY <2>0, <2>1, <2>3 DEF Started, Unannounced, Refs
    <3>3. ConnLife(c)'
      BY ZenonT(60), <2>0, <2>1, <2>2, <2>3, <2>4, <3>1, <3>2 DEF ConnLife
    <3>4. EntryOf(c)'
      BY SMTT(60), <2>1, <2>2, <2>5, <2>7, <2>t, <3>2 DEF EntryOf
    <3> QED
      BY <3>3, <3>4
  <2>9. RegLife'
    <3>1. \A i, j \in DOMAIN reg' : reg'[i][1] = reg'[j][1] => i = j
      BY <2>1, <2>5, <2>t DEF RegLife, LifeInv
    <3> QED
      BY Zenon, <2>6, <2>8, <3>1 DEF RegLife, EntryOf
  <2> QED
    BY <2>0, <2>2, <2>5, <2>6, <2>8, <2>9 DEF LifeInv, UsbLife
<1>EndKeeps.
  ASSUME AdbInv, NEW c \in Conn, KickOrUnref(c)
  PROVE  AdbInv'
  <2> USE <1>EndKeeps
  <2>0. Typed /\ LifeInv /\ PacketInv /\ LoopInv
    BY DEF AdbInv
  <2>1. Typed'
    BY Zenon, <2>0, <1>KickOutTyped, <1>UsbOutTyped, <1>UnrefOutTyped, <1>KickInTyped, <1>UsbInTyped, <1>UnrefInTyped
       DEF KickOrUnref
  <2>2. LifeInv' /\ (reg # << >> => reg' # << >>) /\ \A e \in Conn : tr'[e].st = tr[e].st
    BY Zenon, <2>0, <1>KickOutLife, <1>UsbOutLife, <1>UnrefOutLife, <1>KickInLife, <1>UsbInLife, <1>UnrefInLife
       DEF KickOrUnref
  <2>3. UNCHANGED <<rx, toLoop, toInput, sock, fde>>
    BY DEF KickOrUnref, KickTransport, UsbKick, TransportUnref, link
  <2>4. LoopInv'
    BY Zenon, <2>0, <2>2, <2>3, LoopStays
  <2>5. /\ \/ UNCHANGED outPc
           \/ /\ outPc[c] \in {"kick", "kicking", "unref"}
              /\ \E s \in {"kicking", "unref", "done"} : outPc' = [outPc EXCEPT ![c] = s]
        /\ \/ UNCHANGED inPc
           \/ /\ inPc[c] \in {"kick", "kicking", "unref"}
              /\ \E s \in {"kicking", "unref", "done"} : inPc' = [inPc EXCEPT ![c] = s]
    BY DEF KickOrUnref, KickTransport, UsbKick, TransportUnref
  <2>6. PacketInv'
    <3>1. ASSUME NEW e \in Conn
          PROVE  PacketsOf(e)'
      <4>0. outPc \in [Conn -> OutPcs] /\ inPc \in [Conn -> InPcs]
        BY <2>0 DEF Typed, PcTyped
      <4>1. Stopping(e) => Stopping(e)'
        BY Zenon, <2>5, <4>0 DEF Stopping
      <4>2. Over(e)' => Over(e)
        BY <2>3, <2>5, <4>0 DEF Over
      <4>3. OfTransport(e)' = OfTransport(e) /\ PacketsOf(e)
        BY <2>0, <2>3 DEF OfTransport, PacketInv
      <4> QED
        BY Zenon, <2>3, <4>1, <4>2, <4>3, PacketsStay
    <3> QED
      BY Zenon, <3>1 DEF PacketInv
  <2> QED
    BY <2>1, <2>2, <2>4, <2>6 DEF AdbInv
<1> QED
  BY <1>EndKeeps

-----------------------------------------------------------------------------
(* The life of the transports.  Its threads may move on while they live.   *)
LEMMA LiveMoves ==
  ASSUME RegTyped, LifeInv, NEW c \in Conn, UNCHANGED <<usbFd, last, openPc, reg>>,
         \A e \in Conn : tr'[e].st = tr[e].st /\ tr'[e].ref = tr[e].ref,
         \A e \in Conn : FirstKick(e)' <=> FirstKick(e),
         \A e \in Conn : \/ outPc'[e] = outPc[e]
                         \/ {outPc[e], outPc'[e]} \subseteq {"sync", "read", "offline", "kick"},
         \A e \in Conn : \/ inPc'[e] = inPc[e]
                         \/ {inPc[e], inPc'[e]} \subseteq {"read", "close", "kick"}
  PROVE  LifeInv'
<1>1. ASSUME NEW e \in Conn
      PROVE  /\ Unstarted(e)' <=> Unstarted(e)
             /\ Started(e)' <=> Started(e)
             /\ Ended(e)' <=> Ended(e)
             /\ Unannounced(e)' <=> Unannounced(e)
             /\ Refs(e)' = Refs(e)
             /\ outPc'[e] \in {"kicking", "unref", "done"} <=> outPc[e] \in {"kicking", "unref", "done"}
             /\ inPc'[e] \in {"kicking", "unref", "done"} <=> inPc[e] \in {"kicking", "unref", "done"}
             /\ outPc'[e] = "kicking" <=> outPc[e] = "kicking"
             /\ inPc'[e] = "kicking" <=> inPc[e] = "kicking"
  <2>1. FirstKick(e)' <=> FirstKick(e)
    BY Zenon
  <2> QED
    BY <2>1 DEF Unstarted, Started, Ended, Unannounced, Refs
<1>2. \A i \in DOMAIN reg : reg[i][1] \in Conn
  BY SMTT(20) DEF RegTyped
<1>3. RegLife'
  <2>1. ASSUME NEW e \in Conn, NEW i \in DOMAIN reg, reg[i][1] = e
        PROVE  /\ ~Unannounced(e)'
               /\ reg[i][2] = "add" => Unstarted(e)'
               /\ reg[i][2] = "remove" => Ended(e)' /\ tr'[e].st = "registered"
    <3>1. /\ ~Unannounced(e)
          /\ reg[i][2] = "add" => Unstarted(e)
          /\ reg[i][2] = "remove" => Ended(e) /\ tr[e].st = "registered"
      BY Zenon, <2>1 DEF RegLife, LifeInv
    <3>2. /\ Unannounced(e)' <=> Unannounced(e)
          /\ Unstarted(e)' <=> Unstarted(e)
          /\ Ended(e)' <=> Ended(e)
      BY Zenon, <1>1
    <3>3. tr'[e].st = tr[e].st
      BY Zenon
    <3> QED
      BY Zenon, <3>1, <3>2, <3>3
  <2> QED
    BY Zenon, <2>1 DEF RegLife, LifeInv
<1>4. ASSUME NEW e \in Conn
      PROVE  ConnLife(e)'
  <2>1. FirstKick(e)' <=> FirstKick(e)
    BY Zenon
  <2>2. ConnLife(e)
    BY Zenon DEF LifeInv
  <2> QED
    BY ZenonT(30), <1>1, <2>1, <2>2 DEF ConnLife
<1> QED
  BY ZenonT(60), <1>3, <1>4 DEF LifeInv, UsbLife

LEMMA ThreadsLife ==
  ASSUME Typed, LifeInv, NEW c \in Conn,
         OutputThread(c) \/ InputThread(c)
  PROVE  LifeInv' /\ UNCHANGED reg /\ \A e \in Conn : tr'[e].st = tr[e].st
<1>t. RegTyped /\ tr \in [Conn -> Transports] /\ outPc \in [Conn -> OutPcs] /\ inPc \in [Conn -> InPcs]
  BY DEF Typed, TrTyped, PcTyped
<1>0. UNCHANGED <<usbFd, last, openPc, reg>>
  BY DEF OutputThread, OutputSync, OutputRead, OutputReadFails, InputThread, InputRead,
         CloseAllSockets, usb
<1>1. UNCHANGED tr \/ tr' = [tr EXCEPT ![c].active = TRUE]
  BY DEF OutputThread, OutputSync, OutputRead, OutputReadFails, InputThread, InputRead,
         CloseAllSockets
<1>2. ASSUME NEW e \in Conn
      PROVE  /\ tr'[e].st = tr[e].st /\ tr'[e].ref = tr[e].ref
             /\ tr'[e].kicked = tr[e].kicked
  BY <1>1, <1>t DEF Transports
<1>3. ASSUME NEW e \in Conn
      PROVE  FirstKick(e)' <=> FirstKick(e)
  BY <1>2, Zenon DEF FirstKick
<1>4. /\ \/ UNCHANGED outPc
         \/ outPc[c] \in {"sync", "offline", "read"}
            /\ \E s \in {"read", "kick", "offline"} : outPc' = [outPc EXCEPT ![c] = s]
      /\ \/ UNCHANGED inPc
         \/ inPc[c] \in {"read", "close"}
            /\ \E s \in {"close", "kick"} : inPc' = [inPc EXCEPT ![c] = s]
  BY DEF OutputThread, OutputSync, OutputRead, OutputReadFails, InputThread, InputRead,
         CloseAllSockets, threads
<1>5. ASSUME NEW e \in Conn
      PROVE  /\ \/ outPc'[e] = outPc[e]
                \/ {outPc[e], outPc'[e]} \subseteq {"sync", "read", "offline", "kick"}
             /\ \/ inPc'[e] = inPc[e]
                \/ {inPc[e], inPc'[e]} \subseteq {"read", "close", "kick"}
  BY <1>4, <1>t
<1> QED
  BY Zenon, <1>0, <1>2, <1>3, <1>5, <1>t, LiveMoves

(* SYNC(0) is the last packet of the output thread.                        *)
LEMMA OutputThreadKeeps ==
  \A c \in Conn : AdbInv /\ OutputThread(c) => AdbInv'
<1>OutputSyncTyped.
  ASSUME Typed, NEW c \in Conn, OutputSync(c)
  PROVE  Typed'
  <2> USE <1>OutputSyncTyped
  <2>0. UsbTyped /\ LinkTyped /\ RegTyped /\ TrTyped /\ PcTyped
        /\ PairTyped /\ FdeTyped /\ SockTyped /\ ChanTyped /\ HostTyped
    BY Zenon DEF Typed
  <2>1. UNCHANGED <<usbFd, last, openPc, rx, tx, reg, tr, fde, sock, nextId, chan, host, opens,
        inPc, toInput>>
    BY DEF OutputSync, usb, link, threads, hosts, HostUnchanged
  <2>2. UsbTyped' /\ LinkTyped' /\ RegTyped' /\ TrTyped' /\ FdeTyped' /\ SockTyped' /\ ChanTyped'
        /\ HostTyped'
    BY Zenon, <2>0, <2>1 DEF UsbTyped, LinkTyped, RegTyped, TrTyped, FdeTyped, SockTyped, ChanTyped,
          HostTyped
  <2>3. PcTyped'
    BY ZenonT(60), <2>0, <2>1 DEF OutputSync, PcTyped, OutPcs
  <2>4. PairTyped'
    BY <2>0, <2>1, Bounds, Queues, PacketTypes, SeqNone DEF OutputSync, PairTyped
  <2> QED
    BY Zenon, <2>2, <2>3, <2>4 DEF Typed
<1>OutputReadTyped.
  ASSUME Typed, NEW c \in Conn, OutputRead(c)
  PROVE  Typed'
  <2> USE <1>OutputReadTyped
  <2>0. UsbTyped /\ LinkTyped /\ RegTyped /\ TrTyped /\ PcTyped
        /\ PairTyped /\ FdeTyped /\ SockTyped /\ ChanTyped /\ HostTyped
    BY Zenon DEF Typed
  <2>1. UNCHANGED <<usbFd, last, openPc, reg, tr, outPc, inPc, fde, sock, nextId, chan, host,
        opens, tx, toInput>>
    BY DEF OutputRead, usb, link, threads, hosts, HostUnchanged
  <2>2. UsbTyped' /\ RegTyped' /\ TrTyped' /\ PcTyped' /\ FdeTyped' /\ SockTyped' /\ ChanTyped' /\
        HostTyped'
    BY <2>0, <2>1 DEF UsbTyped, RegTyped, TrTyped, PcTyped, FdeTyped, SockTyped, ChanTyped,
          HostTyped
  <2>r. ASSUME Readable
        PROVE  /\ [rx EXCEPT ![usbFd] = Tail(@)] \in [Conn -> Seq(Packets)]
               /\ Head(rx[usbFd]) \in Packets
    <3>1. usbFd \in Conn /\ rx[usbFd] # << >>
      BY <2>0, <2>r DEF Readable, Linked, UsbTyped, Conn
    <3>2. rx \in [Conn -> Seq(Packets)]
      BY <2>0 DEF LinkTyped
    <3> QED
      BY <3>1, <3>2, Queues
  <2>3. LinkTyped'
    BY <2>0, <2>1, <2>r DEF OutputRead, LinkTyped
  <2>4. PairTyped'
    <3>1. toLoop' = [toLoop EXCEPT ![c] = Append(@, Head(rx[usbFd]))] /\ Head(rx[usbFd]) \in Packets
      BY <2>r DEF OutputRead
    <3>2. toLoop \in [Conn -> Seq(Packets)] /\ toInput \in [Conn -> Seq(Packets)]
      BY <2>0 DEF PairTyped
    <3>3. toLoop' \in [Conn -> Seq(Packets)]
      BY <3>1, <3>2, Queues
    <3> QED
      BY <2>1, <3>2, <3>3 DEF PairTyped
  <2> QED
    BY Zenon, <2>2, <2>3, <2>4 DEF Typed
<1>OutputReadFailsTyped.
  ASSUME Typed, NEW c \in Conn, OutputReadFails(c)
  PROVE  Typed'
  <2> USE <1>OutputReadFailsTyped
  <2>0. UsbTyped /\ LinkTyped /\ RegTyped /\ TrTyped /\ PcTyped
        /\ PairTyped /\ FdeTyped /\ SockTyped /\ ChanTyped /\ HostTyped
    BY Zenon DEF Typed
  <2>1. UNCHANGED <<usbFd, last, openPc, reg, tr, toLoop, toInput, fde, sock, nextId, chan, host,
        opens, tx, inPc>>
    BY DEF OutputReadFails, usb, link, threads, hosts, HostUnchanged
  <2>2. UsbTyped' /\ RegTyped' /\ TrTyped' /\ PairTyped' /\ FdeTyped' /\ SockTyped' /\ ChanTyped'
        /\ HostTyped'
    BY <2>0, <2>1 DEF UsbTyped, RegTyped, TrTyped, PairTyped, FdeTyped, SockTyped, ChanTyped,
          HostTyped
  <2>r. ASSUME Readable
        PROVE  /\ [rx EXCEPT ![usbFd] = Tail(@)] \in [Conn -> Seq(Packets)]
               /\ Head(rx[usbFd]) \in Packets
    <3>1. usbFd \in Conn /\ rx[usbFd] # << >>
      BY <2>0, <2>r DEF Readable, Linked, UsbTyped, Conn
    <3>2. rx \in [Conn -> Seq(Packets)]
      BY <2>0 DEF LinkTyped
    <3> QED
      BY <3>1, <3>2, Queues
  <2>3. LinkTyped'
    BY Zenon, <2>0, <2>1, <2>r DEF OutputReadFails, LinkTyped
  <2>4. PcTyped'
    BY ZenonT(60), <2>0, <2>1 DEF OutputReadFails, PcTyped, OutPcs
  <2> QED
    BY Zenon, <2>2, <2>3, <2>4 DEF Typed
<1>OutputSyncKeeps.
  ASSUME AdbInv, NEW c \in Conn, OutputSync(c)
  PROVE  AdbInv'
  <2> USE <1>OutputSyncKeeps
  <2> DEFINE p == Pkt("SYNC", IF outPc[c] = "sync" THEN 1 ELSE 0, 0)
  <2>0. /\ Typed /\ LifeInv /\ PacketInv /\ LoopInv /\ toLoop \in [Conn -> Seq(Packets)]
        /\ outPc \in [Conn -> OutPcs]
    BY ZenonT(60) DEF AdbInv, Typed, PairTyped, PcTyped
  <2>1. Typed' /\ LifeInv' /\ UNCHANGED reg /\ \A e \in Conn : tr'[e].st = tr[e].st
    BY <2>0, <1>OutputSyncTyped, ThreadsLife DEF OutputThread
  <2>2. /\ outPc[c] \in {"sync", "offline"} /\ toLoop' = [toLoop EXCEPT ![c] = Append(@, p)]
        /\ outPc' = [outPc EXCEPT ![c] = IF outPc[c] = "sync" THEN "read" ELSE "kick"]
        /\ UNCHANGED <<rx, inPc, toInput, sock, fde>>
    BY SMTT(20) DEF OutputSync, link
  <2>3. LoopInv'
    BY ZenonT(60), <2>0, <2>1, <2>2, LoopStays
  <2>4. p \in Packets /\ (IsSync0(p) => outPc[c] = "offline")
    <3>1. /\ Pkt("SYNC", 0, 0) \in Packets /\ Pkt("SYNC", 1, 0) \in Packets
          /\ Pkt("SYNC", 1, 0).a0 = 1
      BY SeqNone, PacketTypes
    <3>2. CASE outPc[c] = "sync"
      BY <3>1, <3>2 DEF IsSync0
    <3>3. CASE outPc[c] = "offline"
      BY <3>1, <3>3
    <3> QED
      BY <2>2, <3>2, <3>3
  <2> HIDE DEF p
  <2>5. ASSUME NEW e \in Conn
        PROVE  PacketsOf(e)'
    <3>0. OfTransport(e)' = OfTransport(e) /\ PacketsOf(e)
      BY Zenon, <2>0, <2>2 DEF OfTransport, PacketInv
    <3>1. CASE e # c
      <4>1. (Stopping(e)' <=> Stopping(e)) /\ (Over(e)' <=> Over(e)) /\ toLoop'[e] = toLoop[e]
        BY SMTT(20), <2>0, <2>2, <3>1 DEF Stopping, Over
      <4> QED
        BY ZenonT(60), <2>2, <3>0, <4>1, PacketsStay
    <3>2. CASE e = c
      <4>1. ~Stopping(e) /\ (outPc[c] = "offline" => Stopping(e)') /\ (Over(e)' <=> Over(e))
        BY ZenonT(60), <2>0, <2>2, <3>2 DEF Stopping, Over
      <4>2. ~Over(e)' /\ \A i \in DOMAIN toLoop[e] : ~IsSync0(toLoop[e][i])
        BY <3>0, <4>1 DEF PacketsOf
      <4>3. toLoop'[e] = Append(toLoop[e], p) /\ toLoop[e] \in Seq(Packets)
        BY <2>0, <2>2, <3>2
      <4>4. /\ DOMAIN toLoop'[e] = DOMAIN toLoop[e] \cup {Len(toLoop[e]) + 1}
            /\ toLoop'[e][Len(toLoop[e]) + 1] = p
            /\ \A i \in DOMAIN toLoop[e] : toLoop'[e][i] = toLoop[e][i]
        BY <2>4, <4>3, AppendFacts
      <4>5. Len(toLoop'[e]) = Len(toLoop[e]) + 1
        BY SMTT(20), <2>4, <4>3
      <4>6. \A i \in DOMAIN toLoop'[e] : IsSync0(toLoop'[e][i]) => i = Len(toLoop'[e]) /\ Stopping(e)'
        BY Zenon, <2>4, <4>1, <4>2, <4>4, <4>5
      <4> QED
        BY Zenon, <2>2, <3>0, <4>2, <4>6 DEF PacketsOf
    <3> QED
      BY <3>1, <3>2
  <2> QED
    BY <2>1, <2>3, <2>5 DEF AdbInv, PacketInv
<1>OutputReadKeeps.
  ASSUME AdbInv, NEW c \in Conn, OutputRead(c)
  PROVE  AdbInv'
  <2> USE <1>OutputReadKeeps
  <2>0. /\ Typed /\ LifeInv /\ PacketInv /\ LoopInv /\ toLoop \in [Conn -> Seq(Packets)]
        /\ rx \in [Conn -> Seq(Packets)] /\ usbFd \in 0 .. Conns
    BY DEF AdbInv, Typed, PairTyped, LinkTyped, UsbTyped
  <2>1. Typed' /\ LifeInv' /\ UNCHANGED reg /\ \A e \in Conn : tr'[e].st = tr[e].st
    BY <2>0, <1>OutputReadTyped, ThreadsLife DEF OutputThread
  <2>2. PICK u \in Conn, p \in Packets :
           /\ rx[u] # << >> /\ p = Head(rx[u]) /\ rx' = [rx EXCEPT ![u] = Tail(@)]
           /\ toLoop' = [toLoop EXCEPT ![c] = Append(@, p)]
    <3>1. usbFd \in Conn /\ rx[usbFd] # << >> /\ rx[usbFd] \in Seq(Packets)
      BY <2>0, Bounds DEF OutputRead, Readable, Linked, Conn
    <3>2. Head(rx[usbFd]) \in Packets
      BY <3>1, TailFacts
    <3> QED
      BY Zenon, <3>1, <3>2 DEF OutputRead
  <2>3. outPc[c] = "read" /\ UNCHANGED <<outPc, inPc, toInput, sock, fde>>
    BY DEF OutputRead, threads
  <2>4. LoopInv'
    BY ZenonT(60), <2>0, <2>1, <2>3, LoopStays
  <2>5. ~IsSync0(p)
    <3>1. rx[u] \in Seq(Packets)
      BY <2>0
    <3>2. p = rx[u][1] /\ 1 \in DOMAIN rx[u]
      BY <2>2, <3>1, TailFacts
    <3> QED
      BY <2>0, <3>2 DEF PacketInv, PacketsOf, IsSync0
  <2>6. ASSUME NEW e \in Conn
        PROVE  PacketsOf(e)'
    <3>0. OfTransport(e)' = OfTransport(e) /\ PacketsOf(e)
      BY <2>0, <2>3 DEF OfTransport, PacketInv
    <3>1. (Stopping(e)' <=> Stopping(e)) /\ (Over(e)' <=> Over(e))
      BY <2>3 DEF Stopping, Over
    <3>2. \A j \in DOMAIN rx'[e] : rx'[e][j].cmd # "SYNC"
      <4>0. \A j \in DOMAIN rx[e] : rx[e][j].cmd # "SYNC"
        BY <3>0 DEF PacketsOf
      <4>1. CASE e # u
        BY <2>0, <2>2, <4>0, <4>1
      <4>2. CASE e = u
        <5>1. rx'[e] = Tail(rx[e]) /\ rx[e] \in Seq(Packets) /\ rx[e] # << >>
          BY <2>0, <2>2, <4>2
        <5>2. \A j \in DOMAIN rx'[e] : j + 1 \in DOMAIN rx[e] /\ rx'[e][j] = rx[e][j + 1]
          BY ZenonT(60), <5>1, TailNext
        <5> QED
          BY <4>0, <5>2
      <4> QED
        BY ZenonT(60), <4>1, <4>2
    <3>3. CASE e # c
      <4>1. toLoop'[e] = toLoop[e]
        BY ZenonT(60), <2>0, <2>2, <3>3
      <4> QED
        BY Zenon, <3>0, <3>1, <3>2, <4>1 DEF PacketsOf
    <3>4. CASE e = c
      <4>1. ~Stopping(e)
        BY ZenonT(60), <2>3, <3>4 DEF Stopping
      <4>2. ~Over(e)' /\ \A i \in DOMAIN toLoop[e] : ~IsSync0(toLoop[e][i])
        BY <3>0, <3>1, <4>1 DEF PacketsOf
      <4>3. toLoop'[e] = Append(toLoop[e], p) /\ toLoop[e] \in Seq(Packets)
        BY ZenonT(60), <2>0, <2>2, <3>4
      <4>4. /\ DOMAIN toLoop'[e] = DOMAIN toLoop[e] \cup {Len(toLoop[e]) + 1}
            /\ toLoop'[e][Len(toLoop[e]) + 1] = p
            /\ \A i \in DOMAIN toLoop[e] : toLoop'[e][i] = toLoop[e][i]
        BY <4>3, AppendFacts
      <4>5. \A i \in DOMAIN toLoop'[e] : ~IsSync0(toLoop'[e][i])
        BY Zenon, <2>5, <4>2, <4>4
      <4> QED
        BY <3>2, <4>2, <4>5 DEF PacketsOf
    <3> QED
      BY <3>3, <3>4
  <2> QED
    BY <2>1, <2>4, <2>6 DEF AdbInv, PacketInv
<1>OutputReadFailsKeeps.
  ASSUME AdbInv, NEW c \in Conn, OutputReadFails(c)
  PROVE  AdbInv'
  <2> USE <1>OutputReadFailsKeeps
  <2>0. /\ Typed /\ LifeInv /\ PacketInv /\ LoopInv /\ outPc \in [Conn -> OutPcs]
        /\ rx \in [Conn -> Seq(Packets)] /\ usbFd \in 0 .. Conns
    BY ZenonT(60) DEF AdbInv, Typed, PcTyped, LinkTyped, UsbTyped
  <2>1. Typed' /\ LifeInv' /\ UNCHANGED reg /\ \A e \in Conn : tr'[e].st = tr[e].st
    BY <2>0, <1>OutputReadFailsTyped, ThreadsLife DEF OutputThread
  <2>2. /\ outPc[c] = "read" /\ outPc' = [outPc EXCEPT ![c] = "offline"]
        /\ UNCHANGED <<inPc, toLoop, toInput, sock, fde>>
    BY ZenonT(60) DEF OutputReadFails
  <2>3. LoopInv'
    BY Zenon, <2>0, <2>1, <2>2, LoopStays
  <2>4. UNCHANGED rx \/ \E u \in Conn : rx[u] # << >> /\ rx' = [rx EXCEPT ![u] = Tail(@)]
    BY ZenonT(60), <2>0, Bounds DEF OutputReadFails, Readable, Linked, Conn
  <2>5. ASSUME NEW e \in Conn
        PROVE  PacketsOf(e)'
    <3>0. OfTransport(e)' = OfTransport(e) /\ PacketsOf(e)
      BY SMTT(20), <2>0, <2>2 DEF OfTransport, PacketInv
    <3>1. (Stopping(e)' <=> Stopping(e)) /\ (Over(e)' <=> Over(e)) /\ toLoop'[e] = toLoop[e]
      BY Zenon, <2>0, <2>2 DEF Stopping, Over
    <3>2. rx'[e] = rx[e] \/ (rx[e] # << >> /\ rx'[e] = Tail(rx[e]) /\ rx[e] \in Seq(Packets))
      BY Zenon, <2>0, <2>4
    <3>3. \A j \in DOMAIN rx'[e] :
              rx'[e][j].cmd = "SYNC" => \E i \in DOMAIN rx[e] : rx[e][i].cmd = "SYNC"
      <4>1. CASE rx'[e] = rx[e]
        BY <4>1
      <4>2. CASE rx[e] # << >> /\ rx'[e] = Tail(rx[e]) /\ rx[e] \in Seq(Packets)
        <5>1. \A j \in DOMAIN rx'[e] : j + 1 \in DOMAIN rx[e] /\ rx'[e][j] = rx[e][j + 1]
          BY Zenon, <4>2, TailNext
        <5> QED
          BY <5>1
      <4> QED
        BY ZenonT(60), <3>2, <4>1, <4>2
    <3> QED
      BY Zenon, <3>0, <3>1, <3>3, PacketsStay
  <2> QED
    BY <2>1, <2>3, <2>5 DEF AdbInv, PacketInv
<1> QED
  BY <1>OutputSyncKeeps, <1>OutputReadKeeps, <1>OutputReadFailsKeeps DEF OutputThread

-----------------------------------------------------------------------------
(* Closing sockets takes what it destroys off the loop.                    *)
LEMMA FdeChanged ==
  ASSUME NEW F \in Evented, NEW D \in SUBSET Fds, NEW e \in [D -> SUBSET {"READ", "WRITE"}]
  PROVE  /\ FdSet(F, D, e) \in Evented /\ FdSet(F, D, e).pending \subseteq F.pending
         /\ \A d \in Fds : FdSet(F, D, e).want[d] = IF d \in D THEN e[d] ELSE F.want[d]
<1>1. /\ F.want \in [Fds -> SUBSET {"READ", "WRITE"}] /\ F.pending \in SUBSET Fds
      /\ F.events \in [Fds -> SUBSET {"READ", "WRITE"}]
  BY Zenon DEF Evented
<1> QED
  BY Zenon, <1>1 DEF FdSet, Evented

LEMMA FdeAdded ==
  ASSUME NEW F \in Evented, NEW D \in SUBSET Fds, NEW ev \in SUBSET {"READ", "WRITE"}
  PROVE  /\ FdAdd(F, D, ev) \in Evented /\ FdAdd(F, D, ev).pending \subseteq F.pending
         /\ \A d \in Fds : d \notin D => FdAdd(F, D, ev).want[d] = F.want[d]
<1> DEFINE e == [d \in D |-> F.want[d] \cup ev]
<1>1. e \in [D -> SUBSET {"READ", "WRITE"}]
  BY Zenon DEF Evented
<1>2. FdAdd(F, D, ev) = FdSet(F, D, e)
  BY Zenon DEF FdAdd
<1> HIDE DEF e
<1>3. /\ FdSet(F, D, e) \in Evented /\ FdSet(F, D, e).pending \subseteq F.pending
      /\ \A d \in Fds : FdSet(F, D, e).want[d] = IF d \in D THEN e[d] ELSE F.want[d]
  BY ZenonT(60), <1>1, FdeChanged
<1>4. ASSUME NEW d \in Fds, d \notin D PROVE FdSet(F, D, e).want[d] = F.want[d]
  BY Zenon, <1>3, <1>4
<1> QED
  BY Zenon, <1>2, <1>3, <1>4

LEMMA FdeDeleted ==
  ASSUME NEW F \in Evented, NEW D \in SUBSET Fds, NEW ev \in SUBSET {"READ", "WRITE"}
  PROVE  /\ FdDel(F, D, ev) \in Evented /\ FdDel(F, D, ev).pending \subseteq F.pending
         /\ \A d \in Fds : FdDel(F, D, ev).want[d] \subseteq F.want[d]
<1> DEFINE e == [d \in D |-> F.want[d] \ ev]
<1>1. e \in [D -> SUBSET {"READ", "WRITE"}]
  BY Zenon DEF Evented
<1>2. FdDel(F, D, ev) = FdSet(F, D, e)
  BY Zenon DEF FdDel
<1> HIDE DEF e
<1>3. /\ FdSet(F, D, e) \in Evented /\ FdSet(F, D, e).pending \subseteq F.pending
      /\ \A d \in Fds : FdSet(F, D, e).want[d] = IF d \in D THEN e[d] ELSE F.want[d]
  BY ZenonT(60), <1>1, FdeChanged
<1>4. ASSUME NEW d \in Fds PROVE FdSet(F, D, e).want[d] \subseteq F.want[d]
  <2>1. FdSet(F, D, e).want[d] = IF d \in D THEN e[d] ELSE F.want[d]
    BY Zenon, <1>3, <1>4
  <2>2. d \in D => e[d] = F.want[d] \ ev
    BY Zenon DEF e
  <2> QED
    BY Zenon, <2>1, <2>2
<1> QED
  BY Zenon, <1>2, <1>3, <1>4

LEMMA FdeRemoved ==
  ASSUME NEW F \in Evented, NEW D \in SUBSET Fds
  PROVE  /\ FdRemove(F, D) \in Evented /\ FdRemove(F, D).pending = F.pending \ D
         /\ \A d \in Fds : FdRemove(F, D).want[d] = IF d \in D THEN {} ELSE F.want[d]
  BY Zenon DEF FdRemove, FdUnlisted, Evented

LEMMA Closing ==
  ASSUME SockTyped, ChanTyped, NEW F \in Evented, NEW ids \in SUBSET Id, Close(F, ids)
  PROVE  /\ sock' \in [Id -> Socks] /\ ChanTyped' /\ fde' \in Evented
         /\ fde'.pending \subseteq F.pending /\ \A d \in Fds : fde'.want[d] \subseteq F.want[d]
         /\ \A id \in Id : id \notin ids => sock'[id] = sock[id]
         /\ \A id \in ids : /\ sock'[id].peer = 0 /\ sock'[id].st \in {"closing", "freed"}
                            /\ sock'[id].st = "freed" =>
                                  fde'.want[S(id)] = {} /\ S(id) \notin fde'.pending
<1> DEFINE gone == {id \in ids : Destroyed(sock[id])}
           D == {S(id) : id \in gone}
           E == {S(id) : id \in ids \ gone}
           G == FdRemove(F, D)
<1>0. D \in SUBSET Fds /\ E \in SUBSET Fds /\ sock \in [Id -> Socks] /\ chan \in [Id -> Chans]
  BY ZenonT(60), Descriptors DEF SockTyped, ChanTyped
<1>1. sock' = ClosedSocks(ids) /\ chan' = ClosedChans(ids) /\ fde' = FdDel(G, E, {"READ"})
  BY DEF Close, ClosedFde
<1>2. \A id \in Id : id \in ids =>
        /\ [sock[id] EXCEPT !.st = "freed", !.peer = 0, !.pkts = << >>] \in Socks
        /\ [sock[id] EXCEPT !.st = "closing", !.peer = 0] \in Socks
  <2>1. << >> \in Seq(1 .. Count) /\ 0 \in 0 .. Conns
    BY Bounds
  <2> QED
    BY Zenon, <1>0, <2>1 DEF Socks
<1>3. sock' \in [Id -> Socks]
  BY Zenon, <1>0, <1>1, <1>2 DEF ClosedSocks
<1>4. \A id \in Id : id \notin ids => sock'[id] = sock[id]
  BY Zenon, <1>1 DEF ClosedSocks
<1>5. \A id \in ids : /\ sock'[id].peer = 0 /\ sock'[id].st \in {"closing", "freed"}
                      /\ sock'[id].st = "freed" => id \in gone
  BY Zenon, <1>0, <1>1 DEF ClosedSocks, Socks
<1>6. ChanTyped'
  <2>1. \A id \in Id : /\ [chan[id] EXCEPT !.loopOpen = FALSE, !.up = 0] \in Chans
                       /\ [chan[id] EXCEPT !.loopOpen = FALSE, !.up = 0].down = chan[id].down
    <3> SUFFICES ASSUME NEW id \in Id
                 PROVE  /\ [chan[id] EXCEPT !.loopOpen = FALSE, !.up = 0] \in Chans
                        /\ [chan[id] EXCEPT !.loopOpen = FALSE, !.up = 0].down = chan[id].down
      BY Zenon
    <3>1. chan[id] \in Chans /\ 0 \in 0 .. 1
      BY SMTT(20), <1>0
    <3> QED
      BY Zenon, <3>1 DEF Chans
  <2>2. \A id \in Id : chan'[id] \in Chans /\ chan'[id].down = chan[id].down
    BY Zenon, <1>0, <1>1, <2>1 DEF ClosedChans
  <2>3. chan' = [id \in Id |-> chan'[id]]
    BY Zenon, <1>1 DEF ClosedChans
  <2> QED
    BY <1>0, <2>2, <2>3 DEF ChanTyped
<1>e. {"READ"} \in SUBSET {"READ", "WRITE"}
  BY Zenon
<1> HIDE DEF D, E, gone
<1>7. /\ G \in Evented /\ G.pending = F.pending \ D
      /\ \A d \in Fds : G.want[d] = IF d \in D THEN {} ELSE F.want[d]
  BY SMTT(20), <1>0, FdeRemoved DEF G
<1> HIDE DEF G
<1>8. /\ fde' \in Evented /\ fde'.pending \subseteq G.pending
      /\ \A d \in Fds : fde'.want[d] \subseteq G.want[d]
  BY Zenon, <1>0, <1>1, <1>7, <1>e, FdeDeleted
<1>9. \A id \in gone : S(id) \in D /\ S(id) \in Fds
  BY SMTT(20), <1>0 DEF D
<1> QED
  BY <1>3, <1>4, <1>5, <1>6, <1>7, <1>8, <1>9

LEMMA ClosingEffects ==
  ASSUME SockTyped, ChanTyped, FdeTyped, NEW F \in Evented, NEW ids \in SUBSET Id, Close(F, ids),
         F.pending \subseteq fde.pending, \A d \in Fds : F.want[d] \subseteq fde.want[d]
  PROVE  /\ sock' \in [Id -> Socks] /\ ChanTyped' /\ FdeTyped' /\ LoopEffects
         /\ \A c \in Conn : OfTransport(c)' \subseteq OfTransport(c) \ ids
<1>1. /\ sock' \in [Id -> Socks] /\ ChanTyped' /\ fde' \in Evented
      /\ fde'.pending \subseteq F.pending /\ \A d \in Fds : fde'.want[d] \subseteq F.want[d]
      /\ \A id \in Id : id \notin ids => sock'[id] = sock[id]
      /\ \A id \in ids : /\ sock'[id].peer = 0 /\ sock'[id].st \in {"closing", "freed"}
                         /\ sock'[id].st = "freed" =>
                               fde'.want[S(id)] = {} /\ S(id) \notin fde'.pending
  BY Zenon, Closing
<1>2. LoopEffects
  BY ZenonT(60), <1>1 DEF LoopEffects, Watched
<1>3. \A c \in Conn : OfTransport(c)' \subseteq OfTransport(c) \ ids
  <2>1. \A c \in Conn : c # 0
    BY Bounds DEF Conn
  <2> QED
    BY <1>1, <2>1 DEF OfTransport
<1> QED
  BY Zenon, <1>1, <1>2, <1>3 DEF FdeTyped

(* After SYNC(0) the input thread finds no socket to close.                *)
LEMMA InputThreadKeeps ==
  \A c \in Conn : AdbInv /\ InputThread(c) => AdbInv'
<1>InputReadTyped.
  ASSUME Typed, NEW c \in Conn, InputRead(c)
  PROVE  Typed'
  <2> USE <1>InputReadTyped
  <2>0. UsbTyped /\ LinkTyped /\ RegTyped /\ TrTyped /\ PcTyped
        /\ PairTyped /\ FdeTyped /\ SockTyped /\ ChanTyped /\ HostTyped
    BY Zenon DEF Typed
  <2>1. UNCHANGED <<usbFd, last, openPc, reg, fde, sock, nextId, chan, host, opens, rx, outPc,
        toLoop>>
    BY DEF InputRead, usb, link, threads, hosts, HostUnchanged
  <2>2. UsbTyped' /\ RegTyped' /\ FdeTyped' /\ SockTyped' /\ ChanTyped' /\ HostTyped'
    BY <2>0, <2>1 DEF UsbTyped, RegTyped, FdeTyped, SockTyped, ChanTyped, HostTyped
  <2>r. Linked => usbFd \in Conn
    BY <2>0 DEF Linked, UsbTyped, Conn
  <2>3. LinkTyped'
    BY <2>0, <2>1, <2>r, Queues DEF InputRead, LinkTyped, PairTyped, RemoteWrite
  <2>4. TrTyped'
    BY ZenonT(60), <2>0, <2>1 DEF InputRead, TrTyped, Transports
  <2>5. PcTyped'
    BY <2>0, <2>1 DEF InputRead, PcTyped, InPcs
  <2>6. PairTyped'
    BY <2>0, <2>1, Queues DEF InputRead, PairTyped
  <2> QED
    BY Zenon, <2>2, <2>3, <2>4, <2>5, <2>6 DEF Typed
<1>InputReadKeeps.
  ASSUME AdbInv, NEW c \in Conn, InputRead(c)
  PROVE  AdbInv'
  <2> USE <1>InputReadKeeps
  <2>0. /\ Typed /\ LifeInv /\ PacketInv /\ LoopInv /\ inPc \in [Conn -> InPcs]
        /\ toInput \in [Conn -> Seq(Packets)]
    BY ZenonT(60) DEF AdbInv, Typed, PcTyped, PairTyped
  <2>1. Typed' /\ LifeInv' /\ UNCHANGED reg /\ \A e \in Conn : tr'[e].st = tr[e].st
    BY <2>0, <1>InputReadTyped, ThreadsLife DEF InputThread
  <2>2. /\ toInput[c] # << >> /\ toInput' = [toInput EXCEPT ![c] = Tail(@)]
        /\ inPc' = IF IsSync0(Head(toInput[c])) THEN [inPc EXCEPT ![c] = "close"] ELSE inPc
        /\ UNCHANGED <<rx, outPc, toLoop, sock, fde>>
    BY DEF InputRead, IsSync0
  <2>3. LoopInv'
    BY Zenon, <2>0, <2>1, <2>2, LoopStays
  <2>4. ASSUME NEW e \in Conn
        PROVE  PacketsOf(e)'
    <3>0. OfTransport(e)' = OfTransport(e) /\ PacketsOf(e)
      BY SMTT(20), <2>0, <2>2 DEF OfTransport, PacketInv
    <3>1. (Stopping(e)' <=> Stopping(e)) /\ toLoop'[e] = toLoop[e] /\ rx'[e] = rx[e]
      BY Zenon, <2>2 DEF Stopping
    <3>2. Over(e)' => Over(e)
      <4>1. CASE e # c
        BY ZenonT(60), <2>0, <2>2, <4>1 DEF Over
      <4>2. CASE e = c
        <5>1. toInput'[e] = Tail(toInput[e]) /\ toInput[e] \in Seq(Packets) /\ toInput[e] # << >>
          BY ZenonT(60), <2>0, <2>2, <4>2
        <5>2. /\ Head(toInput[e]) = toInput[e][1] /\ 1 \in DOMAIN toInput[e]
              /\ \A j \in DOMAIN toInput'[e] :
                    j + 1 \in DOMAIN toInput[e] /\ toInput'[e][j] = toInput[e][j + 1]
          BY SMTT(30), <5>1, TailFacts
        <5>3. inPc'[e] = inPc[e] \/ IsSync0(toInput[e][1])
          BY Zenon, <2>0, <2>2, <4>2, <5>2
        <5> QED
          BY Zenon, <5>2, <5>3 DEF Over
      <4> QED
        BY Zenon, <4>1, <4>2
    <3> QED
      BY Zenon, <3>0, <3>1, <3>2, PacketsStay
  <2> QED
    BY <2>1, <2>3, <2>4 DEF AdbInv, PacketInv
<1>CloseAllKeeps.
  ASSUME AdbInv, NEW c \in Conn, CloseAllSockets(c)
  PROVE  AdbInv'
  <2> USE <1>CloseAllKeeps
  <2>0. /\ Typed /\ LifeInv /\ PacketInv /\ LoopInv /\ UsbTyped /\ LinkTyped /\ RegTyped /\ TrTyped
        /\ PcTyped /\ PairTyped /\ FdeTyped /\ SockTyped /\ ChanTyped /\ HostTyped
    BY Zenon DEF AdbInv, Typed
  <2>1. LifeInv' /\ UNCHANGED reg /\ \A e \in Conn : tr'[e].st = tr[e].st
    BY Zenon, <2>0, ThreadsLife DEF InputThread
  <2>2. PICK ids \in SUBSET Id : Close(fde, ids)
    <3>1. {id \in OfTransport(c) : sock[id].st = "open"} \in SUBSET Id
      BY SMTT(20) DEF OfTransport
    <3> QED
      BY Zenon, <3>1 DEF CloseAllSockets
  <2>3. /\ sock' \in [Id -> Socks] /\ ChanTyped' /\ FdeTyped' /\ LoopEffects
        /\ \A e \in Conn : OfTransport(e)' \subseteq OfTransport(e) \ ids
    BY ZenonT(60), <2>0, <2>2, ClosingEffects DEF FdeTyped
  <2>4. /\ inPc[c] = "close" /\ inPc' = [inPc EXCEPT ![c] = "kick"]
        /\ UNCHANGED <<usbFd, openPc, last, rx, tx, tr, outPc, toLoop, toInput, nextId, host, opens>>
    BY DEF CloseAllSockets, usb, link, hosts
  <2>5. Typed'
    <3>1. UsbTyped' /\ LinkTyped' /\ RegTyped' /\ TrTyped' /\ PairTyped' /\ HostTyped'
      BY Zenon, <2>0, <2>1, <2>4 DEF UsbTyped, LinkTyped, RegTyped, TrTyped, PairTyped, HostTyped
    <3>2. PcTyped' /\ SockTyped'
      BY ZenonT(60), <2>0, <2>3, <2>4 DEF PcTyped, InPcs, SockTyped
    <3> QED
      BY Zenon, <2>3, <3>1, <3>2 DEF Typed
  <2>6. LoopInv'
    BY SMTT(20), <2>0, <2>1, <2>3, LoopKept
  <2>7. ASSUME NEW e \in Conn
        PROVE  PacketsOf(e)'
    <3>1. (Stopping(e)' <=> Stopping(e)) /\ (Over(e)' => Over(e))
      BY <2>0, <2>4 DEF Stopping, Over, PcTyped
    <3>2. PacketsOf(e) /\ OfTransport(e)' \subseteq OfTransport(e)
      BY <2>0, <2>3 DEF PacketInv
    <3> QED
      BY ZenonT(60), <2>4, <3>1, <3>2, PacketsStay
  <2> QED
    BY Zenon, <2>1, <2>5, <2>6, <2>7 DEF AdbInv, PacketInv
<1> QED
  BY <1>InputReadKeeps, <1>CloseAllKeeps DEF InputThread

-----------------------------------------------------------------------------
(* transport_registration_func(): the first request is taken off the       *)
(* queue, and no other is about its transport.                             *)
LEMMA RegistrationKeeps ==
  AdbInv /\ (RegistrationAdd \/ RegistrationRemove) => AdbInv'
<1>FirstRequest.
  ASSUME Typed, LifeInv, LoopInv, Reg \in fde.pending, reg' = Tail(reg), NEW c, c = Head(reg)[1]
  PROVE  /\ c \in Conn /\ EntryOf(c) /\ ConnLife(c) /\ RegTyped'
         /\ reg[1] = Head(reg) /\ 1 \in DOMAIN reg
         /\ \A i \in DOMAIN reg' : reg'[i][1] # c /\ \E j \in DOMAIN reg : reg[j] = reg'[i]
         /\ \A i, j \in DOMAIN reg' : reg'[i][1] = reg'[j][1] => i = j
  <2> USE <1>FirstRequest
  <2> DEFINE X == Conn \X {"add", "remove"}
  <2>0. reg \in Seq(X) /\ reg # << >>
    BY DEF Typed, RegTyped, LoopInv
  <2>1. \A x \in X : x[1] \in Conn
    BY Zenon
  <2> HIDE DEF X
  <2>2. /\ Tail(reg) \in Seq(X) /\ Head(reg) \in X /\ Len(reg) \in Nat /\ Len(reg) >= 1
        /\ Len(reg') = Len(reg) - 1 /\ DOMAIN reg' = 1 .. Len(reg') /\ DOMAIN reg = 1 .. Len(reg)
        /\ \A i \in DOMAIN reg' : reg'[i] = reg[i + 1]
        /\ Head(reg) = reg[1]
    BY Zenon, <2>0, TailFacts
  <2>3. c \in Conn /\ RegTyped'
    BY Zenon, <2>1, <2>2 DEF RegTyped, X
  <2>4. EntryOf(c) /\ ConnLife(c)
    BY ZenonT(60), <2>3 DEF LifeInv, RegLife, EntryOf
  <2>5. \A i, j \in DOMAIN reg : reg[i][1] = reg[j][1] => i = j
    BY DEF LifeInv, RegLife
  <2>6. 1 \in DOMAIN reg /\ \A i \in DOMAIN reg' : i + 1 \in DOMAIN reg /\ i + 1 # 1 /\ i \in Nat
    BY <2>2
  <2>7. \A i \in DOMAIN reg' : reg'[i][1] # c /\ \E j \in DOMAIN reg : reg[j] = reg'[i]
    BY ZenonT(60), <2>2, <2>5, <2>6
  <2>8. \A i, j \in DOMAIN reg' : reg'[i][1] = reg'[j][1] => i = j
    BY <2>2, <2>5, <2>6
  <2> QED
    BY ZenonT(60), <2>2, <2>3, <2>4, <2>6, <2>7, <2>8
<1>RegistrationAddKeeps.
  ASSUME AdbInv, RegistrationAdd
  PROVE  AdbInv'
  <2> USE <1>RegistrationAddKeeps
  <2>c. PICK c : c = Head(reg)[1]
    OBVIOUS
  <2> DEFINE new == [NoTransport EXCEPT !.st = "registered", !.ref = 2]
             F == FdDequeue(fde, Reg)
  <2>t. /\ Typed /\ LifeInv /\ PacketInv /\ LoopInv
        /\ tr \in [Conn -> Transports] /\ outPc \in [Conn -> OutPcs] /\ inPc \in [Conn -> InPcs]
        /\ fde \in Evented
    BY DEF AdbInv, Typed, TrTyped, PcTyped, FdeTyped
  <2>0. /\ Reg \in fde.pending /\ Head(reg)[2] = "add" /\ reg' = Tail(reg)
        /\ tr' = [tr EXCEPT ![c] = new] /\ inPc' = [inPc EXCEPT ![c] = "read"]
        /\ outPc' = [outPc EXCEPT ![c] = "sync"] /\ fde' = FdInstall(F, T(c), {"READ"})
    BY <2>c DEF RegistrationAdd, Dispatched
  <2>1. UNCHANGED <<usbFd, last, openPc, rx, tx, toLoop, toInput, sock, nextId, chan, host, opens>>
    BY DEF RegistrationAdd, usb, link, hosts
  <2>2. /\ c \in Conn /\ EntryOf(c) /\ ConnLife(c) /\ RegTyped'
        /\ reg[1] = Head(reg) /\ 1 \in DOMAIN reg
        /\ \A i \in DOMAIN reg' : reg'[i][1] # c /\ \E j \in DOMAIN reg : reg[j] = reg'[i]
        /\ \A i, j \in DOMAIN reg' : reg'[i][1] = reg'[j][1] => i = j
    BY <2>0, <2>c, <2>t, <1>FirstRequest
  <2>3. Unstarted(c) /\ ~Unannounced(c)
    BY <2>0, <2>2, <2>c DEF EntryOf
  <2>4. new \in Transports /\ new.st = "registered" /\ new.ref = 2
    <3>1. NoTransport \in Transports
      BY DEF NoTransport, Transports
    <3>2. \A t \in Transports : /\ [t EXCEPT !.st = "registered"] \in Transports
                                /\ [t EXCEPT !.ref = 2] \in Transports
      BY DEF Transports
    <3>a. new \in Transports
      BY Zenon, <3>1, <3>2
    <3>3. new.st = "registered" /\ new.ref = 2
      BY DEF NoTransport
    <3> QED
      BY Zenon, <3>a, <3>3
  <2> HIDE DEF new
  <2>5. /\ tr' \in [Conn -> Transports] /\ outPc' \in [Conn -> OutPcs] /\ inPc' \in [Conn -> InPcs]
        /\ tr'[c] = new /\ outPc'[c] = "sync" /\ inPc'[c] = "read"
        /\ \A e \in Conn : e # c => tr'[e] = tr[e] /\ outPc'[e] = outPc[e] /\ inPc'[e] = inPc[e]
    BY Zenon, <2>0, <2>2, <2>4, <2>t DEF OutPcs, InPcs
  <2>6. /\ fde' \in Evented /\ fde'.pending = fde.pending \ {Reg}
        /\ \A d \in Fds : d # T(c) => fde'.want[d] = fde.want[d]
    <3>1. Reg \in Fds /\ T(c) \in Fds /\ {"READ"} \in SUBSET {"READ", "WRITE"}
      BY <2>2, Descriptors
    <3>2. F \in Evented /\ F.want = fde.want /\ F.pending = fde.pending \ {Reg}
      BY ZenonT(60), <2>t, <3>1, FdeSteps
    <3> HIDE DEF F
    <3>3. /\ FdInstall(F, T(c), {"READ"}) \in Evented
          /\ FdInstall(F, T(c), {"READ"}).pending = F.pending
          /\ \A d \in Fds : FdInstall(F, T(c), {"READ"}).want[d] = IF d = T(c) THEN {"READ"} ELSE F.want[d]
      BY <3>1, <3>2, FdeSteps
    <3> QED
      BY ZenonT(60), <2>0, <3>2, <3>3
  <2>7. Typed'
    <3>1. UsbTyped /\ LinkTyped /\ PairTyped /\ SockTyped /\ ChanTyped /\ HostTyped
      BY ZenonT(60), <2>t DEF Typed
    <3>2. UsbTyped' /\ LinkTyped' /\ PairTyped' /\ SockTyped' /\ ChanTyped' /\ HostTyped'
      BY <2>1, <3>1 DEF UsbTyped, LinkTyped, PairTyped, SockTyped, ChanTyped, HostTyped
    <3>3. RegTyped' /\ TrTyped' /\ PcTyped' /\ FdeTyped'
      BY Zenon, <2>2, <2>5, <2>6 DEF TrTyped, PcTyped, FdeTyped
    <3> QED
      BY Zenon, <3>2, <3>3 DEF Typed
  <2>8. LifeInv'
    <3>1. ASSUME NEW e \in Conn, e # c
          PROVE  ConnLife(e)' /\ EntryOf(e)'
      <4>0. tr'[e] = tr[e] /\ outPc'[e] = outPc[e] /\ inPc'[e] = inPc[e]
        BY <2>5, <3>1
      <4>1. FirstKick(e)' <=> FirstKick(e)
        BY Zenon, <4>0 DEF FirstKick
      <4> QED
        BY ZenonT(60), <2>1, <2>2, <2>t, <3>1, <4>0, <4>1, OtherLives
    <3>2. ConnLife(c)'
      <4>0. FirstKick(c)
        BY ZenonT(60), <2>3 DEF Unstarted
      <4>1. /\ Started(c)' /\ ~Unannounced(c)' /\ Refs(c)' = 2
            /\ tr'[c].st = "registered" /\ tr'[c].ref = 2
        BY SMTT(30), <2>1, <2>3, <2>4, <2>5 DEF Started, Unannounced, Refs
      <4>2. c <= last' => usbFd' = c
        BY Zenon, <2>1, <2>2, <4>0 DEF ConnLife
      <4> QED
        BY Zenon, <2>5, <4>1, <4>2 DEF ConnLife
    <3>3. RegLife'
      BY Zenon, <2>2, <3>1 DEF RegLife, EntryOf
    <3>4. UsbLife'
      BY <2>1, <2>t DEF LifeInv, UsbLife
    <3> QED
      BY SMTT(20), <3>1, <3>2, <3>3, <3>4 DEF LifeInv
  <2>9. PacketInv'
    <3>1. ASSUME NEW e \in Conn
          PROVE  PacketsOf(e)'
      <4>1. PacketsOf(e)
        BY <2>t DEF PacketInv
      <4>2. OfTransport(e)' = OfTransport(e)
        BY Zenon, <2>1 DEF OfTransport
      <4>3. CASE e = c
        <5>1. ~Stopping(c) /\ ~Over(c)
          BY Zenon, <2>3, <4>1, <4>3 DEF Stopping, PacketsOf, Unstarted
        <5>2. ~Over(c)'
          BY Zenon, <2>1, <2>5, <5>1 DEF Over
        <5> QED
          BY Zenon, <2>1, <4>1, <4>3, <5>1, <5>2 DEF PacketsOf
      <4>4. CASE e # c
        <5>1. (Stopping(e)' <=> Stopping(e)) /\ (Over(e)' <=> Over(e))
          BY ZenonT(60), <2>1, <2>5, <4>4 DEF Stopping, Over
        <5> QED
          BY Zenon, <2>1, <4>1, <4>2, <5>1 DEF PacketsOf
      <4> QED
        BY <4>3, <4>4
    <3> QED
      BY <3>1 DEF PacketInv
  <2>10. LoopInv'
    <3>1. ASSUME NEW d \in Fds, fde'.want[d] # {} \/ d \in fde'.pending
          PROVE  Installed(d)'
      <4>1. CASE d = T(c)
        BY Zenon, <2>2, <2>4, <2>5, <4>1, Descriptors DEF Installed
      <4>2. CASE d # T(c)
        <5>1. Installed(d)
          BY Zenon, <2>6, <2>t, <3>1, <4>2 DEF LoopInv
        <5> QED
          BY Zenon, <2>1, <2>2, <2>5, <4>2, <5>1 DEF Installed
      <4> QED
        BY SMTT(20), <4>1, <4>2
    <3>2. Reg \notin fde'.pending
      BY ZenonT(60), <2>6
    <3> QED
      BY <3>1, <3>2 DEF LoopInv
  <2> QED
    BY <2>7, <2>8, <2>9, <2>10 DEF AdbInv
<1>RegistrationRemoveKeeps.
  ASSUME AdbInv, RegistrationRemove
  PROVE  AdbInv'
  <2> USE <1>RegistrationRemoveKeeps
  <2>c. PICK c : c = Head(reg)[1]
    OBVIOUS
  <2> DEFINE F == FdDequeue(fde, Reg)
             G == FdRemove(F, {T(c)})
             ids == OfTransport(c)
  <2>t. /\ Typed /\ LifeInv /\ PacketInv /\ LoopInv /\ SockTyped /\ ChanTyped /\ FdeTyped
        /\ tr \in [Conn -> Transports] /\ fde \in Evented
        /\ toLoop \in [Conn -> Seq(Packets)] /\ toInput \in [Conn -> Seq(Packets)]
    BY DEF AdbInv, Typed, TrTyped, FdeTyped, PairTyped
  <2>0. /\ Reg \in fde.pending /\ Head(reg)[2] = "remove" /\ reg' = Tail(reg)
        /\ tr' = [tr EXCEPT ![c].st = "freed"] /\ Close(G, ids)
        /\ toLoop' = [toLoop EXCEPT ![c] = << >>] /\ toInput' = [toInput EXCEPT ![c] = << >>]
    BY <2>c DEF RegistrationRemove, Dispatched
  <2>1. UNCHANGED <<usbFd, last, openPc, rx, tx, outPc, inPc, nextId, host, opens>>
    BY DEF RegistrationRemove, usb, link, threads, hosts
  <2>2. /\ c \in Conn /\ EntryOf(c) /\ ConnLife(c) /\ RegTyped'
        /\ reg[1] = Head(reg) /\ 1 \in DOMAIN reg
        /\ \A i \in DOMAIN reg' : reg'[i][1] # c /\ \E j \in DOMAIN reg : reg[j] = reg'[i]
        /\ \A i, j \in DOMAIN reg' : reg'[i][1] = reg'[j][1] => i = j
    BY <2>0, <2>c, <2>t, <1>FirstRequest
  <2>3. Ended(c) /\ tr[c].st = "registered" /\ ~Unannounced(c)
    BY <2>0, <2>2, <2>c DEF EntryOf
  <2>k. /\ tr' = [tr EXCEPT ![c] = [tr[c] EXCEPT !.st = "freed"]] /\ tr[c] \in Transports
        /\ tr'[c] = [tr[c] EXCEPT !.st = "freed"]
    BY <2>0, <2>2, <2>t
  <2>l. tr'[c].kicked = tr[c].kicked
    BY <2>k DEF Transports
  <2>m. [tr[c] EXCEPT !.st = "freed"] \in Transports /\ tr'[c].st = "freed"
    BY <2>k DEF Transports
  <2>4. /\ tr' \in [Conn -> Transports] /\ tr'[c].st = "freed"
        /\ \A e \in Conn : e # c => tr'[e] = tr[e]
    BY <2>2, <2>k, <2>m, <2>t
  <2>5. /\ toLoop' \in [Conn -> Seq(Packets)] /\ toInput' \in [Conn -> Seq(Packets)]
        /\ toLoop'[c] = << >> /\ toInput'[c] = << >>
        /\ \A e \in Conn : e # c => toLoop'[e] = toLoop[e] /\ toInput'[e] = toInput[e]
    <3>1. /\ [toLoop EXCEPT ![c] = << >>] \in [Conn -> Seq(Packets)]
          /\ [toInput EXCEPT ![c] = << >>] \in [Conn -> Seq(Packets)]
      BY Zenon, <2>2, <2>t, Queues
    <3> QED
      BY ZenonT(60), <2>0, <2>2, <2>t, <3>1
  <2>6. /\ G \in Evented /\ G.pending \subseteq fde.pending \ {Reg, T(c)}
        /\ \A d \in Fds : G.want[d] = IF d = T(c) THEN {} ELSE fde.want[d]
    <3>1. Reg \in Fds /\ {T(c)} \in SUBSET Fds /\ {} \in SUBSET {"READ", "WRITE"}
      BY Zenon, <2>2, Descriptors
    <3>2. F \in Evented /\ F.want = fde.want /\ F.pending = fde.pending \ {Reg}
      BY ZenonT(60), <2>t, <3>1, FdeSteps
    <3> HIDE DEF F
    <3>3. /\ G \in Evented /\ G.pending = F.pending \ {T(c)}
          /\ \A d \in Fds : G.want[d] = IF d \in {T(c)} THEN {} ELSE F.want[d]
      BY Zenon, <3>1, <3>2, FdeRemoved
    <3> QED
      BY ZenonT(60), <3>2, <3>3
  <2> HIDE DEF G
  <2>7. /\ sock' \in [Id -> Socks] /\ ChanTyped' /\ fde' \in Evented
        /\ fde'.pending \subseteq G.pending /\ \A d \in Fds : fde'.want[d] \subseteq G.want[d]
        /\ \A id \in Id : id \notin ids => sock'[id] = sock[id]
        /\ \A id \in ids : /\ sock'[id].peer = 0 /\ sock'[id].st \in {"closing", "freed"}
                           /\ sock'[id].st = "freed" =>
                                 fde'.want[S(id)] = {} /\ S(id) \notin fde'.pending
    <3>1. ids \in SUBSET Id
      BY ZenonT(60) DEF OfTransport
    <3> HIDE DEF ids
    <3> QED
      BY Zenon, <2>0, <2>6, <2>t, <3>1, Closing
  <2>8. OfTransport(c)' = {} /\ \A e \in Conn : OfTransport(e)' \subseteq OfTransport(e)
    <3>1. \A e \in Conn : e # 0
      BY Bounds DEF Conn
    <3> QED
      <4>1. ASSUME NEW id \in Id
            PROVE  /\ sock[id].peer = c => sock'[id].peer = 0
                   /\ sock[id].peer # c => sock'[id].peer = sock[id].peer
        BY Zenon, <2>7, <4>1 DEF OfTransport
      <4>2. c # 0
        BY Zenon, <2>2, <3>1
      <4> QED
        BY Zenon, <3>1, <4>1, <4>2 DEF OfTransport
  <2>9. Typed'
    <3>1. UsbTyped /\ LinkTyped /\ PcTyped /\ HostTyped
      BY Zenon, <2>t DEF Typed
    <3>2. UsbTyped' /\ LinkTyped' /\ PcTyped' /\ HostTyped' /\ SockTyped'
      BY Zenon, <2>1, <2>7, <2>t, <3>1 DEF UsbTyped, LinkTyped, PcTyped, HostTyped, SockTyped
    <3>3. RegTyped' /\ TrTyped' /\ PairTyped' /\ FdeTyped' /\ ChanTyped'
      BY Zenon, <2>2, <2>4, <2>5, <2>7 DEF TrTyped, PairTyped, FdeTyped
    <3> QED
      BY Zenon, <3>2, <3>3 DEF Typed
  <2>10. LifeInv'
    <3>1. ASSUME NEW e \in Conn, e # c
          PROVE  ConnLife(e)' /\ EntryOf(e)'
      <4>0. tr'[e] = tr[e]
        BY <2>4, <3>1
      <4>1. FirstKick(e)' <=> FirstKick(e)
        BY Zenon, <4>0 DEF FirstKick
      <4> QED
        BY ZenonT(60), <2>1, <2>2, <2>t, <3>1, <4>0, <4>1, OtherLives
    <3>2. ConnLife(c)'
      <4>0. FirstKick(c)' <=> FirstKick(c)
        BY Zenon, <2>l DEF FirstKick
      <4>1. Started(c)' /\ ~Unannounced(c)' /\ Ended(c)'
        BY ZenonT(60), <2>1, <2>3 DEF Started, Unannounced, Ended
      <4> QED
        BY Zenon, <2>1, <2>2, <2>4, <4>0, <4>1 DEF ConnLife
    <3>3. RegLife'
      BY Zenon, <2>2, <3>1 DEF RegLife, EntryOf
    <3>4. UsbLife'
      BY <2>1, <2>t DEF LifeInv, UsbLife
    <3> QED
      BY <3>1, <3>2, <3>3, <3>4 DEF LifeInv
  <2>11. PacketInv'
    <3>1. ASSUME NEW e \in Conn
          PROVE  PacketsOf(e)'
      <4>1. PacketsOf(e)
        BY <2>t DEF PacketInv
      <4>2. Stopping(e)' <=> Stopping(e)
        BY Zenon, <2>1 DEF Stopping
      <4>3. CASE e = c
        <5>1. Stopping(e)
          BY <2>3, <4>3 DEF Stopping, Ended
        <5> QED
          <6>1. toLoop'[e] = << >> /\ rx'[e] = rx[e] /\ OfTransport(e)' = {}
            BY ZenonT(60), <2>1, <2>5, <2>8, <4>3
          <6>2. DOMAIN toLoop'[e] = {}
            BY <6>1
          <6> QED
            BY Zenon, <4>1, <4>2, <5>1, <6>1, <6>2 DEF PacketsOf
      <4>4. CASE e # c
        <5>1. Over(e)' <=> Over(e)
          BY Zenon, <2>1, <2>5, <4>4 DEF Over
        <5> QED
          BY Zenon, <2>1, <2>5, <2>8, <4>1, <4>2, <4>4, <5>1 DEF PacketsOf
      <4> QED
        BY <4>3, <4>4
    <3> QED
      BY <3>1 DEF PacketInv
  <2>12. LoopInv'
    <3>1. ASSUME NEW d \in Fds, fde'.want[d] # {} \/ d \in fde'.pending
          PROVE  Installed(d)'
      <4>1. d # T(c) /\ (fde.want[d] # {} \/ d \in fde.pending)
        BY Zenon, <2>6, <2>7, <3>1
      <4>2. Installed(d)
        BY Zenon, <2>t, <4>1 DEF LoopInv
      <4>3. ASSUME NEW id \in Id, d = S(id)
            PROVE  sock'[id].st \in {"open", "closing"}
        BY ZenonT(60), <2>7, <3>1, <4>2, <4>3 DEF Installed
      <4> QED
        BY Zenon, <2>2, <2>4, <4>1, <4>2, <4>3 DEF Installed
    <3>2. Reg \notin fde'.pending
      BY Zenon, <2>6, <2>7
    <3> QED
      BY <3>1, <3>2 DEF LoopInv
  <2> QED
    BY <2>9, <2>10, <2>11, <2>12 DEF AdbInv
<1> QED
  BY Zenon, <1>RegistrationAddKeeps, <1>RegistrationRemoveKeeps
=============================================================================
