------------------------------ MODULE Minadbd ------------------------------
(***************************************************************************)
(* minadbd, the daemon that receives a package over USB: the thread that   *)
(* opens the device (usb_linux_client.c), the two threads of a transport   *)
(* and its registration (transport.c, transport_usb.c), the event loop     *)
(* with its sockets and packets (adb.c, sockets.c, Fdevent), and the       *)
(* threads of the sideload service (services.c).                           *)
(*                                                                         *)
(* A connection is what lies between two openings of the device; the       *)
(* transport registered for connection c is called c as well.  A callback  *)
(* of the event loop is one step: its sends only append to a queue.        *)
(***************************************************************************)
EXTENDS Integers, Sequences, Fdevent

CONSTANTS
    Conns,          \* bound: openings of the device
    Count,          \* chunks of a package
    PktLen,         \* chunks that a packet of the host holds
    SockRoom,       \* chunks that a service's socket pair buffers
    MaxOpens,       \* bound: A_OPEN packets of the hosts
    MaxFaults       \* bound: unplugged cables, corrupt packets, failed creats

ASSUME AdbAssumption ==
    {Conns, Count, PktLen, SockRoom, MaxOpens} \subseteq Nat \ {0} /\ MaxFaults \in Nat

Conn == 1 .. Conns
Id == 1 .. MaxOpens

VARIABLES
    usbFd,          \* h->fd: the connection that is open, or 0
    openPc,         \* usb_adb_open_thread
    last,           \* the last connection opened
    plugged,        \* [Conn -> is its link intact?]
    rx, tx,         \* [Conn -> packets under way from and to the host]
    reg,            \* the registration socket pair
    tr,             \* [Conn -> atransport]
    outPc, inPc,    \* [Conn -> output_thread, input_thread]
    toLoop, toInput,    \* [Conn -> the transport's socket pair, per direction]
    fde,            \* the event loop
    sock,           \* [Id -> local asocket, with its remote peer]
    nextId,         \* local_socket_next_id
    chan,           \* [Id -> socket pair between asocket and service]
    svc,            \* [Id -> thread of the sideload service]
    file,           \* ADB_SIDELOAD_FILENAME: by position, whose data it holds
    overlap,        \* history: did two services ever run at once?
    exited,         \* has the process called exit(0)?
    host,           \* [Conn -> the adb at the other end]
    opens, faults

usb == <<usbFd, openPc, last>>
link == <<plugged, rx, tx>>
threads == <<outPc, inPc>>
service == <<svc, file, overlap, exited>>
hosts == <<host, opens>>
vars == <<usbFd, openPc, last, plugged, rx, tx, reg, tr, outPc, inPc, toLoop,
          toInput, fde, sock, nextId, chan, svc, file, overlap, exited, host,
          opens, faults>>

Reg == <<"reg", 0>>
T(c) == <<"t", c>>
S(id) == <<"s", id>>
Fds == {Reg} \cup {T(c) : c \in Conn} \cup {S(id) : id \in Id}

Pkt(cmd, a0, a1) == [cmd |-> cmd, a0 |-> a0, a1 |-> a1, data |-> << >>]
Wrte(a0, a1, ks) == [Pkt("WRTE", a0, a1) EXCEPT !.data = ks]
Packets == [cmd : {"SYNC", "CNXN", "OPEN", "OKAY", "CLSE", "WRTE"},
            a0 : 0 .. MaxOpens, a1 : 0 .. MaxOpens, data : Seq(1 .. Count)]

NoTransport == [st |-> "none", cs |-> "offline", ref |-> 0, kicked |-> FALSE,
                active |-> FALSE]
NoSock == [st |-> "none", peer |-> 0, rid |-> 0, pkts |-> << >>]
NoChan == [down |-> << >>, up |-> 0, loopOpen |-> FALSE, svcOpen |-> FALSE]

NoFile == [i \in 1 .. Count |-> <<0, 0>>]

(* The variables keep their types: no queue, counter or socket leaves its  *)
(* range.                                                                  *)
TypeOK ==
    /\ usbFd \in 0 .. Conns /\ last \in 0 .. Conns
    /\ openPc \in {"wait", "register"}
    /\ plugged \in [Conn -> BOOLEAN]
    /\ \A q \in {rx, tx, toLoop, toInput} : q \in [Conn -> Seq(Packets)]
    /\ reg \in Seq(Conn \X {"add", "remove"})
    /\ tr \in [Conn -> [st : {"none", "registered", "freed"}, ref : 0 .. 2,
                        cs : {"offline", "host"}, kicked : BOOLEAN,
                        active : BOOLEAN]]
    /\ outPc \in [Conn -> {"none", "sync", "read", "offline", "kick", "kicking",
                           "unref", "done"}]
    /\ inPc \in [Conn -> {"none", "read", "close", "kick", "kicking", "unref",
                          "done"}]
    /\ DOMAIN fde.want = Fds /\ fde.pending \subseteq Fds
    /\ sock \in [Id -> [st : {"none", "open", "closing", "freed"},
                        peer : 0 .. Conns, rid : 0 .. MaxOpens, pkts : Seq(1 .. Count)]]
    /\ nextId \in 1 .. MaxOpens + 1
    /\ chan \in [Id -> [down : Seq(1 .. Count), up : 0 .. 1, loopOpen : BOOLEAN,
                        svcOpen : BOOLEAN]]
    /\ \A id \in Id : Len(chan[id].down) <= SockRoom
    /\ svc \in [Id -> [pc : {"none", "create", "read", "reply", "close", "exit",
                             "done"},
                       got : 0 .. Count]]
    /\ file \in [1 .. Count -> (0 .. MaxOpens) \X (0 .. Count)]
    /\ overlap \in BOOLEAN /\ exited \in BOOLEAN
    /\ host \in [Conn -> [pc : {"idle", "cnxn", "open", "write", "result", "done"},
                          rid : 0 .. MaxOpens, lid : 0 .. MaxOpens,
                          sent : 0 .. Count]]
    /\ opens \in 0 .. MaxOpens /\ faults \in 0 .. MaxFaults

Init ==
    /\ usbFd = 0 /\ openPc = "wait" /\ last = 0
    /\ plugged = [c \in Conn |-> FALSE]
    /\ rx = [c \in Conn |-> << >>] /\ tx = rx /\ toLoop = rx /\ toInput = rx
    /\ reg = << >> /\ tr = [c \in Conn |-> NoTransport]
    /\ outPc = [c \in Conn |-> "none"] /\ inPc = outPc
    /\ fde = FdInstall(FdInit(Fds), Reg, {"READ"})
    /\ sock = [id \in Id |-> NoSock] /\ nextId = 1
    /\ chan = [id \in Id |-> NoChan]
    /\ svc = [id \in Id |-> [pc |-> "none", got |-> 0]]
    /\ file = NoFile /\ overlap = FALSE /\ exited = FALSE
    /\ host = [c \in Conn |-> [pc |-> "idle", rid |-> 0, lid |-> 0, sent |-> 0]]
    /\ opens = 0 /\ faults = 0

-----------------------------------------------------------------------------
(* usb_adb_open_thread(): when the device is closed, open it again and     *)
(* register a transport for it.                                            *)
OpenUsb ==
    /\ ~exited /\ openPc = "wait" /\ usbFd = 0 /\ last < Conns
    /\ last' = last + 1 /\ usbFd' = last + 1
    /\ plugged' = [plugged EXCEPT ![last + 1] = TRUE]
    /\ openPc' = "register"
    /\ UNCHANGED <<rx, tx, reg, tr, threads, toLoop, toInput, fde, sock, nextId,
                   chan, service, hosts, faults>>

RegisterTransport ==
    /\ ~exited /\ openPc = "register"
    /\ reg' = Append(reg, <<last, "add">>)
    /\ openPc' = "wait"
    /\ UNCHANGED <<usbFd, last, link, tr, threads, toLoop, toInput, fde, sock,
                   nextId, chan, service, hosts, faults>>

(* kick_transport(): the first of the two threads to come here closes the  *)
(* device.                                                                 *)
FirstKick(c) == ~tr[c].kicked

KickTransport(c, pc, pc1) ==
    /\ ~exited /\ pc[c] = "kick"
    /\ tr' = [tr EXCEPT ![c].kicked = TRUE]
    /\ pc1 = [pc EXCEPT ![c] = IF FirstKick(c) THEN "kicking" ELSE "unref"]
    /\ UNCHANGED <<usb, link, reg, toLoop, toInput, fde, sock, nextId, chan,
                   service, hosts, faults>>

UsbKick(c, pc, pc1) ==
    /\ ~exited /\ pc[c] = "kicking"
    /\ usbFd' = 0
    /\ pc1 = [pc EXCEPT ![c] = "unref"]
    /\ UNCHANGED <<openPc, last, link, reg, tr, toLoop, toInput, fde, sock,
                   nextId, chan, service, hosts, faults>>

AnyRef(c) == TRUE
LastRef(c) == tr[c].ref = 1

(* transport_unref(): the last thread has the loop remove the transport.   *)
TransportUnref(c, pc, pc1) ==
    /\ ~exited /\ pc[c] = "unref"
    /\ tr' = [tr EXCEPT ![c].ref = @ - 1]
    /\ reg' = IF LastRef(c) THEN Append(reg, <<c, "remove">>) ELSE reg
    /\ pc1 = [pc EXCEPT ![c] = "done"]
    /\ UNCHANGED <<usb, link, toLoop, toInput, fde, sock, nextId, chan, service,
                   hosts, faults>>

KickOrUnref(c) ==
    \/ /\ KickTransport(c, outPc, outPc') \/ UsbKick(c, outPc, outPc')
          \/ TransportUnref(c, outPc, outPc')
       /\ UNCHANGED inPc
    \/ /\ KickTransport(c, inPc, inPc') \/ UsbKick(c, inPc, inPc')
          \/ TransportUnref(c, inPc, inPc')
       /\ UNCHANGED outPc

-----------------------------------------------------------------------------
(* output_thread(): announces itself with SYNC(1), passes on what the host *)
(* sends, and SYNC(0) when a read fails.                                   *)
OutputSync(c) ==
    /\ ~exited /\ outPc[c] \in {"sync", "offline"}
    /\ toLoop' = [toLoop EXCEPT
                    ![c] = Append(@, Pkt("SYNC", IF outPc[c] = "sync" THEN 1 ELSE 0, 0))]
    /\ outPc' = [outPc EXCEPT ![c] = IF outPc[c] = "sync" THEN "read" ELSE "kick"]
    /\ UNCHANGED <<usb, link, reg, tr, inPc, toInput, fde, sock, nextId, chan,
                   service, hosts, faults>>

Linked == usbFd # 0 /\ plugged[usbFd]
Readable == Linked /\ rx[usbFd] # << >>

OutputRead(c) ==
    /\ ~exited /\ outPc[c] = "read" /\ Readable
    /\ rx' = [rx EXCEPT ![usbFd] = Tail(@)]
    /\ toLoop' = [toLoop EXCEPT ![c] = Append(@, Head(rx[usbFd]))]
    /\ UNCHANGED <<usb, plugged, tx, reg, tr, threads, toInput, fde, sock, nextId,
                   chan, service, hosts, faults>>

(* remote_read() fails: the device is closed or unplugged, or a packet     *)
(* fails check_header() or check_data().                                   *)
OutputReadFails(c) ==
    /\ ~exited /\ outPc[c] = "read"
    /\ \/ ~Linked /\ UNCHANGED <<rx, faults>>
       \/ /\ Readable /\ faults < MaxFaults
          /\ rx' = [rx EXCEPT ![usbFd] = Tail(@)] /\ faults' = faults + 1
    /\ outPc' = [outPc EXCEPT ![c] = "offline"]
    /\ UNCHANGED <<usb, plugged, tx, reg, tr, inPc, toLoop, toInput, fde, sock,
                   nextId, chan, service, hosts>>

RemoteWrite(p) == IF Linked THEN [tx EXCEPT ![usbFd] = Append(@, p)] ELSE tx

(* input_thread(): passes packets of the loop on to the host while it is   *)
(* active; a write to a closed device is lost.                             *)
InputRead(c) ==
    /\ ~exited /\ inPc[c] = "read" /\ toInput[c] # << >>
    /\ toInput' = [toInput EXCEPT ![c] = Tail(@)]
    /\ LET p == Head(toInput[c]) IN
       /\ inPc' = IF p.cmd = "SYNC" /\ p.a0 = 0 THEN [inPc EXCEPT ![c] = "close"] ELSE inPc
       /\ tr' = IF p.cmd = "SYNC" /\ p.a0 = 1 THEN [tr EXCEPT ![c].active = TRUE] ELSE tr
       /\ tx' = IF p.cmd # "SYNC" /\ tr[c].active THEN RemoteWrite(p) ELSE tx
    /\ UNCHANGED <<usb, plugged, rx, reg, outPc, toLoop, fde, sock, nextId, chan,
                   service, hosts, faults>>

-----------------------------------------------------------------------------
(* local_socket_close_locked(): a socket with unwritten packets stays on   *)
(* the closing list until they are written, any other is destroyed.  The   *)
(* operators give the sockets, channels and loop after closing the ids.    *)
Destroyed(s) == s.st = "closing" \/ s.pkts = << >>

ClosedSocks(ids) ==
    [id \in Id |-> IF id \notin ids THEN sock[id]
                   ELSE IF Destroyed(sock[id])
                   THEN [sock[id] EXCEPT !.st = "freed", !.peer = 0, !.pkts = << >>]
                   ELSE [sock[id] EXCEPT !.st = "closing", !.peer = 0]]

ClosedChans(ids) ==
    [id \in Id |-> IF id \in ids /\ Destroyed(sock[id])
                   THEN [chan[id] EXCEPT !.loopOpen = FALSE, !.up = 0] ELSE chan[id]]

ClosedFde(F, ids) ==
    LET gone == {id \in ids : Destroyed(sock[id])} IN
    FdDel(FdRemove(F, {S(id) : id \in gone}), {S(id) : id \in ids \ gone}, {"READ"})

Close(F, ids) ==
    /\ sock' = ClosedSocks(ids) /\ chan' = ClosedChans(ids)
    /\ fde' = ClosedFde(F, ids)

(* The sockets whose remote peers are on t->disconnects.                   *)
OfTransport(c) == {id \in Id : sock[id].peer = c}

(* close_all_sockets() of the input thread.                                *)
CloseAllSockets(c) ==
    /\ ~exited /\ inPc[c] = "close"
    /\ Close(fde, {id \in OfTransport(c) : sock[id].st = "open"})
    /\ inPc' = [inPc EXCEPT ![c] = "kick"]
    /\ UNCHANGED <<usb, link, reg, tr, outPc, toLoop, toInput, nextId, service,
                   hosts, faults>>

-----------------------------------------------------------------------------
(* fdevent_loop(): what is ready when select() is called.                  *)
Ready ==
    [d \in Fds |->
       CASE d[1] = "reg" -> IF reg # << >> THEN {"READ"} ELSE {}
         [] d[1] = "t" -> IF toLoop[d[2]] # << >> THEN {"READ"} ELSE {}
         [] d[1] = "s" ->
              (IF chan[d[2]].up > 0 \/ ~chan[d[2]].svcOpen THEN {"READ"} ELSE {})
              \cup (IF Len(chan[d[2]].down) < SockRoom \/ ~chan[d[2]].svcOpen
                    THEN {"WRITE"} ELSE {})]

Select ==
    /\ ~exited /\ fde.pending = {}
    /\ fde' = FdSelected(fde, Ready) /\ fde'.pending # {}
    /\ UNCHANGED <<usb, link, reg, tr, threads, toLoop, toInput, sock, nextId,
                   chan, service, hosts, faults>>

Dispatched(d) == ~exited /\ d \in fde.pending

(* transport_registration_func()                                           *)
RegistrationAdd ==
    /\ Dispatched(Reg) /\ Head(reg)[2] = "add" /\ reg' = Tail(reg)
    /\ LET c == Head(reg)[1] IN
       /\ tr' = [tr EXCEPT ![c] = [NoTransport EXCEPT !.st = "registered", !.ref = 2]]
       /\ inPc' = [inPc EXCEPT ![c] = "read"]
       /\ outPc' = [outPc EXCEPT ![c] = "sync"]
       /\ fde' = FdInstall(FdDequeue(fde, Reg), T(c), {"READ"})
    /\ UNCHANGED <<usb, link, toLoop, toInput, sock, nextId, chan, service, hosts,
                   faults>>

RegistrationRemove ==
    /\ Dispatched(Reg) /\ Head(reg)[2] = "remove" /\ reg' = Tail(reg)
    /\ LET c == Head(reg)[1] IN
       /\ tr' = [tr EXCEPT ![c].st = "freed"]
       /\ Close(FdRemove(FdDequeue(fde, Reg), {T(c)}), OfTransport(c))
       /\ toLoop' = [toLoop EXCEPT ![c] = << >>]
       /\ toInput' = [toInput EXCEPT ![c] = << >>]
    /\ UNCHANGED <<usb, link, threads, nextId, service, hosts, faults>>

-----------------------------------------------------------------------------
(* transport_socket_events() and handle_packet(), by command.              *)
Handle(c, cmd) ==
    /\ Dispatched(T(c)) /\ toLoop[c] # << >> /\ Head(toLoop[c]).cmd = cmd
    /\ toLoop' = [toLoop EXCEPT ![c] = Tail(@)]
    /\ UNCHANGED <<usb, link, reg, threads, file, exited, hosts>>

Sent(c, ps) == [toInput EXCEPT ![c] = @ \o ps]

(* handle_offline(): the disconnects close every socket of the transport,  *)
(* without a packet to the host.                                           *)
HandleOffline(c) == Close(FdDequeue(fde, T(c)), OfTransport(c))

(* SYNC comes from the output thread and is sent on to the input thread.   *)
HandleSyncOn(c) ==
    /\ Handle(c, "SYNC") /\ Head(toLoop[c]).a0 = 1
    /\ toInput' = Sent(c, <<Head(toLoop[c])>>)
    /\ fde' = FdDequeue(fde, T(c))
    /\ UNCHANGED <<tr, sock, nextId, chan, svc, overlap, faults>>

HandleSyncOff(c) ==
    /\ Handle(c, "SYNC") /\ Head(toLoop[c]).a0 = 0
    /\ tr' = [tr EXCEPT ![c].cs = "offline"]
    /\ HandleOffline(c)
    /\ toInput' = Sent(c, <<Head(toLoop[c])>>)
    /\ UNCHANGED <<nextId, svc, overlap, faults>>

(* CNXN, with parse_banner() of "host::" and send_connect().               *)
HandleConnect(c) ==
    /\ Handle(c, "CNXN")
    /\ tr' = [tr EXCEPT ![c].cs = "host"]
    /\ IF tr[c].cs # "offline" THEN HandleOffline(c)
       ELSE fde' = FdDequeue(fde, T(c)) /\ UNCHANGED <<sock, chan>>
    /\ toInput' = Sent(c, <<Pkt("CNXN", 0, 0)>>)
    /\ UNCHANGED <<nextId, svc, overlap, faults>>

(* A packet for a socket that is gone, or for an offline transport.        *)
Online(c) == tr[c].cs # "offline"
Found(id) == id # 0 /\ sock[id].st = "open"     \* find_local_socket()

HandleNothing(c) ==
    /\ \E cmd \in {"OKAY", "CLSE", "WRTE"} :
         Handle(c, cmd) /\ ~(Online(c) /\ Found(Head(toLoop[c]).a1))
    /\ fde' = FdDequeue(fde, T(c))
    /\ UNCHANGED <<tr, toInput, sock, nextId, chan, svc, overlap, faults>>

NewServiceChannel == [NoChan EXCEPT !.loopOpen = TRUE, !.svcOpen = TRUE]
NewSocket(c, rid) == [NoSock EXCEPT !.st = "open", !.peer = c, !.rid = rid]
Running(id) == svc[id].pc \in {"create", "read", "reply", "close", "exit"}

(* OPEN of "sideload:": create_service_thread(), create_local_socket(),    *)
(* create_remote_socket(), send_ready() and local_socket_ready().  When    *)
(* there is no such service, or no thread, the answer is CLSE.             *)
HandleOpen(c) ==
    /\ Handle(c, "OPEN") /\ Online(c) /\ nextId <= MaxOpens
    /\ LET rid == Head(toLoop[c]).a0 IN
       /\ sock' = [sock EXCEPT ![nextId] = NewSocket(c, rid)]
       /\ chan' = [chan EXCEPT ![nextId] = NewServiceChannel]
       /\ fde' = FdAdd(FdInstall(FdDequeue(fde, T(c)), S(nextId), {}), {S(nextId)}, {"READ"})
       /\ toInput' = Sent(c, <<Pkt("OKAY", nextId, rid)>>)
       /\ svc' = [svc EXCEPT ![nextId].pc = "create"]
    /\ overlap' = (overlap \/ \E id \in Id : Running(id))
    /\ nextId' = nextId + 1
    /\ UNCHANGED <<tr, faults>>

HandleOpenFails(c) ==
    /\ Handle(c, "OPEN")
    /\ fde' = FdDequeue(fde, T(c))
    /\ \/ ~Online(c) /\ UNCHANGED <<toInput, faults>>
       \/ /\ Online(c) /\ faults < MaxFaults /\ faults' = faults + 1
          /\ toInput' = Sent(c, <<Pkt("CLSE", 0, Head(toLoop[c]).a0)>>)
    /\ UNCHANGED <<tr, sock, nextId, chan, svc, overlap>>

HandleOkay(c) ==
    /\ Handle(c, "OKAY") /\ Online(c) /\ Found(Head(toLoop[c]).a1)
    /\ fde' = FdAdd(FdDequeue(fde, T(c)), {S(Head(toLoop[c]).a1)}, {"READ"})
    /\ UNCHANGED <<tr, toInput, sock, nextId, chan, svc, overlap, faults>>

(* What the remote sockets send to the host.                               *)
RemoteSocketReady(id) == Pkt("OKAY", id, sock[id].rid)
RemoteSocketEnqueue(id) == Wrte(id, sock[id].rid, << >>)
RemoteSocketClose(id) == Pkt("CLSE", 0, sock[id].rid)

(* s->close() of a socket with a peer closes that too.                     *)
CloseSocket(F, id) ==
    /\ Close(F, {id})
    /\ toInput' = IF sock[id].peer = 0 THEN toInput
                  ELSE Sent(sock[id].peer, <<RemoteSocketClose(id)>>)

HandleClose(c) ==
    /\ Handle(c, "CLSE") /\ Online(c) /\ Found(Head(toLoop[c]).a1)
    /\ CloseSocket(FdDequeue(fde, T(c)), Head(toLoop[c]).a1)
    /\ UNCHANGED <<tr, nextId, svc, overlap, faults>>

Acked(c, id, rid) == Sent(c, <<Pkt("OKAY", id, rid)>>)
BacklogNoAck(c, id, rid) == toInput

(* local_socket_enqueue(): what fits is written to the service; a packet   *)
(* that is all written is acknowledged, the rest of one that is not, or    *)
(* one behind another, is queued.  If the service is gone, so is the       *)
(* socket.                                                                 *)
Room(id) == SockRoom - Len(chan[id].down)
RestSkips(n, ks) == SubSeq(ks, n + 2, Len(ks))
Smaller(m, n) == IF m <= n THEN m ELSE n
Fits(n, ks) == SubSeq(ks, 1, Smaller(n, Len(ks)))
Rest(n, ks) == SubSeq(ks, n + 1, Len(ks))

HandleWrite(c) ==
    /\ Handle(c, "WRTE") /\ Online(c) /\ Found(Head(toLoop[c]).a1)
    /\ LET p == Head(toLoop[c])
           id == p.a1
           queue == sock[id].pkts
           n == IF queue = << >> THEN Room(id) ELSE 0 IN
       \/ /\ queue = << >> /\ ~chan[id].svcOpen
          /\ CloseSocket(FdDequeue(fde, T(c)), id)
       \/ /\ chan[id].svcOpen /\ Len(p.data) <= n
          /\ chan' = [chan EXCEPT ![id].down = @ \o p.data]
          /\ toInput' = Acked(c, id, p.a0)
          /\ fde' = FdDequeue(fde, T(c)) /\ UNCHANGED sock
       \/ /\ chan[id].svcOpen \/ queue # << >>
          /\ Len(p.data) > n
          /\ chan' = [chan EXCEPT ![id].down = @ \o Fits(n, p.data)]
          /\ sock' = [sock EXCEPT ![id].pkts = @ \o Rest(n, p.data)]
          /\ fde' = FdAdd(FdDequeue(fde, T(c)), {S(id)}, {"WRITE"})
          /\ toInput' = BacklogNoAck(c, id, p.a0)
    /\ UNCHANGED <<tr, nextId, svc, overlap, faults>>

-----------------------------------------------------------------------------
(* local_socket_event_func(): first the queued packets are written, as     *)
(* many as there is room for.                                              *)
Event(id) ==
    /\ Dispatched(S(id))
    /\ UNCHANGED <<usb, link, reg, tr, threads, toLoop, nextId, service, hosts,
                   faults>>

Evs(id) == fde.events[S(id)]

EventWriteFails(id) ==
    /\ Event(id) /\ "WRITE" \in Evs(id) /\ ~chan[id].svcOpen /\ sock[id].pkts # << >>
    /\ CloseSocket(FdDequeue(fde, S(id)), id)

EventWriteBlocks(id) ==
    /\ Event(id) /\ "WRITE" \in Evs(id) /\ chan[id].svcOpen
    /\ Room(id) < Len(sock[id].pkts)
    /\ sock' = [sock EXCEPT ![id].pkts = Rest(Room(id), @)]
    /\ chan' = [chan EXCEPT ![id].down = @ \o Fits(Room(id), sock[id].pkts)]
    /\ fde' = FdDequeue(fde, S(id))
    /\ UNCHANGED toInput

(* The last packet of a closing socket is written: it is destroyed.        *)
Drained(id) ==
    /\ "WRITE" \in Evs(id)
    /\ \/ sock[id].pkts = << >>
       \/ chan[id].svcOpen /\ Room(id) >= Len(sock[id].pkts)

EventWriteCloses(id) ==
    /\ Event(id) /\ Drained(id) /\ sock[id].st = "closing"
    /\ sock' = [sock EXCEPT ![id].st = "freed", ![id].pkts = << >>]
    /\ chan' = [chan EXCEPT ![id].down = @ \o sock[id].pkts, ![id].loopOpen = FALSE,
                            ![id].up = 0]
    /\ fde' = FdRemove(FdDequeue(fde, S(id)), {S(id)})
    /\ UNCHANGED toInput

(* Otherwise the host may send again, and what the service wrote is read.  *)
(* At its end of file the socket is closed.                                *)
EventRest(id) ==
    /\ Event(id) /\ ("WRITE" \in Evs(id) => (Drained(id) /\ sock[id].st = "open"))
    /\ LET w == "WRITE" \in Evs(id)
           r == "READ" \in Evs(id)
           data == r /\ chan[id].up > 0 /\ sock[id].peer # 0
           eof == r /\ ~chan[id].svcOpen
           F0 == FdDequeue(fde, S(id))
           F1 == IF w THEN FdDel(F0, {S(id)}, {"WRITE"}) ELSE F0
           F2 == IF data THEN FdDel(F1, {S(id)}, {"READ"}) ELSE F1
           c == sock[id].peer
           ps == (IF w THEN <<RemoteSocketReady(id)>> ELSE << >>)
                 \o (IF data THEN <<RemoteSocketEnqueue(id)>> ELSE << >>)
                 \o (IF eof /\ c # 0 THEN <<RemoteSocketClose(id)>> ELSE << >>)
           left == IF w THEN << >> ELSE sock[id].pkts
           gone == eof /\ (sock[id].st = "closing" \/ left = << >>) IN
       /\ toInput' = IF c = 0 THEN toInput ELSE Sent(c, ps)
       /\ sock' = [sock EXCEPT ![id].pkts = IF gone THEN << >> ELSE left,
                               ![id].peer = IF eof THEN 0 ELSE @,
                               ![id].st = CASE gone -> "freed"
                                            [] eof /\ ~gone -> "closing"
                                            [] OTHER -> @]
       /\ chan' = [chan EXCEPT ![id].up = IF r THEN 0 ELSE @,
                               ![id].down = IF w THEN @ \o sock[id].pkts ELSE @,
                               ![id].loopOpen = ~gone]
       /\ fde' = IF gone THEN FdRemove(F2, {S(id)})
                 ELSE IF eof THEN FdDel(F2, {S(id)}, {"READ"}) ELSE F2

-----------------------------------------------------------------------------
(* sideload_service(): creat() truncates the file that every service of    *)
(* the process writes.                                                     *)
SideloadCreate(id) ==
    /\ ~exited /\ svc[id].pc = "create"
    /\ \/ /\ file' = NoFile /\ svc' = [svc EXCEPT ![id].pc = "read"]
          /\ UNCHANGED <<chan, faults>>
       \/ /\ faults < MaxFaults /\ faults' = faults + 1
          /\ svc' = [svc EXCEPT ![id].pc = "done"]
          /\ chan' = [chan EXCEPT ![id].svcOpen = FALSE, ![id].down = << >>]
          /\ UNCHANGED file
    /\ UNCHANGED <<usb, link, reg, tr, threads, toLoop, toInput, fde, sock, nextId,
                   overlap, exited, hosts>>

SideloadRead(id) ==
    /\ ~exited /\ svc[id].pc = "read" /\ svc[id].got < Count
    /\ \/ /\ chan[id].down # << >>
          /\ chan' = [chan EXCEPT ![id].down = Tail(@)]
          /\ file' = [file EXCEPT ![svc[id].got + 1] = <<id, Head(chan[id].down)>>]
          /\ svc' = [svc EXCEPT ![id].got = @ + 1]
       \/ /\ chan[id].down = << >> /\ ~chan[id].loopOpen
          /\ svc' = [svc EXCEPT ![id].pc = "reply"]
          /\ UNCHANGED <<chan, file>>
    /\ UNCHANGED <<usb, link, reg, tr, threads, toLoop, toInput, fde, sock, nextId,
                   overlap, exited, hosts, faults>>

(* OKAY or FAIL, and the end of the service; after all of the package the  *)
(* process exits a second later.                                           *)
CompleteEarly(id) == svc[id].got = Count - 1
Complete(id) == svc[id].got = Count

SideloadReply(id) ==
    /\ ~exited /\ (svc[id].pc = "reply" \/ (svc[id].pc = "read" /\ Complete(id)))
    /\ chan' = [chan EXCEPT ![id].up = IF chan[id].loopOpen THEN 1 ELSE 0]
    /\ svc' = [svc EXCEPT ![id].pc = "close"]
    /\ UNCHANGED <<usb, link, reg, tr, threads, toLoop, toInput, fde, sock, nextId,
                   file, overlap, exited, hosts, faults>>

SideloadClose(id) ==
    /\ ~exited /\ svc[id].pc = "close"
    /\ chan' = [chan EXCEPT ![id].svcOpen = FALSE, ![id].down = << >>]
    /\ svc' = [svc EXCEPT ![id].pc = IF Complete(id) THEN "exit" ELSE "done"]
    /\ UNCHANGED <<usb, link, reg, tr, threads, toLoop, toInput, fde, sock, nextId,
                   file, overlap, exited, hosts, faults>>

SideloadExit(id) ==
    /\ ~exited /\ svc[id].pc = "exit"
    /\ exited' = TRUE
    /\ UNCHANGED <<usb, link, reg, tr, threads, toLoop, toInput, fde, sock, nextId,
                   chan, svc, file, overlap, hosts, faults>>

-----------------------------------------------------------------------------
(* The adb at the other end, by the protocol: it connects, opens the       *)
(* service, and sends each packet of the package after the OKAY for the    *)
(* one before.  It may be interrupted, or be started again.                *)
ToDevice(c, ps) == rx' = [rx EXCEPT ![c] = @ \o ps]

HostOpens(c) ==
    /\ opens < MaxOpens /\ opens' = opens + 1
    /\ ToDevice(c, <<Pkt("OPEN", opens + 1, 0)>>)
    /\ host' = [host EXCEPT ![c] = [pc |-> "open", rid |-> opens + 1, lid |-> 0,
                                    sent |-> 0]]

HostUnchanged ==
    UNCHANGED <<usb, plugged, reg, tr, threads, toLoop, toInput, fde, sock, nextId,
                chan, service>>

HostConnect(c) ==
    /\ ~exited /\ plugged[c] /\ host[c].pc = "idle"
    /\ ToDevice(c, <<Pkt("CNXN", 0, 0)>>)
    /\ host' = [host EXCEPT ![c].pc = "cnxn"]
    /\ HostUnchanged /\ UNCHANGED <<tx, opens, faults>>

HostSends(c, id) ==
    /\ LET n == IF host[c].sent = 0 THEN 1 ELSE Smaller(host[c].sent + PktLen, Count) IN
       /\ ToDevice(c, <<Wrte(host[c].rid, id, [i \in 1 .. n - host[c].sent |->
                                               host[c].sent + i])>>)
       /\ host' = [host EXCEPT ![c].pc = "write", ![c].lid = id, ![c].sent = n]
    /\ UNCHANGED opens

HostReceive(c) ==
    /\ ~exited /\ plugged[c] /\ tx[c] # << >>
    /\ tx' = [tx EXCEPT ![c] = Tail(@)]
    /\ LET p == Head(tx[c])
           mine == p.a1 = host[c].rid /\ host[c].pc \in {"open", "write", "result"} IN
       \/ p.cmd = "CNXN" /\ host[c].pc = "cnxn" /\ HostOpens(c)
       \/ p.cmd = "OKAY" /\ mine /\ host[c].sent < Count /\ HostSends(c, p.a0)
       \/ /\ p.cmd = "OKAY" /\ mine /\ host[c].sent = Count
          /\ host' = [host EXCEPT ![c].pc = "result"] /\ UNCHANGED <<rx, opens>>
       \/ /\ p.cmd = "WRTE" /\ mine
          /\ ToDevice(c, <<Pkt("OKAY", p.a1, p.a0), Pkt("CLSE", p.a1, p.a0)>>)
          /\ host' = [host EXCEPT ![c].pc = "done"] /\ UNCHANGED opens
       \/ /\ p.cmd = "CLSE" /\ mine
          /\ host' = [host EXCEPT ![c].pc = "done"] /\ UNCHANGED <<rx, opens>>
       \/ /\ IF p.cmd = "CNXN" THEN host[c].pc # "cnxn" \/ opens = MaxOpens ELSE ~mine
          /\ UNCHANGED <<rx, hosts>>
    /\ HostUnchanged /\ UNCHANGED faults

(* The user tries again, interrupts a transfer, or starts adb again.       *)
HostAgain(c) ==
    /\ ~exited /\ plugged[c] /\ host[c].pc = "done" /\ HostOpens(c)
    /\ HostUnchanged /\ UNCHANGED <<tx, faults>>

HostInterrupt(c) ==
    /\ ~exited /\ plugged[c] /\ faults < MaxFaults /\ faults' = faults + 1
    /\ \/ /\ host[c].lid # 0 /\ host[c].pc \in {"write", "result"}
          /\ ToDevice(c, <<Pkt("CLSE", host[c].rid, host[c].lid)>>)
          /\ host' = [host EXCEPT ![c].pc = "done"]
       \/ /\ host[c].pc \notin {"idle", "cnxn"}
          /\ ToDevice(c, <<Pkt("CNXN", 0, 0)>>)
          /\ host' = [host EXCEPT ![c].pc = "cnxn"]
    /\ HostUnchanged /\ UNCHANGED <<tx, opens>>

Unplug(c) ==
    /\ ~exited /\ plugged[c] /\ faults < MaxFaults /\ faults' = faults + 1
    /\ plugged' = [plugged EXCEPT ![c] = FALSE]
    /\ rx' = [rx EXCEPT ![c] = << >>] /\ tx' = [tx EXCEPT ![c] = << >>]
    /\ UNCHANGED <<usb, reg, tr, threads, toLoop, toInput, fde, sock, nextId, chan,
                   service, hosts>>

-----------------------------------------------------------------------------
OutputThread(c) == OutputSync(c) \/ OutputRead(c) \/ OutputReadFails(c)
InputThread(c) == InputRead(c) \/ CloseAllSockets(c)

HandlePacket(c) ==
    \/ HandleSyncOn(c) \/ HandleSyncOff(c) \/ HandleConnect(c) \/ HandleOpen(c)
    \/ HandleOpenFails(c) \/ HandleOkay(c) \/ HandleClose(c) \/ HandleWrite(c)
    \/ HandleNothing(c)

LocalSocketEvent(id) ==
    \/ EventWriteFails(id) \/ EventWriteBlocks(id) \/ EventWriteCloses(id)
    \/ EventRest(id)

Loop ==
    \/ Select \/ RegistrationAdd \/ RegistrationRemove
    \/ \E c \in Conn : HandlePacket(c)
    \/ \E id \in Id : LocalSocketEvent(id)

Service(id) ==
    SideloadCreate(id) \/ SideloadRead(id) \/ SideloadReply(id)
    \/ SideloadClose(id) \/ SideloadExit(id)

(* The steps of the threads and of a host that nobody interrupts.          *)
Undisturbed ==
    \/ \E id \in Id : Service(id)
    \/ \E c \in Conn : OutputThread(c) \/ InputThread(c) \/ KickOrUnref(c)
                        \/ HostConnect(c) \/ HostReceive(c)
    \/ OpenUsb \/ RegisterTransport \/ Loop

Next ==
    \/ Undisturbed
    \/ \E c \in Conn : HostAgain(c) \/ HostInterrupt(c) \/ Unplug(c)

Spec == Init /\ [][Next]_vars

-----------------------------------------------------------------------------
(* fdevent_process() calls the callback of every descriptor on its list:   *)
(* the list never holds one that a callback has closed meanwhile (its      *)
(* fdevent is freed with it).                                              *)
PendingAlive ==
    \A d \in fde.pending :
        CASE d[1] = "reg" -> TRUE
          [] d[1] = "t" -> tr[d[2]].st = "registered"
          [] d[1] = "s" -> sock[d[2]].st \in {"open", "closing"}

(* A transport ends without a late thread on what is no longer its own.    *)
(* close_all_sockets(), on the input thread, finds no socket that the      *)
(* event loop could be handling, because handle_offline() has closed them. *)
(* usb_kick() closes the one handle that all transports share only while   *)
(* it is that of this transport, not after the device was opened again.    *)
(* And transport_registration_func() frees a transport only when both of   *)
(* its threads are past their last use of it, no socket sends through it,  *)
(* and no second removal is on its way.                                    *)
LateThreadsHarmless ==
    \A c \in Conn :
        /\ inPc[c] = "close" => OfTransport(c) = {}
        /\ "kicking" \in {inPc[c], outPc[c]} => usbFd = c
        /\ tr[c].st = "freed" =>
            /\ outPc[c] = "done" /\ inPc[c] = "done"
            /\ OfTransport(c) = {} /\ fde.want[T(c)] = {}
            /\ \A i \in DOMAIN reg : reg[i][1] # c

(* minadbd exits when a service has all of its package; what is installed  *)
(* then is that package, each packet once and in order, unless two         *)
(* services ran at once (they write the same file).                        *)
CompletePackage ==
    exited /\ ~overlap =>
        \E id \in Id : \A k \in 1 .. Count : file[k] = <<id, k>>

(* Nobody waits for ever: when no thread of the process nor the host can   *)
(* take a step, the package has arrived, or something went wrong; then     *)
(* every transport whose link is cut has been freed and the device opened  *)
(* again, every closing socket has written its packets and is gone, and a  *)
(* service that still waits does so for a host that is there.  No wakeup   *)
(* of the event loop is lost between a socket that is full and the service *)
(* that drains it.                                                         *)
NobodyWaits ==
    ~ENABLED Undisturbed =>
        \/ exited
        \/ /\ faults > 0
           /\ usbFd # 0 \/ last = Conns
           /\ \A c \in Conn : tr[c].st = "registered" => plugged[c]
           /\ \A id \in Id : /\ sock[id].st # "closing"
                              /\ Running(id) => sock[id].st = "open" /\ sock[id].peer # 0

=============================================================================
