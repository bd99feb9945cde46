--------------------------- MODULE PackageProofs ----------------------------
(***************************************************************************)
(* The services and the hosts keep the invariant of the streams, too; with *)
(* the invariant of minadbd it follows that a package arrives whole.       *)
(***************************************************************************)
EXTENDS StreamProofs, MinadbdProofs

-----------------------------------------------------------------------------
(* The threads of the service: each reads its own stream, in order.        *)
LEMMA UpTo ==
  ASSUME NEW g \in Nat, g < Count, NEW k \in 1 .. g + 1
  PROVE  k = g + 1 \/ (k \in 1 .. g /\ k \in 1 .. Count /\ k # g + 1)
  BY Bounds

LEMMA ServiceHolds ==
  ASSUME Typed, StreamInv, SvcTyped', SvcInv', FileInv',
         UNCHANGED <<plugged, rx, tx, tr, outPc, inPc, toLoop, toInput, sock, nextId, overlap, host, opens>>,
         \A id \in Id : svc'[id].pc # "none" => svc[id].pc # "none",
         \A id \in Id : Live(id)' => Live(id) /\ (Held(id) => Held(id)' /\ Pos(id)' = Pos(id))
  PROVE  StreamInv'
<1>i. /\ \A d \in Conn : Kicked(d) /\ Attached(d)
      /\ \A id \in Id : SockLife(id) /\ Stream(id)
      /\ QueuesGood /\ AskedOnce /\ StreamNames
  BY Zenon DEF StreamInv
<1>0. /\ plugged' = plugged /\ rx' = rx /\ tx' = tx /\ tr' = tr /\ outPc' = outPc /\ inPc' = inPc
      /\ toLoop' = toLoop /\ toInput' = toInput /\ sock' = sock /\ nextId' = nextId /\ host' = host
      /\ opens' = opens
  BY Zenon
<1>1. \A d \in Conn : Kicked(d)' /\ Attached(d)'
  BY Zenon, <1>0, <1>i DEF Kicked, FirstKick, Attached, OfTransport, Online
<1>2. \A id \in Id : SockLife(id)'
  BY Zenon, <1>0, <1>i DEF SockLife, InUse
<1>3. QueuesGood'
  <2>1. \A d, p : GoodIn(d, p) => GoodIn(d, p)'
    BY Zenon, <1>0 DEF GoodIn
  <2>2. \A p : GoodOut(p) => GoodOut(p)'
    BY Zenon, <1>0 DEF GoodOut
  <2>3. ASSUME NEW d \in Conn
        PROVE  /\ \A p \in Items(rx'[d]) \cup Items(toLoop'[d]) : GoodIn(d, p)'
               /\ \A p \in Items(toInput'[d]) \cup Items(tx'[d]) : GoodOut(p)'
    BY Zenon, <1>0, <1>i, <2>1, <2>2 DEF QueuesGood
  <2> QED
    BY Zenon, <2>3 DEF QueuesGood, Items
<1>4. AskedOnce' /\ StreamNames'
  <2>1. AskedOnce'
    <3>1. ASSUME NEW d
          PROVE  /\ Once(rx[d])' = Once(rx[d]) /\ Once(toLoop[d])' = Once(toLoop[d])
                 /\ OpensIn(rx[d])' = OpensIn(rx[d]) /\ OpensIn(toLoop[d])' = OpensIn(toLoop[d])
      BY Zenon, <1>0 DEF Once, OpensIn, Items
    <3>2. \A d : Asked(d)' = Asked(d)
      BY Zenon, <3>1 DEF Asked
    <3> QED
      BY Zenon, <1>i, <3>1, <3>2 DEF AskedOnce
  <2>2. StreamNames'
    BY ZenonT(60), <1>0, <1>i DEF StreamNames
  <2> QED
    BY Zenon, <2>1, <2>2
<1>5. ASSUME NEW id \in Id
      PROVE  Stream(id)'
  <2>1. LinkTyped /\ PairTyped
    BY Zenon DEF Typed
  <2>2. SUFFICES ASSUME Live(id)'
                 PROVE  /\ Held(id)'
                        /\ \A c \in Conn : sock'[id].st = "open" /\ sock'[id].peer = c => Coming(id, c)'
    BY Zenon DEF Stream
  <2>3. /\ Live(id) /\ Held(id) /\ Held(id)' /\ Pos(id)' = Pos(id)
    BY Zenon, <1>i, <2>2 DEF Stream
  <2>4. ASSUME NEW c \in Conn, sock'[id].st = "open", sock'[id].peer = c
        PROVE  Coming(id, c)'
    <3>1. Coming(id, c)
      BY Zenon, <1>0, <1>i, <2>3, <2>4 DEF Stream
    <3>2. Carried(c, id)
      BY Zenon, <1>0, QueuesStay DEF Reads
    <3> QED
      BY ZenonT(60), <1>0, <2>1, <2>3, <3>1, <3>2, ComingKept
  <2> QED
    BY Zenon, <2>3, <2>4
<1> QED
  BY Zenon, <1>1, <1>2, <1>3, <1>4, <1>5 DEF StreamInv

LEMMA ServiceStream ==
  ASSUME AdbInv, StreamInv, NEW id \in Id, Service(id)
  PROVE  StreamInv'
<1> DEFINE Svcs == [pc : {"none", "create", "read", "reply", "close", "exit", "done"}, got : 0 .. Count]
<1>t. /\ Typed /\ chan \in [Id -> Chans] /\ SvcTyped /\ SvcInv /\ FileInv /\ Stream(id)
      /\ chan[id] \in Chans
  BY DEF AdbInv, Typed, ChanTyped, StreamInv
<1>0. UNCHANGED <<plugged, rx, tx, tr, outPc, inPc, toLoop, toInput, sock, nextId, overlap, host, opens>>
  BY DEF Service, SideloadCreate, SideloadRead, SideloadReply, SideloadClose, SideloadExit, link, threads,
         hosts
<1>s. /\ svc \in [Id -> Svcs] /\ DOMAIN file = 1 .. Count /\ plugged' \in [Conn -> BOOLEAN]
  BY Zenon, <1>0, <1>t DEF SvcTyped
<1>e. ~exited
  BY Zenon DEF Service, SideloadCreate, SideloadRead, SideloadReply, SideloadClose, SideloadExit
<1>o. overlap' = overlap /\ sock' = sock
  BY Zenon, <1>0
<1>Others.
  ASSUME NEW j \in Id, svc'[j] = svc[j], chan'[j] = chan[j]
  PROVE  Live(j)' => Live(j) /\ (Held(j) => Held(j)' /\ Pos(j)' = Pos(j))
  BY Zenon, <1>Others, <1>o DEF Live, Held, Pos, From
<1>Moves.
  ASSUME NEW pc \in {"read", "reply", "close", "exit", "done"}, svc' = [svc EXCEPT ![id].pc = pc],
         Running(id), pc = "exit" => svc[id].got = Count, pc \in {"reply", "close", "exit"} => Writer(id),
         pc = "read" => svc[id].pc = "create" /\ chan'[id] = chan[id], exited' = exited,
         \A j \in Id : j # id => chan'[j] = chan[j],
         file' = file \/ (file' = NoFile /\ svc[id].pc = "create" /\ pc = "read")
  PROVE  StreamInv'
  <2> USE <1>Moves
  <2>1. /\ svc'[id].pc = pc /\ svc'[id].got = svc[id].got
        /\ \A j \in Id : j # id => svc'[j] = svc[j]
    BY Zenon, <1>s
  <2>2. SvcTyped'
    <3>1. DOMAIN file' = 1 .. Count
      BY Zenon, <1>s DEF NoFile
    <3>2. svc' \in [Id -> Svcs]
      BY <1>s
    <3> QED
      BY Zenon, <1>s, <3>1, <3>2 DEF SvcTyped
  <2>3. SvcInv'
    <3>1. ASSUME NEW j \in Id
          PROVE  /\ svc'[j].pc \in {"none", "create"} => svc'[j].got = 0
                 /\ svc'[j].pc = "exit" => svc'[j].got = Count
      <4>1. CASE j = id
        BY <2>1, <4>1
      <4>2. CASE j # id
        BY ZenonT(60), <1>t, <2>1, <4>2 DEF SvcInv
      <4> QED
        BY Zenon, <4>1, <4>2
    <3> QED
      BY Zenon, <1>e, <3>1 DEF SvcInv
  <2>4. FileInv'
    <3> SUFFICES ASSUME ~overlap'
                 PROVE  /\ \A i, j \in Id : Running(i)' /\ Running(j)' => i = j
                        /\ \A j \in Id : Writer(j)' => \A k \in 1 .. svc'[j].got : file'[k] = <<j, k>>
      BY Zenon DEF FileInv, Running, Writer
    <3>1. /\ \A i, j \in Id : Running(i) /\ Running(j) => i = j
          /\ \A j \in Id : Writer(j) => \A k \in 1 .. svc[j].got : file[k] = <<j, k>>
      BY Zenon, <1>o, <1>t DEF FileInv
    <3>2. \A j \in Id : Running(j)' => Running(j)
      BY Zenon, <2>1 DEF Running
    <3>3. ASSUME NEW j \in Id, Writer(j)'
          PROVE  \A k \in 1 .. svc'[j].got : file'[k] = <<j, k>>
      <4>1. Running(j)'
        BY <3>3 DEF Writer, Running
      <4>2. j = id
        BY Zenon, <3>1, <3>2, <4>1
      <4>3. CASE pc = "read"
        <5>1. svc'[id].got = 0
          BY <1>t, <2>1, <4>3 DEF SvcInv
        <5> QED
          BY <4>2, <5>1
      <4>4. CASE pc # "read"
        <5>1. pc # "done"
          BY <2>1, <3>3, <4>2 DEF Writer
        <5>2. Writer(id) /\ file' = file
          BY <4>4, <5>1
        <5>3. \A k \in 1 .. svc[id].got : file[k] = <<id, k>>
          BY Zenon, <3>1, <5>2
        <5> QED
          BY ZenonT(60), <2>1, <4>2, <5>2, <5>3
      <4> QED
        BY Zenon, <4>3, <4>4
    <3> QED
      BY Zenon, <3>1, <3>2, <3>3
  <2>5. \A j \in Id : svc'[j].pc # "none" => svc[j].pc # "none"
    <3>1. svc[id].pc # "none"
      BY DEF Running
    <3> QED
      BY Zenon, <2>1, <3>1
  <2>6. Live(id)' => Live(id) /\ (Held(id) => Held(id)' /\ Pos(id)' = Pos(id))
    <3> SUFFICES ASSUME Live(id)'
                 PROVE  Live(id) /\ (Held(id) => Held(id)' /\ Pos(id)' = Pos(id))
      BY Zenon
    <3>1. pc = "read"
      BY <2>1 DEF Live
    <3>2. Live(id) /\ chan'[id] = chan[id] /\ svc'[id].got = svc[id].got
      BY <2>1, <3>1 DEF Live
    <3> QED
      BY Zenon, <1>o, <3>2 DEF Held, Pos, From
  <2>7. \A j \in Id : Live(j)' => Live(j) /\ (Held(j) => Held(j)' /\ Pos(j)' = Pos(j))
    BY Zenon, <2>1, <2>6, <1>Others
  <2> QED
    BY ZenonT(60), <1>0, <1>t, <2>2, <2>3, <2>4, <2>5, <2>7, ServiceHolds
<1>1. CASE SideloadCreate(id)
  <2>1. Running(id) /\ svc[id].pc = "create" /\ exited' = exited
    BY <1>1 DEF SideloadCreate, Running
  <2>2. CASE file' = NoFile /\ svc' = [svc EXCEPT ![id].pc = "read"] /\ chan' = chan
    <3>1. "read" \notin {"reply", "close", "exit"} /\ "read" \in {"read", "reply", "close", "exit", "done"}
      OBVIOUS
    <3> QED
      BY ZenonT(60), <2>1, <2>2, <3>1, <1>Moves
  <2>3. CASE /\ svc' = [svc EXCEPT ![id].pc = "done"] /\ file' = file
             /\ chan' = [chan EXCEPT ![id].svcOpen = FALSE, ![id].down = << >>]
    <3>1. /\ "done" \notin {"reply", "close", "exit"} /\ "done" # "read"
          /\ "done" \in {"read", "reply", "close", "exit", "done"} /\ "done" # "exit"
      OBVIOUS
    <3>2. \A j \in Id : j # id => chan'[j] = chan[j]
      BY <1>t, <2>3
    <3> QED
      BY ZenonT(60), <2>1, <2>3, <3>1, <3>2, <1>Moves
  <2> QED
    BY Zenon, <1>1, <2>2, <2>3 DEF SideloadCreate
<1>2. CASE SideloadRead(id) /\ svc' = [svc EXCEPT ![id].pc = "reply"]
  <2>1. Running(id) /\ Writer(id) /\ exited' = exited /\ file' = file /\ chan' = chan
    <3>1. svc[id].pc = "read" /\ exited' = exited
      BY Zenon, <1>2 DEF SideloadRead
    <3>2. svc'[id].pc = "reply"
      BY <1>2, <1>s
    <3>3. svc' # [svc EXCEPT ![id].got = @ + 1]
      BY <1>s, <3>1, <3>2
    <3>4. file' = file /\ chan' = chan
      BY Zenon, <1>2, <3>3 DEF SideloadRead
    <3> QED
      BY <3>1, <3>4 DEF Running, Writer
  <2>2. "reply" # "exit" /\ "reply" # "read" /\ "reply" \in {"read", "reply", "close", "exit", "done"}
    OBVIOUS
  <2> QED
    BY ZenonT(60), <1>2, <2>1, <2>2, <1>Moves
<1>3. CASE SideloadReply(id)
  <2>1. /\ svc[id].pc \in {"reply", "read"} /\ exited' = exited /\ file' = file
        /\ svc' = [svc EXCEPT ![id].pc = "close"]
        /\ chan' = [chan EXCEPT ![id].up = IF chan[id].loopOpen THEN 1 ELSE 0]
    BY <1>3 DEF SideloadReply
  <2>2. Running(id) /\ Writer(id) /\ \A j \in Id : j # id => chan'[j] = chan[j]
    BY <1>t, <2>1 DEF Running, Writer
  <2>3. "close" # "exit" /\ "close" # "read" /\ "close" \in {"read", "reply", "close", "exit", "done"}
    OBVIOUS
  <2> QED
    BY ZenonT(60), <2>1, <2>2, <2>3, <1>Moves
<1>4. CASE SideloadClose(id)
  <2>1. /\ svc[id].pc = "close" /\ exited' = exited /\ file' = file
        /\ svc' = [svc EXCEPT ![id].pc = IF Complete(id) THEN "exit" ELSE "done"]
        /\ chan' = [chan EXCEPT ![id].svcOpen = FALSE, ![id].down = << >>]
    BY Zenon, <1>4 DEF SideloadClose
  <2>2. Running(id) /\ Writer(id) /\ \A j \in Id : j # id => chan'[j] = chan[j]
    BY <1>t, <2>1 DEF Running, Writer
  <2>3. PICK pc \in {"exit", "done"} : pc = (IF Complete(id) THEN "exit" ELSE "done")
    BY Zenon
  <2>4. /\ pc # "read" /\ pc \in {"read", "reply", "close", "exit", "done"}
        /\ pc = "exit" => svc[id].got = Count
    BY <2>3 DEF Complete
  <2>5. svc' = [svc EXCEPT ![id].pc = pc]
    BY Zenon, <2>1, <2>3
  <2> QED
    BY ZenonT(60), <2>1, <2>2, <2>4, <2>5, <1>Moves
<1>5. CASE SideloadExit(id)
  <2>1. svc[id].pc = "exit" /\ svc' = svc /\ chan' = chan /\ file' = file
    BY Zenon, <1>5 DEF SideloadExit
  <2>2. SvcTyped' /\ FileInv'
    BY ZenonT(60), <1>s, <1>t, <1>o, <2>1 DEF SvcTyped, FileInv, Running, Writer
  <2>3. SvcInv'
    BY Zenon, <1>t, <2>1 DEF SvcInv
  <2>4. /\ \A j \in Id : svc'[j].pc # "none" => svc[j].pc # "none"
        /\ \A j \in Id : Live(j)' => Live(j) /\ (Held(j) => Held(j)' /\ Pos(j)' = Pos(j))
    BY Zenon, <2>1, <1>Others
  <2> QED
    BY ZenonT(60), <1>0, <1>t, <2>2, <2>3, <2>4, ServiceHolds
<1>6. CASE /\ svc[id].pc = "read" /\ svc[id].got < Count /\ chan[id].down # << >>
           /\ chan' = [chan EXCEPT ![id].down = Tail(@)] /\ exited' = exited
           /\ file' = [file EXCEPT ![svc[id].got + 1] = <<id, Head(chan[id].down)>>]
           /\ svc' = [svc EXCEPT ![id].got = @ + 1]
  <2> DEFINE g == svc[id].got
             d == chan[id].down
             K == 1 .. Count
  <2>1. /\ svc'[id].pc = "read" /\ svc'[id].got = g + 1 /\ chan'[id].down = Tail(d)
        /\ \A j \in Id : j # id => svc'[j] = svc[j] /\ chan'[j] = chan[j]
    BY <1>6, <1>s, <1>t DEF Chans
  <2>2. g \in Nat /\ d \in Seq(1 .. Count) /\ Len(sock[id].pkts) \in Nat
    BY ZenonT(60), <1>t, HeldTypes
  <2>3. Live(id) /\ Held(id)
    BY <1>6, <1>t DEF Live, Stream
  <2>4. From(d, g) /\ From(sock[id].pkts, g + Len(d)) /\ d # << >> /\ g < Count
    BY ZenonT(60), <1>6, <2>3 DEF Held
  <2>5. g + 1 \in 1 .. Count /\ g + 1 \in 0 .. Count
    BY <2>2, <2>4, Bounds
  <2>6. SvcTyped'
    <3>1. DOMAIN file' = 1 .. Count
      BY Zenon, <1>6, <1>s
    <3>2. svc' \in [Id -> Svcs]
      BY <1>6, <1>s, <2>5
    <3> QED
      BY Zenon, <1>s, <3>1, <3>2 DEF SvcTyped
  <2>7. SvcInv'
    <3>1. ASSUME NEW j \in Id
          PROVE  /\ svc'[j].pc \in {"none", "create"} => svc'[j].got = 0
                 /\ svc'[j].pc = "exit" => svc'[j].got = Count
      <4>1. CASE j = id
        BY <2>1, <4>1
      <4>2. CASE j # id
        BY ZenonT(60), <1>t, <2>1, <4>2 DEF SvcInv
      <4> QED
        BY ZenonT(60), <4>1, <4>2
    <3> QED
      BY Zenon, <1>6, <1>e, <3>1 DEF SvcInv
  <2>8. /\ Head(d) = g + 1 /\ Len(Tail(d)) = Len(d) - 1 /\ Len(d) \in Nat
        /\ From(Tail(d), g + 1)
    <3>0. d \in Seq(K)
      BY Zenon, <2>2
    <3> HIDE DEF K, d, g
    <3>1. /\ Len(d) \in Nat /\ Len(d) >= 1 /\ Head(d) = d[1] /\ Len(Tail(d)) = Len(d) - 1
          /\ \A i \in 1 .. Len(d) - 1 : Tail(d)[i] = d[i + 1]
      BY <2>4, <3>0
    <3> QED
      BY <2>2, <2>4, <3>1 DEF From
  <2>9. Held(id)' /\ Pos(id)' = Pos(id)
    <3>1. (g + 1) + Len(Tail(d)) = g + Len(d)
      BY SMTT(60), <2>2, <2>8
    <3>2. From(Tail(d), g + 1) /\ From(sock[id].pkts, (g + 1) + Len(Tail(d)))
      BY Zenon, <2>4, <2>8, <3>1
    <3>3. Pos(id) = g + Len(d) + Len(sock[id].pkts)
      BY Zenon DEF Pos
    <3> HIDE DEF g, d
    <3> QED
      BY ZenonT(60), <1>o, <2>1, <3>1, <3>2, <3>3 DEF Held, Pos
  <2>10. FileInv'
    <3> SUFFICES ASSUME ~overlap'
                 PROVE  /\ \A i, j \in Id : Running(i)' /\ Running(j)' => i = j
                        /\ \A j \in Id : Writer(j)' => \A k \in 1 .. svc'[j].got : file'[k] = <<j, k>>
      BY Zenon DEF FileInv, Running, Writer
    <3>1. /\ \A i, j \in Id : Running(i) /\ Running(j) => i = j
          /\ \A j \in Id : Writer(j) => \A k \in 1 .. svc[j].got : file[k] = <<j, k>>
      BY Zenon, <1>o, <1>t DEF FileInv
    <3>2. Running(id) /\ Writer(id)
      BY <1>6 DEF Running, Writer
    <3>3. \A j \in Id : Running(j)' => Running(j)
      BY Zenon, <2>1, <3>2 DEF Running
    <3>4. ASSUME NEW j \in Id, Writer(j)'
          PROVE  \A k \in 1 .. svc'[j].got : file'[k] = <<j, k>>
      <4>1. Running(j)'
        BY <3>4 DEF Writer, Running
      <4>2. j = id
        BY ZenonT(60), <3>1, <3>2, <3>3, <4>1
      <4>3. /\ file'[g + 1] = <<id, g + 1>>
            /\ \A k \in 1 .. Count : k # g + 1 => file'[k] = file[k]
        BY Zenon, <1>6, <1>s, <2>5, <2>8
      <4>4. \A k \in 1 .. g + 1 : k = g + 1 \/ (k \in 1 .. g /\ k \in 1 .. Count /\ k # g + 1)
        BY Zenon, <2>2, <2>4, UpTo
      <4>5. \A k \in 1 .. g : file[k] = <<id, k>>
        BY Zenon, <3>1, <3>2
      <4> QED
        BY ZenonT(60), <2>1, <4>2, <4>3, <4>4, <4>5
    <3> QED
      BY Zenon, <3>1, <3>3, <3>4
  <2>11. \A j \in Id : svc'[j].pc # "none" => svc[j].pc # "none"
    <3>1. svc[id].pc # "none"
      BY <1>6
    <3> QED
      BY Zenon, <2>1, <3>1
  <2>12. \A j \in Id : Live(j)' => Live(j) /\ (Held(j) => Held(j)' /\ Pos(j)' = Pos(j))
    BY Zenon, <2>1, <2>3, <2>9, <1>Others
  <2> QED
    BY ZenonT(60), <1>0, <1>t, <2>6, <2>7, <2>10, <2>11, <2>12, ServiceHolds
<1> QED
  BY ZenonT(60), <1>1, <1>2, <1>3, <1>4, <1>5, <1>6 DEF Service, SideloadRead

-----------------------------------------------------------------------------
(* The host.  It sends the packets of its stream, one after the other.     *)
LEMMA HostHolds ==
  ASSUME Typed, StreamInv, NEW c \in Conn, HostUnchanged, QueuesGood', AskedOnce', StreamNames',
         \A d \in Conn : d # c => rx'[d] = rx[d] /\ host'[d] = host[d],
         \A id \in Id : \A m, n :
            /\ sock[id].st = "open" /\ sock[id].peer = c /\ Chain(rx[c], id, m, n)
            /\ plugged[c] /\ host[c].rid = sock[id].rid => host[c].sent = n
            => \E k : /\ Chain(rx'[c], id, m, k)
                      /\ plugged[c] /\ host'[c].rid = sock[id].rid => host'[c].sent = k
  PROVE  StreamInv'
<1>i. /\ \A d \in Conn : Kicked(d) /\ Attached(d)
      /\ \A id \in Id : SockLife(id) /\ Stream(id)
      /\ SvcTyped /\ SvcInv /\ FileInv
  BY Zenon DEF StreamInv
<1>0. /\ plugged' = plugged /\ tr' = tr /\ outPc' = outPc /\ inPc' = inPc /\ toLoop' = toLoop
      /\ sock' = sock /\ nextId' = nextId /\ chan' = chan /\ svc' = svc /\ file' = file
      /\ overlap' = overlap /\ exited' = exited
  BY Zenon DEF HostUnchanged, threads, service
<1>1. \A d \in Conn : Kicked(d)' /\ Attached(d)'
  BY Zenon, <1>0, <1>i DEF Kicked, FirstKick, Attached, OfTransport, Online
<1>2. \A id \in Id : SockLife(id)'
  BY Zenon, <1>0, <1>i DEF SockLife, InUse
<1>3. SvcTyped' /\ SvcInv' /\ FileInv'
  BY Zenon, <1>0, <1>i DEF SvcTyped, SvcInv, FileInv, Writer, Running
<1>4. ASSUME NEW id \in Id
      PROVE  Stream(id)'
  <2>1. SUFFICES ASSUME Live(id)'
                 PROVE  /\ Held(id)'
                        /\ \A d \in Conn : sock'[id].st = "open" /\ sock'[id].peer = d => Coming(id, d)'
    BY Zenon DEF Stream
  <2>2. Live(id) /\ Pos(id)' = Pos(id) /\ (Held(id) => Held(id)')
    BY Zenon, <1>0, <2>1 DEF Live, Pos, Held, From
  <2>3. ASSUME NEW d \in Conn, sock'[id].st = "open", sock'[id].peer = d
        PROVE  Coming(id, d)'
    <3>1. Coming(id, d) /\ sock[id].st = "open" /\ sock[id].peer = d
      BY Zenon, <1>0, <1>i, <2>2, <2>3 DEF Stream
    <3>2. PICK m : /\ Chain(toLoop[d], id, Pos(id), m)
                   /\ Reads(d) => \E n : /\ Chain(rx[d], id, m, n)
                                         /\ plugged[d] /\ host[d].rid = sock[id].rid => host[d].sent = n
      BY Zenon, <3>1 DEF Coming
    <3>3. Chain(toLoop'[d], id, Pos(id)', m) /\ (Reads(d)' => Reads(d))
      BY Zenon, <1>0, <2>2, <3>2 DEF Reads
    <3>4. ASSUME Reads(d)
          PROVE  \E k : /\ Chain(rx'[d], id, m, k)
                        /\ plugged'[d] /\ host'[d].rid = sock'[id].rid => host'[d].sent = k
      <4>1. PICK n : /\ Chain(rx[d], id, m, n)
                     /\ plugged[d] /\ host[d].rid = sock[id].rid => host[d].sent = n
        BY Zenon, <3>2, <3>4
      <4>2. CASE d = c
        <5>1. PICK k : /\ Chain(rx'[c], id, m, k)
                       /\ plugged[c] /\ host'[c].rid = sock[id].rid => host'[c].sent = k
          BY ZenonT(60), <3>1, <4>1, <4>2
        <5> QED
          BY Zenon, <1>0, <4>2, <5>1
      <4>3. CASE d # c
        BY Zenon, <1>0, <4>1, <4>3
      <4> QED
        BY Zenon, <4>2, <4>3
    <3>5. Chain(toLoop[d], id, Pos(id), m)'
      BY Zenon, <3>3 DEF Chain
    <3>6. \A k : Chain(rx'[d], id, m, k) => Chain(rx[d], id, m, k)'
      BY Zenon DEF Chain
    <3> QED
      BY Zenon, <3>3, <3>4, <3>5, <3>6 DEF Coming
  <2> QED
    BY Zenon, <1>i, <2>2, <2>3 DEF Stream
<1> QED
  BY Zenon, <1>1, <1>2, <1>3, <1>4 DEF StreamInv

(* Packets that are neither OPEN nor data change no stream.                *)
Plain(p) == p.cmd # "OPEN" /\ p.cmd # "WRTE"
SameStreams(q, s) ==
    /\ s \in Seq(Packets) /\ OpensIn(s) = OpensIn(q) /\ (Once(q) => Once(s))
    /\ \A p \in Items(s) : p \in Items(q) \/ Plain(p)
    /\ \A id : \A a, b : Chain(q, id, a, b) => Chain(s, id, a, b)

LEMMA PlainPackets ==
  ASSUME NEW q \in Seq(Packets)
  PROVE  /\ SameStreams(q, q)
         /\ \A p \in Packets : Plain(p) => SameStreams(q, q \o <<p>>)
         /\ \A p, r \in Packets : Plain(p) /\ Plain(r) => SameStreams(q, q \o <<p, r>>)
<1>1. SameStreams(q, q)
  BY Zenon DEF SameStreams
<1>2. ASSUME NEW s \in Seq(Packets), NEW p \in Packets, Plain(p)
      PROVE  SameStreams(s, Append(s, p))
  <2>0. Append(s, p) \in Seq(Packets)
    OBVIOUS
  <2>1. Items(Append(s, p)) = Items(s) \cup {p}
    BY Zenon, AppendItems
  <2>2. OpensIn(Append(s, p)) = OpensIn(s) /\ (Once(s) => Once(Append(s, p)))
    BY Zenon, <1>2, AppendOpens DEF Plain
  <2>3. ASSUME NEW id, NEW a, NEW b, Chain(s, id, a, b)
        PROVE  Chain(Append(s, p), id, a, b)
    <3>1. Leads(p, id, b, b)
      BY Zenon, <1>2 DEF Leads, ForSocket, Plain
    <3>2. b \in Nat
      BY Zenon, <2>3, ChainFacts
    <3> QED
      BY ZenonT(60), <2>3, <3>1, <3>2, ChainFacts
  <2> QED
    BY ZenonT(60), <1>2, <2>0, <2>1, <2>2, <2>3 DEF SameStreams
<1>3. ASSUME NEW p \in Packets, Plain(p)
      PROVE  SameStreams(q, q \o <<p>>)
  <2>1. q \o <<p>> = Append(q, p)
    OBVIOUS
  <2> QED
    BY Zenon, <1>2, <1>3, <2>1
<1>4. ASSUME NEW p \in Packets, NEW r \in Packets, Plain(p), Plain(r)
      PROVE  SameStreams(q, q \o <<p, r>>)
  <2> DEFINE s == Append(q, p)
  <2>1. q \o <<p, r>> = Append(s, r)
    OBVIOUS
  <2>2. SameStreams(q, s) /\ s \in Seq(Packets)
    BY Zenon, <1>2, <1>4 DEF SameStreams
  <2> HIDE DEF s
  <2>3. SameStreams(s, Append(s, r))
    BY Zenon, <1>2, <1>4, <2>2
  <2> QED
    BY Zenon, <2>1, <2>2, <2>3 DEF SameStreams
<1> QED
  BY Zenon, <1>1, <1>3, <1>4

LEMMA HostMovesStream ==
  ASSUME Typed, StreamInv, NEW c \in Conn, HostUnchanged, opens' = opens,
         NEW q, rx' = [rx EXCEPT ![c] = q], SameStreams(rx[c], q),
         NEW s, host' = [host EXCEPT ![c].pc = s], s \in {"open", "write", "result"} => host[c].rid > 0,
         \A d \in Conn : Items(tx'[d]) \subseteq Items(tx[d])
  PROVE  StreamInv'
<1>t. host \in [Conn -> Hosts] /\ rx \in [Conn -> Seq(Packets)]
  BY Zenon DEF Typed, HostTyped, LinkTyped
<1>i. QueuesGood /\ AskedOnce /\ StreamNames
  BY Zenon DEF StreamInv
<1>0. toLoop' = toLoop /\ toInput' = toInput /\ sock' = sock /\ nextId' = nextId
  BY Zenon DEF HostUnchanged
<1>1. /\ \A d \in Conn : host'[d].rid = host[d].rid /\ host'[d].sent = host[d].sent
      /\ \A d \in Conn : d # c => host'[d] = host[d]
      /\ host'[c].pc = s
  BY Zenon, <1>t DEF Hosts
<1>2. rx'[c] = q /\ \A d \in Conn : d # c => rx'[d] = rx[d]
  BY Zenon, <1>t
<1>3. \A d \in Conn : SameStreams(rx[d], rx'[d])
  BY Zenon, <1>2, <1>t, PlainPackets
<1>4. ASSUME NEW d \in Conn, NEW p, GoodIn(d, p)
      PROVE  GoodIn(d, p)'
  <2>1. p.cmd = "OPEN" => \A e \in Conn : host'[e].rid = p.a0 => e = d /\ host'[e].sent = 0
    BY ZenonT(60), <1>1, <1>4 DEF GoodIn
  <2> QED
    BY Zenon, <1>0, <1>4, <2>1 DEF GoodIn
<1>5. \A d \in Conn : \A p : Plain(p) => GoodIn(d, p)'
  BY Zenon DEF GoodIn, Plain
<1>6. \A p : GoodOut(p) => GoodOut(p)'
  BY Zenon, <1>0 DEF GoodOut
<1>7. ASSUME NEW d \in Conn, NEW p \in Items(rx'[d]) \cup Items(toLoop'[d])
      PROVE  GoodIn(d, p)'
  <2>1. p \in Items(rx[d]) \cup Items(toLoop[d]) \/ Plain(p)
    BY Zenon, <1>0, <1>3 DEF SameStreams
  <2> QED
    BY Zenon, <1>4, <1>5, <1>i, <2>1 DEF QueuesGood
<1>8. ASSUME NEW d \in Conn, NEW p \in Items(toInput'[d]) \cup Items(tx'[d])
      PROVE  GoodOut(p)'
  BY Zenon, <1>0, <1>6, <1>i DEF QueuesGood
<1>9. QueuesGood'
  BY Zenon, <1>7, <1>8 DEF QueuesGood, Items
<1>10. AskedOnce'
  <2>1. ASSUME NEW d \in Conn
        PROVE  /\ Once(rx'[d]) /\ Once(toLoop'[d]) /\ OpensIn(rx'[d]) \cap OpensIn(toLoop'[d]) = {}
               /\ Asked(d)' = Asked(d)
    <3>1. OpensIn(rx'[d]) = OpensIn(rx[d]) /\ Once(rx'[d])
      BY Zenon, <1>3, <1>i DEF SameStreams, AskedOnce
    <3>2. Asked(d)' = OpensIn(rx'[d]) \cup OpensIn(toLoop'[d])
      BY Zenon DEF Asked, OpensIn, Items
    <3> QED
      BY ZenonT(60), <1>0, <1>i, <3>1, <3>2 DEF AskedOnce, Asked
  <2>2. \A d \in Conn : /\ Once(rx[d])' /\ Once(toLoop[d])'
                        /\ (OpensIn(rx[d]) \cap OpensIn(toLoop[d]))' = {}
    BY Zenon, <2>1 DEF Once, OpensIn, Items
  <2>3. \A d, e \in Conn : d # e => Asked(d)' \cap Asked(e)' = {}
    BY Zenon, <1>i, <2>1 DEF AskedOnce
  <2> QED
    BY Zenon, <2>2, <2>3 DEF AskedOnce
<1>11. StreamNames'
  <2>1. \A d \in Conn : host'[d].pc \in {"open", "write", "result"} => host'[d].rid > 0
    BY ZenonT(60), <1>1, <1>i DEF StreamNames
  <2>2. \A d \in Conn : host'[d].rid <= opens
    BY Zenon, <1>1, <1>i DEF StreamNames
  <2>4. ASSUME NEW d \in Conn, NEW e \in Conn, host'[d].rid = host'[e].rid, d # e
        PROVE  host'[d].rid = 0
    <3>1. host[d].rid = host[e].rid /\ host'[d].rid = host[d].rid
      BY Zenon, <1>1, <2>4
    <3> QED
      BY Zenon, <1>i, <2>4, <3>1 DEF StreamNames
  <2>3. \A id \in Id, d \in Conn :
           sock[id].rid = host'[d].rid => sock[id].rid = 0 \/ sock[id].peer \in {0, d}
    BY Zenon, <1>1, <1>i DEF StreamNames
  <2> QED
    BY ZenonT(60), <1>0, <1>i, <2>1, <2>2, <2>3, <2>4 DEF StreamNames
<1>12. \A id \in Id : \A m, n :
          /\ sock[id].st = "open" /\ sock[id].peer = c /\ Chain(rx[c], id, m, n)
          /\ plugged[c] /\ host[c].rid = sock[id].rid => host[c].sent = n
          => \E k : /\ Chain(rx'[c], id, m, k)
                    /\ plugged[c] /\ host'[c].rid = sock[id].rid => host'[c].sent = k
  BY Zenon, <1>1, <1>3 DEF SameStreams
<1>13. \A d \in Conn : d # c => rx'[d] = rx[d] /\ host'[d] = host[d]
  BY Zenon, <1>1, <1>2
<1> QED
  BY ZenonT(60), <1>9, <1>10, <1>11, <1>12, <1>13, HostHolds

(* A_OPEN names a stream that is new.                                      *)
LEMMA HostOpensStream ==
  ASSUME Typed, StreamInv, NEW c \in Conn, HostUnchanged, HostOpens(c),
         \A d \in Conn : Items(tx'[d]) \subseteq Items(tx[d])
  PROVE  StreamInv'
<1>p. PICK p : p = Pkt("OPEN", opens + 1, 0)
  BY Zenon
<1>t. host \in [Conn -> Hosts] /\ rx \in [Conn -> Seq(Packets)] /\ opens \in 0 .. MaxOpens
  BY Zenon DEF Typed, HostTyped, LinkTyped
<1>i. QueuesGood /\ AskedOnce /\ StreamNames
  BY Zenon DEF StreamInv
<1>0. toLoop' = toLoop /\ toInput' = toInput /\ sock' = sock /\ nextId' = nextId
  BY Zenon DEF HostUnchanged
<1>1. /\ opens < MaxOpens /\ opens' = opens + 1 /\ rx' = [rx EXCEPT ![c] = @ \o <<p>>]
      /\ host' = [host EXCEPT ![c] = [pc |-> "open", rid |-> opens + 1, lid |-> 0, sent |-> 0]]
  BY Zenon, <1>p DEF HostOpens, ToDevice
<1>2. opens + 1 \in 0 .. MaxOpens /\ opens \in Nat /\ MaxOpens \in Nat
  BY <1>1, <1>t, Bounds
<1>3. p \in Packets /\ p.cmd = "OPEN" /\ p.a0 = opens + 1
  BY ZenonT(60), <1>2, <1>p, SeqNone, PacketTypes DEF Pkt
<1>4. rx[c] \in Seq(Packets) /\ rx[c] \o <<p>> = Append(rx[c], p)
  BY <1>3, <1>t
<1>5. rx'[c] = Append(rx[c], p) /\ \A d \in Conn : d # c => rx'[d] = rx[d]
  BY ZenonT(60), <1>1, <1>4, <1>t
<1>6. /\ host'[c].pc = "open" /\ host'[c].rid = opens + 1 /\ host'[c].sent = 0
      /\ \A d \in Conn : d # c => host'[d] = host[d]
  BY <1>1, <1>t
<1>7. Items(Append(rx[c], p)) = Items(rx[c]) \cup {p}
  BY ZenonT(60), <1>3, <1>4, AppendItems
<1>8. /\ \A d \in Conn : host[d].rid \in Nat /\ host[d].rid <= opens
      /\ \A id \in Id : sock[id].rid \in Nat /\ sock[id].rid <= opens
  <2>1. /\ \A d \in Conn : host[d].rid \in 0 .. MaxOpens
        /\ \A id \in Id : sock[id].rid \in 0 .. MaxOpens
    BY <1>t DEF Hosts, Typed, SockTyped, Socks
  <2> QED
    BY <1>2, <1>i, <2>1 DEF StreamNames
<1>9. /\ \A x \in Nat : x <= opens => x # opens + 1 /\ x <= opens'
      /\ \A x \in 1 .. opens : x \in 1 .. opens' /\ x # opens + 1 /\ x \in Nat
      /\ opens + 1 \in 1 .. opens' /\ opens + 1 > 0 /\ opens + 1 <= opens'
  BY <1>1, <1>2
<1>10. ASSUME NEW d \in Conn, NEW x, GoodIn(d, x)
       PROVE  GoodIn(d, x)'
  <2>1. x.cmd = "OPEN" => \A e \in Conn : host'[e].rid = x.a0 => e = d /\ host'[e].sent = 0
    <3> SUFFICES ASSUME x.cmd = "OPEN", NEW e \in Conn, host'[e].rid = x.a0
                 PROVE  e = d /\ host'[e].sent = 0
      BY Zenon
    <3>1. x.a0 # opens + 1
      BY Zenon, <1>9, <1>10 DEF GoodIn
    <3>2. host'[e] = host[e]
      BY Zenon, <1>6, <3>1
    <3> QED
      BY Zenon, <1>10, <3>2 DEF GoodIn
  <2> QED
    BY ZenonT(60), <1>0, <1>9, <1>10, <2>1 DEF GoodIn
<1>11. GoodIn(c, p)'
  <2>1. p.cmd # "WRTE"
    BY <1>3
  <2>2. \A d \in Conn : host'[d].rid = p.a0 => d = c /\ host'[d].sent = 0
    BY ZenonT(60), <1>3, <1>6, <1>8, <1>9
  <2>3. \A id \in Id : sock'[id].rid # p.a0
    BY ZenonT(60), <1>0, <1>3, <1>8, <1>9
  <2> QED
    BY ZenonT(60), <1>3, <1>9, <2>1, <2>2, <2>3 DEF GoodIn
<1>12. QueuesGood'
  <2>1. ASSUME NEW d \in Conn, NEW x \in Items(rx'[d]) \cup Items(toLoop'[d])
        PROVE  GoodIn(d, x)'
    <3>1. x \in Items(rx[d]) \cup Items(toLoop[d]) \/ (d = c /\ x = p)
      <4>1. CASE d = c
        BY ZenonT(60), <1>0, <1>5, <1>7, <4>1
      <4>2. CASE d # c
        BY Zenon, <1>0, <1>5, <4>2
      <4> QED
        BY Zenon, <4>1, <4>2
    <3> QED
      BY ZenonT(60), <1>10, <1>11, <1>i, <3>1 DEF QueuesGood
  <2>2. ASSUME NEW d \in Conn, NEW x \in Items(toInput'[d]) \cup Items(tx'[d])
        PROVE  GoodOut(x)'
    BY Zenon, <1>0, <1>i DEF QueuesGood, GoodOut
  <2> QED
    BY Zenon, <2>1, <2>2 DEF QueuesGood, Items
<1>13. \A d \in Conn : opens + 1 \notin Asked(d)
  <2> SUFFICES ASSUME NEW d \in Conn, opens + 1 \in Asked(d) PROVE FALSE
    BY Zenon
  <2>1. PICK x \in Items(rx[d]) \cup Items(toLoop[d]) : x.cmd = "OPEN" /\ x.a0 = opens + 1
    BY Zenon DEF Asked, OpensIn
  <2> QED
    BY Zenon, <1>9, <1>i, <2>1 DEF QueuesGood, GoodIn
<1>14. AskedOnce'
  <2>1. Once(rx'[c]) /\ OpensIn(rx'[c]) = OpensIn(rx[c]) \cup {opens + 1}
    <3>1. Once(rx[c]) /\ opens + 1 \notin OpensIn(rx[c])
      BY Zenon, <1>13, <1>i DEF AskedOnce, Asked
    <3>2. p \in Packets /\ rx[c] \in Seq(Packets) /\ p.cmd = "OPEN" /\ p.a0 \notin OpensIn(rx[c])
      BY Zenon, <1>3, <1>4, <3>1
    <3>3. /\ OpensIn(Append(rx[c], p)) = OpensIn(rx[c]) \cup {p.a0}
          /\ Once(rx[c]) => Once(Append(rx[c], p))
      BY Zenon, <3>2, AppendOpens
    <3> QED
      BY ZenonT(60), <1>3, <1>5, <3>1, <3>3
  <2>2. ASSUME NEW d \in Conn
        PROVE  /\ Once(rx'[d]) /\ Once(toLoop'[d]) /\ OpensIn(rx'[d]) \cap OpensIn(toLoop'[d]) = {}
               /\ Asked(d)' = Asked(d) \/ (d = c /\ Asked(d)' = Asked(d) \cup {opens + 1})
    <3>1. Asked(d)' = OpensIn(rx'[d]) \cup OpensIn(toLoop'[d])
      BY Zenon DEF Asked, OpensIn, Items
    <3>2. CASE d = c
      BY ZenonT(60), <1>0, <1>13, <1>i, <2>1, <3>1, <3>2 DEF AskedOnce, Asked
    <3>3. CASE d # c
      BY Zenon, <1>0, <1>5, <1>i, <3>1, <3>3 DEF AskedOnce, Asked
    <3> QED
      BY Zenon, <3>2, <3>3
  <2>3. \A d \in Conn : /\ Once(rx[d])' /\ Once(toLoop[d])'
                        /\ (OpensIn(rx[d]) \cap OpensIn(toLoop[d]))' = {}
    BY Zenon, <2>2 DEF Once, OpensIn, Items
  <2>4. ASSUME NEW d \in Conn, NEW e \in Conn, d # e
        PROVE  Asked(d)' \cap Asked(e)' = {}
    <3>1. Asked(d) \cap Asked(e) = {}
      BY Zenon, <1>i, <2>4 DEF AskedOnce
    <3> QED
      BY Zenon, <1>13, <2>2, <2>4, <3>1
  <2> QED
    BY Zenon, <2>3, <2>4 DEF AskedOnce
<1>15. StreamNames'
  <2>1. \A d \in Conn : (d = c /\ host'[d].rid = opens + 1) \/ (d # c /\ host'[d] = host[d])
    BY Zenon, <1>6
  <2>2. \A d \in Conn : /\ host'[d].rid <= opens'
                        /\ host'[d].pc \in {"open", "write", "result"} => host'[d].rid > 0
    BY Zenon, <1>8, <1>9, <1>i, <2>1 DEF StreamNames
  <2>3. \A d, e \in Conn : host'[d].rid = host'[e].rid /\ d # e => host'[d].rid = 0
    BY ZenonT(60), <1>8, <1>9, <1>i, <2>1 DEF StreamNames
  <2>4. /\ \A id \in Id : sock'[id].rid <= opens'
        /\ \A id, j \in Id : sock'[id].rid = sock'[j].rid /\ id # j => sock'[id].rid = 0
        /\ \A id \in Id, d \in Conn :
              sock'[id].rid = host'[d].rid => sock'[id].rid = 0 \/ sock'[id].peer \in {0, d}
    BY ZenonT(60), <1>0, <1>8, <1>9, <1>i, <2>1 DEF StreamNames
  <2> QED
    BY Zenon, <2>2, <2>3, <2>4 DEF StreamNames
<1>16. ASSUME NEW id \in Id, NEW m, NEW n, Chain(rx[c], id, m, n)
       PROVE  /\ Chain(rx'[c], id, m, n)
              /\ plugged[c] /\ host'[c].rid = sock[id].rid => host'[c].sent = n
  <2>1. Leads(p, id, n, n)
    BY <1>3 DEF Leads, ForSocket
  <2>2. n \in Nat
    BY Zenon, <1>4, <1>16, ChainFacts
  <2>3. Chain(rx'[c], id, m, n)
    BY ZenonT(60), <1>3, <1>4, <1>5, <1>16, <2>1, <2>2, ChainGrows
  <2> QED
    BY ZenonT(60), <1>6, <1>8, <1>9, <2>3
<1>17. \A id \in Id : \A m, n :
          /\ sock[id].st = "open" /\ sock[id].peer = c /\ Chain(rx[c], id, m, n)
          /\ plugged[c] /\ host[c].rid = sock[id].rid => host[c].sent = n
          => \E k : /\ Chain(rx'[c], id, m, k)
                    /\ plugged[c] /\ host'[c].rid = sock[id].rid => host'[c].sent = k
  BY Zenon, <1>16
<1>18. \A d \in Conn : d # c => rx'[d] = rx[d] /\ host'[d] = host[d]
  BY Zenon, <1>5, <1>6
<1> QED
  BY ZenonT(60), <1>12, <1>14, <1>15, <1>17, <1>18, HostHolds

(* A packet of data follows what the host has sent of the stream.          *)
LEMMA HostSendsStream ==
  ASSUME Typed, StreamInv, NEW c \in Conn, plugged[c], HostUnchanged, NEW id \in Id, id < nextId,
         sock[id].rid = host[c].rid, host[c].rid > 0, host[c].sent < Count, HostSends(c, id),
         \A d \in Conn : Items(tx'[d]) \subseteq Items(tx[d])
  PROVE  StreamInv'
<1> DEFINE a == host[c].sent
           n == IF a = 0 THEN 1 ELSE Smaller(a + PktLen, Count)
           ks == [i \in 1 .. n - a |-> a + i]
<1>p. PICK p : p = Wrte(host[c].rid, id, ks)
  BY Zenon
<1>t. host \in [Conn -> Hosts] /\ rx \in [Conn -> Seq(Packets)]
  BY Zenon DEF Typed, HostTyped, LinkTyped
<1>i. QueuesGood /\ AskedOnce /\ StreamNames
  BY Zenon DEF StreamInv
<1>0. toLoop' = toLoop /\ toInput' = toInput /\ sock' = sock /\ nextId' = nextId
  BY Zenon DEF HostUnchanged
<1>1. /\ rx' = [rx EXCEPT ![c] = @ \o <<p>>] /\ opens' = opens
      /\ host' = [host EXCEPT ![c].pc = "write", ![c].lid = id, ![c].sent = n]
  BY Zenon, <1>p DEF HostSends, ToDevice
<1>2. a \in Nat /\ a < Count /\ host[c] \in Hosts /\ host[c].rid \in 0 .. MaxOpens
  BY <1>t DEF Hosts
<1>3. n \in Nat /\ n - a \in Nat /\ n <= Count
  BY <1>2, Bounds DEF Smaller
<1>4. ks \in Seq(1 .. Count) /\ Len(ks) = n - a /\ From(ks, a)
  <2> HIDE DEF n, a
  <2> QED
    BY <1>2, <1>3, Bounds DEF From
<1>5. n = a + Len(ks)
  <2> HIDE DEF n, a, ks
  <2> QED
    BY <1>2, <1>3, <1>4
<1>6. id \in 0 .. MaxOpens
  BY DEF Id
<1> HIDE DEF ks, n, a
<1>7. p = [cmd |-> "WRTE", a0 |-> host[c].rid, a1 |-> id, data |-> ks]
  BY <1>p DEF Wrte, Pkt
<1>8. p \in Packets /\ p.cmd = "WRTE" /\ p.a0 = host[c].rid /\ p.a1 = id /\ p.data = ks
  BY SMTT(60), <1>2, <1>4, <1>6, <1>7 DEF Packets
<1>9. rx[c] \in Seq(Packets) /\ rx[c] \o <<p>> = Append(rx[c], p)
  BY <1>8, <1>t
<1>10. rx'[c] = Append(rx[c], p) /\ \A d \in Conn : d # c => rx'[d] = rx[d]
  BY ZenonT(60), <1>1, <1>9, <1>t
<1>11. /\ host'[c].rid = host[c].rid /\ host'[c].sent = n
       /\ \A d \in Conn : d # c => host'[d] = host[d]
  <2>1. /\ host'[c] = [host[c] EXCEPT !.pc = "write", !.lid = id, !.sent = n]
        /\ \A d \in Conn : d # c => host'[d] = host[d]
    BY <1>1, <1>t
  <2> QED
    BY <1>2, <2>1 DEF Hosts
<1>12. Items(Append(rx[c], p)) = Items(rx[c]) \cup {p}
  BY ZenonT(60), <1>8, <1>9, AppendItems
<1>13. host[c].rid # 0
  BY <1>2
<1>14. ASSUME NEW d \in Conn, NEW x, GoodIn(d, x)
       PROVE  GoodIn(d, x)'
  <2>1. x.cmd = "OPEN" => x.a0 # host[c].rid
    BY Zenon, <1>14 DEF GoodIn
  <2>2. x.cmd = "OPEN" => \A e \in Conn : host'[e].rid = x.a0 => e = d /\ host'[e].sent = 0
    BY ZenonT(60), <1>11, <1>14, <2>1 DEF GoodIn
  <2> QED
    BY ZenonT(60), <1>0, <1>1, <1>14, <2>2 DEF GoodIn
<1>15. GoodIn(c, p)'
  <2>1. p.cmd # "OPEN"
    BY <1>8
  <2>2. sock[id].peer \in {0, c}
    BY Zenon, <1>13, <1>i DEF StreamNames
  <2> QED
    BY ZenonT(60), <1>0, <1>8, <2>1, <2>2 DEF GoodIn
<1>16. QueuesGood'
  <2>1. ASSUME NEW d \in Conn, NEW x \in Items(rx'[d]) \cup Items(toLoop'[d])
        PROVE  GoodIn(d, x)'
    <3>1. x \in Items(rx[d]) \cup Items(toLoop[d]) \/ (d = c /\ x = p)
      <4>1. CASE d = c
        BY ZenonT(60), <1>0, <1>10, <1>12, <4>1
      <4>2. CASE d # c
        BY Zenon, <1>0, <1>10, <4>2
      <4> QED
        BY Zenon, <4>1, <4>2
    <3> QED
      BY ZenonT(60), <1>14, <1>15, <1>i, <3>1 DEF QueuesGood
  <2>2. ASSUME NEW d \in Conn, NEW x \in Items(toInput'[d]) \cup Items(tx'[d])
        PROVE  GoodOut(x)'
    BY Zenon, <1>0, <1>i DEF QueuesGood, GoodOut
  <2> QED
    BY Zenon, <2>1, <2>2 DEF QueuesGood, Items
<1>17. AskedOnce'
  <2>1. Once(rx'[c]) /\ OpensIn(rx'[c]) = OpensIn(rx[c])
    <3>1. p.cmd # "OPEN"
      BY <1>8
    <3> QED
      BY ZenonT(60), <1>8, <1>9, <1>10, <1>i, <3>1, AppendOpens DEF AskedOnce
  <2>2. ASSUME NEW d \in Conn
        PROVE  /\ Once(rx'[d]) /\ Once(toLoop'[d]) /\ OpensIn(rx'[d]) \cap OpensIn(toLoop'[d]) = {}
               /\ Asked(d)' = Asked(d)
    <3>1. Asked(d)' = OpensIn(rx'[d]) \cup OpensIn(toLoop'[d])
      BY Zenon DEF Asked, OpensIn, Items
    <3>2. OpensIn(rx'[d]) = OpensIn(rx[d]) /\ Once(rx'[d])
      BY Zenon, <1>10, <1>i, <2>1 DEF AskedOnce
    <3> QED
      BY Zenon, <1>0, <1>i, <3>1, <3>2 DEF AskedOnce, Asked
  <2>3. \A d \in Conn : /\ Once(rx[d])' /\ Once(toLoop[d])'
                        /\ (OpensIn(rx[d]) \cap OpensIn(toLoop[d]))' = {}
    BY Zenon, <2>2 DEF Once, OpensIn, Items
  <2>4. \A d, e \in Conn : d # e => Asked(d)' \cap Asked(e)' = {}
    BY Zenon, <1>i, <2>2 DEF AskedOnce
  <2> QED
    BY Zenon, <2>3, <2>4 DEF AskedOnce
<1>18. StreamNames'
  <2>1. \A d \in Conn : host'[d].rid = host[d].rid /\ (d # c => host'[d] = host[d])
    BY Zenon, <1>11
  <2>2. \A d \in Conn : host'[d].pc \in {"open", "write", "result"} => host'[d].rid > 0
    BY Zenon, <1>13, <1>i, <2>1 DEF StreamNames
  <2>3. \A d \in Conn : host'[d].rid <= opens
    BY Zenon, <1>i, <2>1 DEF StreamNames
  <2>5. ASSUME NEW d \in Conn, NEW e \in Conn, host'[d].rid = host'[e].rid, d # e
        PROVE  host'[d].rid = 0
    <3>1. host[d].rid = host[e].rid /\ host'[d].rid = host[d].rid
      BY Zenon, <2>1, <2>5
    <3> QED
      BY ZenonT(60), <1>i, <2>5, <3>1 DEF StreamNames
  <2>4. \A j \in Id, d \in Conn :
           sock[j].rid = host'[d].rid => sock[j].rid = 0 \/ sock[j].peer \in {0, d}
    BY Zenon, <1>i, <2>1 DEF StreamNames
  <2> QED
    BY ZenonT(60), <1>0, <1>1, <1>i, <2>2, <2>3, <2>4, <2>5 DEF StreamNames
<1>19. ASSUME NEW j \in Id, NEW m, NEW k, Chain(rx[c], j, m, k), sock[j].peer = c,
              plugged[c] /\ host[c].rid = sock[j].rid => host[c].sent = k
       PROVE  \E e : /\ Chain(rx'[c], j, m, e)
                     /\ plugged[c] /\ host'[c].rid = sock[j].rid => host'[c].sent = e
  <2>1. k \in Nat
    BY ZenonT(60), <1>9, <1>19, ChainFacts
  <2>2. CASE j # id
    <3>1. Leads(p, j, k, k)
      BY Zenon, <1>8, <2>2 DEF Leads, ForSocket
    <3>2. Chain(rx'[c], j, m, k)
      BY ZenonT(60), <1>8, <1>9, <1>10, <1>19, <2>1, <3>1, ChainGrows
    <3>3. sock[j].rid # host[c].rid
      BY ZenonT(60), <1>13, <1>i, <2>2 DEF StreamNames
    <3> QED
      BY ZenonT(60), <1>11, <3>2, <3>3
  <2>3. CASE j = id
    <3>1. k = a
      BY Zenon, <1>19, <2>3 DEF a
    <3>2. Leads(p, j, k, n)
      BY ZenonT(60), <1>4, <1>5, <1>8, <2>3, <3>1 DEF Leads, ForSocket
    <3>3. Chain(rx'[c], j, m, n)
      BY ZenonT(60), <1>3, <1>8, <1>9, <1>10, <1>19, <3>2, ChainGrows
    <3> QED
      BY Zenon, <1>11, <3>3
  <2> QED
    BY Zenon, <2>2, <2>3
<1>20. \A j \in Id : \A m, k :
          /\ sock[j].st = "open" /\ sock[j].peer = c /\ Chain(rx[c], j, m, k)
          /\ plugged[c] /\ host[c].rid = sock[j].rid => host[c].sent = k
          => \E e : /\ Chain(rx'[c], j, m, e)
                    /\ plugged[c] /\ host'[c].rid = sock[j].rid => host'[c].sent = e
  BY Zenon, <1>19
<1>21. \A d \in Conn : d # c => rx'[d] = rx[d] /\ host'[d] = host[d]
  BY Zenon, <1>10, <1>11
<1> QED
  BY ZenonT(60), <1>16, <1>17, <1>18, <1>20, <1>21, HostHolds

LEMMA HostReceiveStream ==
  ASSUME Typed, StreamInv, NEW c \in Conn, HostReceive(c)
  PROVE  StreamInv'
<1> DEFINE p == Head(tx[c])
           mine == p.a1 = host[c].rid /\ host[c].pc \in {"open", "write", "result"}
<1>t. /\ host \in [Conn -> Hosts] /\ rx \in [Conn -> Seq(Packets)] /\ tx \in [Conn -> Seq(Packets)]
      /\ QueuesGood /\ StreamNames
  BY Zenon DEF Typed, HostTyped, LinkTyped, StreamInv
<1>0. HostUnchanged /\ plugged[c] /\ tx[c] # << >> /\ tx' = [tx EXCEPT ![c] = Tail(@)]
  BY Zenon DEF HostReceive
<1>1. p \in Packets /\ p \in Items(tx[c]) /\ Items(Tail(tx[c])) \subseteq Items(tx[c])
  BY ZenonT(60), <1>0, <1>t, ItemsFacts, TailFacts
<1>2. GoodOut(p) /\ p.a0 \in 0 .. MaxOpens /\ p.a1 \in 0 .. MaxOpens
  BY Zenon, <1>1, <1>t DEF QueuesGood, Packets
<1>3. \A d \in Conn : Items(tx'[d]) \subseteq Items(tx[d])
  <2>1. ASSUME NEW d \in Conn
        PROVE  Items(tx'[d]) \subseteq Items(tx[d])
    <3>1. CASE d = c
      BY ZenonT(60), <1>0, <1>1, <1>t, <3>1
    <3>2. CASE d # c
      BY Zenon, <1>0, <1>t, <3>2
    <3> QED
      BY Zenon, <3>1, <3>2
  <2> QED
    BY Zenon, <2>1
<1>4. mine => host[c].rid > 0
  BY Zenon, <1>t DEF StreamNames
<1>5. rx[c] \in Seq(Packets) /\ rx = [rx EXCEPT ![c] = rx[c]]
  BY Zenon, <1>t
<1>6. SameStreams(rx[c], rx[c])
  BY Zenon, <1>5, PlainPackets
<1>7. "done" \notin {"open", "write", "result"}
  OBVIOUS
<1>8. \/ HostOpens(c)
      \/ p.cmd = "OKAY" /\ mine /\ host[c].sent < Count /\ HostSends(c, p.a0)
      \/ mine /\ host' = [host EXCEPT ![c].pc = "result"] /\ UNCHANGED <<rx, opens>>
      \/ /\ ToDevice(c, <<Pkt("OKAY", p.a1, p.a0), Pkt("CLSE", p.a1, p.a0)>>)
         /\ host' = [host EXCEPT ![c].pc = "done"] /\ UNCHANGED opens
      \/ host' = [host EXCEPT ![c].pc = "done"] /\ UNCHANGED <<rx, opens>>
      \/ UNCHANGED <<rx, host, opens>>
  BY Zenon DEF HostReceive, hosts
<1>9. CASE HostOpens(c)
  BY Zenon, <1>0, <1>3, <1>9, HostOpensStream
<1>10. CASE p.cmd = "OKAY" /\ mine /\ host[c].sent < Count /\ HostSends(c, p.a0)
  <2>1. PICK id \in Id : id = p.a0
    BY Zenon, <1>2, <1>10 DEF GoodOut
  <2>2. id < nextId /\ sock[id].rid = host[c].rid
    BY Zenon, <1>2, <1>10, <2>1 DEF GoodOut
  <2>3. HostSends(c, id) /\ host[c].sent < Count
    BY Zenon, <1>10, <2>1
  <2> QED
    BY ZenonT(60), <1>0, <1>3, <1>4, <1>10, <2>2, <2>3, HostSendsStream
<1> HIDE DEF p, mine
<1>11. CASE mine /\ host' = [host EXCEPT ![c].pc = "result"] /\ UNCHANGED <<rx, opens>>
  BY ZenonT(60), <1>0, <1>3, <1>4, <1>5, <1>6, <1>11, HostMovesStream
<1>12. CASE /\ ToDevice(c, <<Pkt("OKAY", p.a1, p.a0), Pkt("CLSE", p.a1, p.a0)>>)
            /\ host' = [host EXCEPT ![c].pc = "done"] /\ UNCHANGED opens
  <2> DEFINE x == Pkt("OKAY", p.a1, p.a0)
             y == Pkt("CLSE", p.a1, p.a0)
  <2>1. x \in Packets /\ x.cmd = "OKAY" /\ y \in Packets /\ y.cmd = "CLSE"
    BY <1>2, PacketTypes
  <2>2. rx' = [rx EXCEPT ![c] = rx[c] \o <<x, y>>]
    BY Zenon, <1>12, <1>t DEF ToDevice
  <2> HIDE DEF x, y
  <2>3. Plain(x) /\ Plain(y)
    BY <2>1 DEF Plain
  <2>4. SameStreams(rx[c], rx[c] \o <<x, y>>)
    BY ZenonT(60), <1>5, <2>1, <2>3, PlainPackets
  <2> QED
    BY ZenonT(60), <1>0, <1>3, <1>7, <1>12, <2>2, <2>4, HostMovesStream
<1>13. CASE host' = [host EXCEPT ![c].pc = "done"] /\ UNCHANGED <<rx, opens>>
  BY ZenonT(60), <1>0, <1>3, <1>5, <1>6, <1>7, <1>13, HostMovesStream
<1>14. CASE UNCHANGED <<rx, host, opens>>
  <2>1. host = [host EXCEPT ![c].pc = host[c].pc]
    BY Zenon, <1>t DEF Hosts
  <2>2. host' = [host EXCEPT ![c].pc = host[c].pc] /\ rx' = [rx EXCEPT ![c] = rx[c]] /\ opens' = opens
    BY Zenon, <1>5, <1>14, <2>1
  <2>3. host[c].pc \in {"open", "write", "result"} => host[c].rid > 0
    BY Zenon, <1>t DEF StreamNames
  <2> QED
    BY ZenonT(60), <1>0, <1>3, <1>6, <2>2, <2>3, HostMovesStream
<1> QED
  BY ZenonT(60), <1>8, <1>9, <1>10, <1>11, <1>12, <1>13, <1>14

LEMMA HostStream ==
  ASSUME AdbInv, StreamInv, NEW c \in Conn,
         HostConnect(c) \/ HostReceive(c) \/ HostAgain(c) \/ HostInterrupt(c) \/ Unplug(c)
  PROVE  StreamInv'
<1>t. /\ Typed /\ rx \in [Conn -> Seq(Packets)] /\ tx \in [Conn -> Seq(Packets)]
      /\ host[c].rid \in 0 .. MaxOpens /\ host[c].lid \in 0 .. MaxOpens /\ plugged \in [Conn -> BOOLEAN]
  BY SMTT(60) DEF AdbInv, Typed, HostTyped, LinkTyped, Hosts, StreamInv, SvcTyped
<1>1. CASE HostReceive(c)
  BY Zenon, <1>1, <1>t, HostReceiveStream
<1>2. CASE HostConnect(c) \/ HostAgain(c) \/ HostInterrupt(c)
  <2> DEFINE x == Pkt("CNXN", 0, 0)
             y == Pkt("CLSE", host[c].rid, host[c].lid)
  <2>1. HostUnchanged /\ UNCHANGED tx
    BY Zenon, <1>2 DEF HostConnect, HostAgain, HostInterrupt
  <2>2. \A d \in Conn : Items(tx'[d]) \subseteq Items(tx[d])
    BY Zenon, <2>1
  <2>3. \/ HostOpens(c)
        \/ ToDevice(c, <<x>>) /\ host' = [host EXCEPT ![c].pc = "cnxn"] /\ opens' = opens
        \/ ToDevice(c, <<y>>) /\ host' = [host EXCEPT ![c].pc = "done"] /\ opens' = opens
    BY ZenonT(60), <1>2 DEF HostConnect, HostAgain, HostInterrupt
  <2>4. x \in Packets /\ x.cmd = "CNXN" /\ y \in Packets /\ y.cmd = "CLSE"
    BY SMTT(60), <1>t, SeqNone, PacketTypes
  <2> HIDE DEF x, y
  <2>5. Plain(x) /\ Plain(y)
    BY <2>4 DEF Plain
  <2>6. \A s \in {"cnxn", "done"} : s \notin {"open", "write", "result"}
    OBVIOUS
  <2>7. ASSUME NEW z \in {x, y}, ToDevice(c, <<z>>)
        PROVE  SameStreams(rx[c], rx[c] \o <<z>>) /\ rx' = [rx EXCEPT ![c] = rx[c] \o <<z>>]
    <3>1. z \in Packets /\ Plain(z) /\ rx[c] \in Seq(Packets)
      BY ZenonT(60), <1>t, <2>4, <2>5
    <3> QED
      BY Zenon, <2>7, <3>1, PlainPackets DEF ToDevice
  <2> QED
    BY ZenonT(60), <1>t, <2>1, <2>2, <2>3, <2>6, <2>7, HostOpensStream, HostMovesStream
<1>3. CASE Unplug(c)
  <2>1. /\ UNCHANGED <<tr, outPc, inPc, toLoop, toInput, sock, chan>>
        /\ UNCHANGED <<nextId, svc, file, overlap, exited, host, opens>>
        /\ plugged' = [plugged EXCEPT ![c] = FALSE]
        /\ rx' = [rx EXCEPT ![c] = << >>] /\ tx' = [tx EXCEPT ![c] = << >>]
    BY <1>3 DEF Unplug, threads, service, hosts
  <2>2. plugged' \in [Conn -> BOOLEAN] /\ rx'[c] = << >> /\ tx'[c] = << >> /\ ~plugged'[c]
    BY <1>t, <2>1
  <2>3. ASSUME NEW d \in Conn
        PROVE  Moved(d) /\ SentGood(d) /\ \A id : Carried(d, id)
    <3>1. CASE d # c
      <4>1. plugged'[d] = plugged[d] /\ rx'[d] = rx[d] /\ tx'[d] = tx[d]
        BY Zenon, <1>t, <2>1, <3>1
      <4> QED
        BY ZenonT(60), <2>1, <4>1, QueuesStay, SentStays DEF Reads
    <3>2. CASE d = c
      <4>1. Moved(c) /\ \A id : Carried(c, id)
        BY Zenon, <2>1, <2>2 DEF Moved, Carried, Reads
      <4>2. Items(<< >>) = {}
        BY DEF Items
      <4>3. SentGood(c)
        BY ZenonT(60), <2>1, <2>2, <4>2 DEF SentGood, StreamInv, QueuesGood
      <4> QED
        BY ZenonT(60), <3>2, <4>1, <4>3
    <3> QED
      BY Zenon, <3>1, <3>2
  <2>4. \A d \in Conn : Kicked(d)' /\ Stays(d)
    BY ZenonT(60), <2>1, KickStays, TransportStays DEF FirstKick
  <2>5. \A id \in Id : SameHeld(id)
    BY Zenon, <2>1, SocksStay
  <2> QED
    BY ZenonT(60), <1>t, <2>1, <2>2, <2>3, <2>4, <2>5, QuietSteps
<1> QED
  BY ZenonT(60), <1>1, <1>2, <1>3

-----------------------------------------------------------------------------
(* StreamInv holds after every step.                                       *)
LEMMA NextStream ==
  ASSUME AdbInv, StreamInv, [Next]_vars
  PROVE  StreamInv'
<1>0. Typed
  BY Zenon DEF AdbInv
<1>1. CASE Select
  <2>1. UNCHANGED <<plugged, rx, tx, toLoop, toInput, sock, nextId, chan, svc, file, overlap, exited,
                    host, opens, tr, outPc, inPc>>
    BY <1>1 DEF Select, link, threads, service, hosts
  <2> QED
    BY ZenonT(60), <1>0, <2>1, SameStream
<1>2. CASE UNCHANGED vars
  <2>1. UNCHANGED <<plugged, rx, tx, toLoop, toInput, sock, nextId, chan, svc, file, overlap, exited,
                    host, opens, tr, outPc, inPc>>
    BY <1>2 DEF vars
  <2> QED
    BY Zenon, <1>0, <2>1, SameStream
<1>3. CASE Loop
  BY ZenonT(60), <1>1, <1>3, RegistrationStream, HandlePacketStream, SocketEventStream DEF Loop
<1>4. ASSUME NEW c \in Conn, OutputThread(c) \/ InputThread(c) \/ KickOrUnref(c)
      PROVE  StreamInv'
  BY ZenonT(60), <1>4, OutputThreadStream, InputThreadStream, EndOfThreadStream
<1>5. CASE Undisturbed
  BY ZenonT(60), <1>3, <1>4, <1>5, UsbThreadStream, ServiceStream, HostStream DEF Undisturbed
<1> QED
  BY Zenon, <1>2, <1>5, HostStream DEF Next

(* minadbd exits only when sideload_service() has read all of its package. *)
(* Whatever the threads, the cables and the hosts do meanwhile, and however *)
(* often a connection is lost and opened again, the file it leaves then is *)
(* that package: every chunk of it, once and in order, from one stream,    *)
(* unless two services wrote the file at once.                             *)
THEOREM PackageArrivesWhole == Spec => []CompletePackage
<1>1. Init => StreamInv
  BY StreamInit
<1>2. AdbInv /\ StreamInv /\ [Next]_vars => StreamInv'
  BY NextStream
<1>3. StreamInv => CompletePackage
  BY StreamComplete
<1> QED
  BY <1>1, <1>2, <1>3, AlwaysAdbInv, PTL DEF Spec
=============================================================================
