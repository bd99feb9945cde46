-------------------------- MODULE VoldClientProofs --------------------------
(***************************************************************************)
(* Proofs about the client of the volume daemon, for any volumes, threads, *)
(* disks coming and going and deaths of vold: no thread returns from       *)
(* vold_command before vold has answered it, and the list of volumes is    *)
(* not stale once every line has been read.                                *)
(***************************************************************************)
EXTENDS VoldClient, FiniteSetTheorems, TLAPS

Waits == {"command", "unmountwait"}

IsReply(l) == l.type = "reply"
IsItem(l) == l.type = "item"
RepliesIn(s) == {i \in 1 .. Len(s) : IsReply(s[i])}
NumReplies(s) == Cardinality(RepliesIn(s))

(* A command but "list" names a volume, and so does a line but a reply.    *)
GoodRequests == {r \in Requests : r.op # "list" => r.vol \in Volumes}
GoodLines == {l \in Lines : IF IsReply(l) THEN l.state \in Codes
                            ELSE l.vol \in Volumes /\ l.state \in States}

Typed == TypeOK /\ toVold \in Seq(GoodRequests) /\ fromVold \in Seq(GoodLines)

(* Every command that is sent or answered is counted in cmd_inflight.      *)
Counted == inflight >= Len(toVold) + NumReplies(fromVold)

(* Who sleeps on "completion", or was signalled, is in vold_command.       *)
Sleepers ==
    /\ waiting \cap woken = {}
    /\ \A t \in waiting \cup woken : pc[t] \in Waits

(* A command and its reply belong to a thread that is in vold_command.     *)
Pending ==
    /\ \A i \in 1 .. Len(toVold) : toVold[i].by \in Threads => pc[toVold[i].by] \in Waits
    /\ \A i \in 1 .. Len(fromVold) :
           IsReply(fromVold[i]) /\ fromVold[i].by \in Threads => pc[fromVold[i].by] \in Waits

(* Only main runs before vold_set_automount(1).                            *)
Starting ==
    /\ ~automount => /\ \A t \in Threads \ {Main} : pc[t] = "start"
                     /\ pc[Main] \in {"start", "command", "returned"}
                     /\ inserted = NoVolume
    /\ automount => \A t \in Threads : pc[t] # "start"

CommandInv == Typed /\ Counted /\ Sleepers /\ Pending /\ Starting

-----------------------------------------------------------------------------
(* The replies among some lines are finitely many.                         *)
LEMMA RepliesFinite ==
  ASSUME NEW S, NEW s \in Seq(S)
  PROVE  IsFiniteSet(RepliesIn(s)) /\ NumReplies(s) \in Nat
<1>1. IsFiniteSet(1 .. Len(s))
  BY FS_Interval
<1>2. RepliesIn(s) \in SUBSET (1 .. Len(s))
  BY DEF RepliesIn
<1>3. IsFiniteSet(RepliesIn(s))
  BY <1>1, <1>2, FS_Subset
<1> QED
  BY <1>3, FS_CardinalityType DEF NumReplies

(* When none is counted, none is there.                                    *)
LEMMA NoReplies ==
  ASSUME NEW S, NEW s \in Seq(S), NumReplies(s) = 0
  PROVE  RepliesIn(s) = {}
  BY RepliesFinite, FS_EmptySet DEF NumReplies

(* Lines without a reply add none.                                         *)
LEMMA RepliesConcat ==
  ASSUME NEW S, NEW s \in Seq(S), NEW m \in Seq(S),
         \A i \in 1 .. Len(m) : ~IsReply(m[i])
  PROVE  NumReplies(s \o m) = NumReplies(s)
<1>1. Len(s \o m) = Len(s) + Len(m) /\ Len(s) \in Nat /\ Len(m) \in Nat
  OBVIOUS
<1>2. \A i \in 1 .. Len(s \o m) :
          (s \o m)[i] = IF i <= Len(s) THEN s[i] ELSE m[i - Len(s)]
  OBVIOUS
<1>3. RepliesIn(s \o m) \subseteq RepliesIn(s)
  <2> SUFFICES ASSUME NEW i \in 1 .. Len(s \o m), IsReply((s \o m)[i])
               PROVE  i \in RepliesIn(s)
    BY DEF RepliesIn
  <2>1. CASE i <= Len(s)
    BY <1>1, <1>2, <2>1 DEF RepliesIn
  <2>2. CASE i > Len(s)
    BY <1>1, <1>2, <2>2
  <2> QED
    BY <1>1, <2>1, <2>2
<1>4. RepliesIn(s) \subseteq RepliesIn(s \o m)
  BY <1>1, <1>2 DEF RepliesIn
<1>5. RepliesIn(s \o m) = RepliesIn(s)
  BY Zenon, <1>3, <1>4
<1> QED
  BY <1>5 DEF NumReplies

(* A reply at the end is one more.                                         *)
LEMMA RepliesAppend ==
  ASSUME NEW S, NEW s \in Seq(S), NEW e \in S
  PROVE  NumReplies(Append(s, e)) = NumReplies(s) + (IF IsReply(e) THEN 1 ELSE 0)
<1>1. IsFiniteSet(RepliesIn(s)) /\ NumReplies(s) \in Nat
  BY RepliesFinite
<1>2. Len(s) + 1 \notin RepliesIn(s)
  BY DEF RepliesIn
<1>3. Len(Append(s, e)) = Len(s) + 1 /\ Append(s, e)[Len(s) + 1] = e
      /\ \A i \in 1 .. Len(s) : Append(s, e)[i] = s[i]
  OBVIOUS
<1>4. CASE IsReply(e)
  <2>1. RepliesIn(Append(s, e)) = RepliesIn(s) \cup {Len(s) + 1}
    BY <1>3, <1>4 DEF RepliesIn
  <2> QED
    BY Zenon, <1>1, <1>2, <1>4, <2>1, FS_AddElement DEF NumReplies
<1>5. CASE ~IsReply(e)
  <2>1. RepliesIn(Append(s, e)) = RepliesIn(s)
    BY <1>3, <1>5 DEF RepliesIn
  <2> QED
    BY <1>1, <1>5, <2>1 DEF NumReplies
<1> QED
  BY <1>4, <1>5

(* A reply that is read is one less.                                       *)
LEMMA RepliesTail ==
  ASSUME NEW S, NEW s \in Seq(S), s # << >>
  PROVE  NumReplies(Tail(s)) = NumReplies(s) - (IF IsReply(Head(s)) THEN 1 ELSE 0)
<1> DEFINE R == RepliesIn(s) \ {1}
           f == [i \in RepliesIn(Tail(s)) |-> i + 1]
<1>1. IsFiniteSet(RepliesIn(s)) /\ NumReplies(s) \in Nat
  BY RepliesFinite
<1>2. /\ Len(s) \in Nat \ {0} /\ Len(Tail(s)) = Len(s) - 1 /\ Head(s) = s[1]
      /\ \A i \in 1 .. Len(Tail(s)) : Tail(s)[i] = s[i + 1]
  OBVIOUS
<1>3. Tail(s) \in Seq(S)
  OBVIOUS
<1>4. IsFiniteSet(RepliesIn(Tail(s)))
  BY Zenon, <1>3, RepliesFinite
<1>5. \A i \in RepliesIn(Tail(s)) : i \in Int /\ i + 1 \in R
  BY <1>2 DEF RepliesIn
<1>6. \A j \in R : j \in Int /\ j - 1 \in RepliesIn(Tail(s))
  BY <1>2 DEF RepliesIn
<1>7. f \in [RepliesIn(Tail(s)) -> R] /\ \A a, b \in RepliesIn(Tail(s)) : f[a] = f[b] => a = b
  BY <1>5
<1>8. \A j \in R : \E i \in RepliesIn(Tail(s)) : f[i] = j
  <2> SUFFICES ASSUME NEW j \in R PROVE \E i \in RepliesIn(Tail(s)) : f[i] = j
    OBVIOUS
  <2>1. j - 1 \in RepliesIn(Tail(s)) /\ f[j - 1] = j
    BY <1>6
  <2> QED
    BY <2>1
<1> HIDE DEF f, R
<1>9. f \in Bijection(RepliesIn(Tail(s)), R)
  BY <1>7, <1>8 DEF Bijection, Injection, Surjection, IsInjective
<1>10. Cardinality(R) = Cardinality(RepliesIn(Tail(s)))
  BY <1>4, <1>9, FS_Bijection DEF ExistsBijection
<1>11. Cardinality(R) = IF 1 \in RepliesIn(s) THEN NumReplies(s) - 1 ELSE NumReplies(s)
  BY Zenon, <1>1, FS_RemoveElement DEF R, NumReplies
<1>12. 1 \in RepliesIn(s) <=> IsReply(Head(s))
  BY <1>2 DEF RepliesIn
<1> QED
  BY <1>1, <1>10, <1>11, <1>12 DEF NumReplies

(* What vold says in one go is appended line by line.                      *)
LEMMA AppendLast ==
  ASSUME NEW S, NEW s \in Seq(S), NEW m \in Seq(S), NEW e \in S
  PROVE  s \o m \o <<e>> = Append(s \o m, e)
  OBVIOUS

-----------------------------------------------------------------------------
(* The steps, by what they do to the sockets and the sleepers.             *)

(* A thread writes a command and goes to sleep.                            *)
Sends(t, r) ==
    /\ pc[t] \notin Waits /\ r.by = t /\ (r.op = "list" <=> pc[t] = "start")
    /\ pc[t] = "start" => t = Main
    /\ pc[t] # "start" => automount
    /\ toVold' = IF link THEN Append(toVold, r) ELSE toVold
    /\ inflight' = inflight + 1 /\ waiting' = waiting \cup {t}
    /\ pc' = [pc EXCEPT ![t] = "command"] \/
       (automount /\ pc' = [pc EXCEPT ![t] = "unmountwait"])
    /\ UNCHANGED <<real, link, fromVold, known, listing, woken, automount, inserted>>

(* A thread goes on without a command.                                     *)
Moves(t) ==
    /\ automount /\ pc[t] \notin Waits
    /\ pc' = pc \/ \E at \in {"returned", "unmounting", "unmounted"} :
                       pc' = [pc EXCEPT ![t] = at]
    /\ UNCHANGED <<real, link, toVold, fromVold, known, listing, inflight, waiting, woken,
                   automount, inserted>>

(* The monitor reads a line, and signals one sleeper if it is a reply.     *)
Reads ==
    /\ fromVold # << >> /\ fromVold' = Tail(fromVold)
    /\ inflight' = inflight - (IF IsReply(Line) THEN 1 ELSE 0)
    /\ waiting' \cup woken' = waiting \cup woken
    /\ waiting \cap woken = {} => waiting' \cap woken' = {}
    /\ UNCHANGED <<real, link, toVold, pc, automount>>

(* What the line makes of the client's list.                               *)
Learns ==
    \/ IsReply(Line) /\ UNCHANGED known
    \/ /\ IsItem(Line) /\ ~IsReply(Line) /\ listing'
       /\ known' = [ListCleared EXCEPT ![Line.vol] = Line.state]
    \/ /\ ~IsReply(Line) /\ ~IsItem(Line) /\ UNCHANGED listing
       /\ SetVolumeState(Line.vol, Line.state)

(* The last line about a volume says what its state is now; the others     *)
(* keep theirs.                                                            *)
Tells(m) ==
    \A v \in Volumes :
        /\ \A i \in 1 .. Len(m) :
               m[i].vol = v /\ (\A j \in 1 .. Len(m) : m[j].vol = v => j <= i)
                   => m[i].state = real'[v]
        /\ (\A i \in 1 .. Len(m) : m[i].vol # v) => real'[v] = real[v]

(* vold answers a command.                                                 *)
Answers(m, l) ==
    /\ link /\ toVold # << >> /\ toVold' = Tail(toVold)
    /\ fromVold' = Append(fromVold \o m, l)
    /\ Tells(m) /\ \A i \in 1 .. Len(m) : ~IsReply(m[i])
    /\ IsReply(l) /\ l.by = Head(toVold).by
    /\ UNCHANGED <<link, known, listing, inflight, waiting, woken, pc, automount, inserted>>

(* The answer to a list has an item for each volume, any other has none.   *)
Lists(m) ==
    IF Head(toVold).op = "list"
      THEN /\ \A i \in 1 .. Len(m) : IsItem(m[i])
           /\ \A v \in Volumes : \E i \in 1 .. Len(m) : m[i].vol = v
      ELSE \A i \in 1 .. Len(m) : ~IsItem(m[i])

(* vold announces a disk.                                                  *)
Announces(m) ==
    /\ fromVold' = fromVold \o m
    /\ Tells(m) /\ \A i \in 1 .. Len(m) : ~IsReply(m[i]) /\ ~IsItem(m[i])
    /\ UNCHANGED <<toVold, link, known, listing, inflight, waiting, woken, pc, automount,
                   inserted>>

LEMMA UnmountNextSteps ==
  ASSUME CommandInv, NEW t \in Threads, UnmountNext(t)
  PROVE  Moves(t) \/ \E r \in GoodRequests : Sends(t, r)
<1>1. PICK v \in left[t] :
          IF known[v] = "Mounted" THEN SendAndWait("unmount", v, t, "unmountwait")
          ELSE UNCHANGED <<toVold, inflight, waiting, pc, reply, ret>>
  BY DEF UnmountNext
<1>2. v \in Volumes
  BY DEF CommandInv, Typed, TypeOK
<1>3. automount
  BY Zenon DEF UnmountNext, CommandInv, Starting, Typed, TypeOK
<1>4. [op |-> "unmount", vol |-> v, by |-> t] \in GoodRequests
  BY <1>2 DEF GoodRequests, Requests, Senders
<1>5. CASE known[v] = "Mounted"
  <2>1. Sends(t, [op |-> "unmount", vol |-> v, by |-> t])
    BY Zenon, <1>1, <1>3, <1>5 DEF UnmountNext, SendAndWait, Write, CountInflight, Sends, Rest, daemon, Waits
  <2> QED
    BY <1>4, <2>1
<1>6. CASE known[v] # "Mounted"
  BY Zenon, <1>1, <1>3, <1>6 DEF UnmountNext, Moves, Rest, daemon, Waits
<1> QED
  BY <1>5, <1>6

LEMMA MainOpSteps ==
  ASSUME CommandInv, MainOp
  PROVE  Moves(Main) \/ \E r \in GoodRequests : Sends(Main, r)
<1> USE DEF NewOp, Return, SendAndWait, Write, CountInflight, Sends, Moves, Rest, daemon, Waits
<1>1. PICK v \in Volumes : MountVolume(v) \/ UnmountVolume(v) \/ FormatVolume(v)
  BY DEF MainOp
<1>2. \A op \in {"mount", "unmount", "format"} :
          [op |-> op, vol |-> v, by |-> Main] \in GoodRequests
  BY ThreadsAssumption DEF GoodRequests, Requests, Senders
<1>3. CASE MountVolume(v)
  <2>1. Moves(Main) \/ Sends(Main, [op |-> "mount", vol |-> v, by |-> Main])
    BY <1>3 DEF MountVolume
  <2> QED
    BY <1>2, <2>1
<1>4. CASE UnmountVolume(v)
  <2>1. Moves(Main) \/ Sends(Main, [op |-> "unmount", vol |-> v, by |-> Main])
    BY <1>4 DEF UnmountVolume
  <2> QED
    BY <1>2, <2>1
<1>5. CASE FormatVolume(v)
  <2>1. Sends(Main, [op |-> "format", vol |-> v, by |-> Main])
    BY <1>5 DEF FormatVolume
  <2> QED
    BY <1>2, <2>1
<1> QED
  BY <1>1, <1>3, <1>4, <1>5

LEMMA UpdateVolumesSteps ==
  ASSUME CommandInv, UpdateVolumes
  PROVE  \E r \in GoodRequests : Sends(Main, r)
<1>1. [op |-> "list", vol |-> NoVolume, by |-> Main] \in GoodRequests
  BY ThreadsAssumption DEF GoodRequests, Requests, Senders
<1>2. Sends(Main, [op |-> "list", vol |-> NoVolume, by |-> Main])
  BY DEF UpdateVolumes, SendAndWait, Write, CountInflight, Sends, Rest, daemon, Waits
<1> QED
  BY <1>1, <1>2

(* A thread's step outside vold_command.                                   *)
LEMMA ThreadSteps ==
  ASSUME CommandInv, NEW t \in Threads, UnmountAll(t) \/ UnmountedAll(t)
  PROVE  Moves(t)
<1>1. automount
  BY DEF UnmountAll, UnmountedAll, CommandInv, Starting, Typed, TypeOK
<1> QED
  BY Zenon, <1>1 DEF UnmountAll, UnmountedAll, Moves, Rest, daemon, Waits

LEMMA MonitorSteps ==
  ASSUME CommandInv,
         \/ HandleResult \/ HandleVolumeList \/ HandleVolumeStateChange
         \/ HandleVolumeRemoved \/ HandleVolumeInserted
  PROVE  Reads /\ Learns
<1>1. inflight \in Nat
  BY DEF CommandInv, Typed, TypeOK
<1>2. CASE HandleResult
  BY Zenon, <1>2 DEF HandleResult, Read, Signal, Reads, Learns, daemon, IsReply
<1>3. CASE HandleVolumeList \/ HandleVolumeStateChange
           \/ HandleVolumeRemoved \/ HandleVolumeInserted
  BY <1>1, <1>3
     DEF HandleVolumeList, HandleVolumeStateChange, HandleVolumeRemoved,
         HandleVolumeInserted, Read, Reads, Learns, daemon, threads, IsReply, IsItem
<1> QED
  BY <1>2, <1>3

-----------------------------------------------------------------------------
(* What vold makes of a command: it fails, or changes one volume and says  *)
(* so, and its last line is the reply.                                     *)
LEMMA OutcomeLines ==
  ASSUME Typed, NEW r \in GoodRequests, r.op # "list", NEW o \in Outcomes(r)
  PROVE  \E m \in Seq(GoodLines), l \in GoodLines :
             /\ o.said = m \o <<l>> /\ IsReply(l) /\ l.by = r.by
             /\ \A i \in 1 .. Len(m) : ~IsReply(m[i]) /\ ~IsItem(m[i])
             /\ \/ m = << >> /\ o.to = real
                \/ \E v \in Volumes, s \in States :
                     /\ o.to = [real EXCEPT ![v] = s]
                     /\ m = <<Changed(v, "Busy"), Changed(v, s)>>
<1>1. r.vol \in Volumes /\ r.by \in Senders
  BY DEF GoodRequests, Requests
<1>2. \A code \in Codes : Reply(code, r.by) \in GoodLines /\ IsReply(Reply(code, r.by))
                          /\ Reply(code, r.by).by = r.by
  BY <1>1 DEF Reply, GoodLines, Lines, IsReply
<1>3. \A v \in Volumes, s \in States :
          Changed(v, s) \in GoodLines /\ ~IsReply(Changed(v, s)) /\ ~IsItem(Changed(v, s))
  BY DEF Changed, GoodLines, Lines, IsReply, IsItem, Senders
<1>4. CASE \E code \in Codes : o = [to |-> real, said |-> <<Reply(code, r.by)>>]
  <2>1. PICK code \in Codes : o = [to |-> real, said |-> <<Reply(code, r.by)>>]
    BY <1>4
  <2> DEFINE m == << >>
  <2>2. o.said = m \o <<Reply(code, r.by)>> /\ o.to = real
    BY <2>1
  <2>3. m \in Seq(GoodLines) /\ m = << >> /\ \A i \in 1 .. Len(m) : FALSE
    OBVIOUS
  <2> HIDE DEF m
  <2> QED
    BY Zenon, <1>2, <2>2, <2>3
<1>5. CASE \E s \in States :
             o = [to |-> [real EXCEPT ![r.vol] = s],
                  said |-> <<Changed(r.vol, "Busy"), Changed(r.vol, s), Reply("ok", r.by)>>]
  <2>1. PICK s \in States :
             o = [to |-> [real EXCEPT ![r.vol] = s],
                  said |-> <<Changed(r.vol, "Busy"), Changed(r.vol, s), Reply("ok", r.by)>>]
    BY <1>5
  <2> DEFINE m == <<Changed(r.vol, "Busy"), Changed(r.vol, s)>>
  <2>2. o.said = m \o <<Reply("ok", r.by)>> /\ o.to = [real EXCEPT ![r.vol] = s]
    BY <2>1
  <2>3. "Busy" \in States
    BY DEF States
  <2>4. m \in Seq(GoodLines) /\ \A i \in 1 .. Len(m) : ~IsReply(m[i]) /\ ~IsItem(m[i])
    BY <1>1, <1>3, <2>3
  <2>5. Reply("ok", r.by) \in GoodLines /\ IsReply(Reply("ok", r.by))
        /\ Reply("ok", r.by).by = r.by
    BY <1>2 DEF Codes
  <2> HIDE DEF m
  <2>6. m = <<Changed(r.vol, "Busy"), Changed(r.vol, s)>>
    BY DEF m
  <2> QED
    BY Zenon, <1>1, <2>2, <2>4, <2>5, <2>6
<1>6. QED
  BY Zenon, <1>4, <1>5 DEF Outcomes, Codes, States

LEMMA ServeSteps ==
  ASSUME CommandInv, VoldServes
  PROVE  /\ real' \in [Volumes -> States]
         /\ \E m \in Seq(GoodLines), l \in GoodLines :
                Answers(m, l) /\ \A i \in 1 .. Len(m) : ~IsItem(m[i])
<1>1. Typed /\ real \in [Volumes -> States] /\ fromVold \in Seq(GoodLines)
      /\ toVold \in Seq(GoodRequests)
  BY DEF CommandInv, Typed, TypeOK
<1>2. Head(toVold) \in GoodRequests /\ Head(toVold).op # "list"
  BY <1>1 DEF VoldServes
<1>3. PICK o \in Outcomes(Head(toVold)) : real' = o.to /\ fromVold' = fromVold \o o.said
  BY DEF VoldServes
<1>4. PICK m \in Seq(GoodLines), l \in GoodLines :
             /\ o.said = m \o <<l>> /\ IsReply(l) /\ l.by = Head(toVold).by
             /\ \A i \in 1 .. Len(m) : ~IsReply(m[i]) /\ ~IsItem(m[i])
             /\ \/ m = << >> /\ o.to = real
                \/ \E v \in Volumes, s \in States :
                     /\ o.to = [real EXCEPT ![v] = s]
                     /\ m = <<Changed(v, "Busy"), Changed(v, s)>>
  BY Zenon, <1>1, <1>2, OutcomeLines
<1>5. fromVold' = Append(fromVold \o m, l)
  <2>1. fromVold \o (m \o <<l>>) = fromVold \o m \o <<l>>
    BY <1>1
  <2>2. fromVold \o m \o <<l>> = Append(fromVold \o m, l)
    BY <1>1, AppendLast
  <2>3. fromVold' = fromVold \o (m \o <<l>>)
    BY <1>3, <1>4
  <2> QED
    BY Zenon, <2>1, <2>2, <2>3
<1>6. Tells(m) /\ real' \in [Volumes -> States]
  <2>1. CASE m = << >> /\ o.to = real
    BY <1>1, <1>3, <2>1 DEF Tells
  <2>2. ASSUME NEW v \in Volumes, NEW s \in States,
               o.to = [real EXCEPT ![v] = s],
               m = <<Changed(v, "Busy"), Changed(v, s)>>
        PROVE  Tells(m) /\ real' \in [Volumes -> States]
    <3>1. Len(m) = 2 /\ m[1].vol = v /\ m[2].vol = v /\ m[2].state = s
      BY <2>2 DEF Changed
    <3>2. real' = [real EXCEPT ![v] = s]
      BY Zenon, <1>3, <2>2
    <3> QED
      BY <1>1, <3>1, <3>2 DEF Tells
  <2> QED
    BY Zenon, <1>4, <2>1, <2>2
<1>7. Answers(m, l)
  BY <1>4, <1>5, <1>6 DEF VoldServes, Answers, threads
<1> QED
  BY <1>4, <1>6, <1>7

(* The answer to a list: an item for each volume, then the reply.          *)
LEMMA ListSteps ==
  ASSUME CommandInv, VoldLists
  PROVE  /\ real' = real /\ Head(toVold).op = "list"
         /\ \E m \in Seq(GoodLines), l \in GoodLines :
                /\ Answers(m, l) /\ \A i \in 1 .. Len(m) : IsItem(m[i])
                /\ \A v \in Volumes : \E i \in 1 .. Len(m) : m[i].vol = v
<1>1. real \in [Volumes -> States] /\ fromVold \in Seq(GoodLines)
      /\ toVold \in Seq(GoodRequests) /\ toVold # << >>
  BY DEF CommandInv, Typed, TypeOK, VoldLists
<1>2. Head(toVold).by \in Senders
  BY <1>1 DEF GoodRequests, Requests
<1>3. Cardinality(Volumes) \in Nat
  BY VolumesAssumption, FS_CardinalityType
<1>4. PICK order \in [1 .. Cardinality(Volumes) -> Volumes] :
          /\ \A v \in Volumes : \E i \in DOMAIN order : order[i] = v
          /\ fromVold' = fromVold \o [i \in DOMAIN order |-> Item(order[i])]
                                  \o <<Reply("ok", Head(toVold).by)>>
  BY Zenon DEF VoldLists
<1> DEFINE m == [i \in DOMAIN order |-> Item(order[i])]
           l == Reply("ok", Head(toVold).by)
<1>5. \A v \in Volumes : /\ Item(v) \in GoodLines /\ IsItem(Item(v)) /\ ~IsReply(Item(v))
                         /\ Item(v).vol = v /\ Item(v).state = real[v]
  BY <1>1 DEF Item, GoodLines, Lines, IsReply, IsItem, Senders
<1>6. l \in GoodLines /\ IsReply(l) /\ l.by = Head(toVold).by
  BY <1>2 DEF Reply, GoodLines, Lines, IsReply, Codes
<1>7. m \in Seq(GoodLines) /\ Len(m) = Cardinality(Volumes)
  BY <1>3, <1>5
<1>8. \A i \in 1 .. Len(m) : order[i] \in Volumes /\ m[i] = Item(order[i])
  BY <1>7
<1>9. fromVold' = fromVold \o m \o <<l>>
  BY <1>4
<1>10. \A v \in Volumes : \E i \in 1 .. Len(m) : m[i].vol = v
  <2> SUFFICES ASSUME NEW v \in Volumes PROVE \E i \in 1 .. Len(m) : m[i].vol = v
    BY Zenon
  <2>1. PICK i \in 1 .. Cardinality(Volumes) : order[i] = v
    BY <1>4
  <2> QED
    BY <1>5, <1>7, <1>8, <2>1
<1> HIDE DEF m, l
<1>11. fromVold' = Append(fromVold \o m, l)
  <2>1. fromVold \o m \o <<l>> = Append(fromVold \o m, l)
    BY <1>1, <1>6, <1>7, AppendLast
  <2> QED
    BY Zenon, <1>9, <2>1
<1>12. real' = real
  BY DEF VoldLists, daemon
<1>13. \A i \in 1 .. Len(m) : IsItem(m[i]) /\ ~IsReply(m[i]) /\ m[i].state = real[m[i].vol]
  BY <1>5, <1>8
<1>14. Tells(m)
  BY <1>10, <1>12, <1>13 DEF Tells
<1>15. Answers(m, l)
  BY Zenon, <1>6, <1>11, <1>13, <1>14 DEF Answers, VoldLists, daemon, threads
<1> QED
  BY Zenon, <1>6, <1>7, <1>10, <1>12, <1>13, <1>15 DEF VoldLists

LEMMA DiskSteps ==
  ASSUME CommandInv, NEW v \in Volumes, VoldDisk(v)
  PROVE  /\ real' \in [Volumes -> States]
         /\ \E m \in Seq(GoodLines) : Announces(m)
<1>1. real \in [Volumes -> States] /\ fromVold \in Seq(GoodLines)
  BY DEF CommandInv, Typed, TypeOK
<1>2. /\ DiskInserted(v) \in GoodLines /\ Changed(v, "Idle") \in GoodLines
      /\ DiskRemoved(v) \in GoodLines
      /\ ~IsReply(DiskInserted(v)) /\ ~IsReply(Changed(v, "Idle")) /\ ~IsReply(DiskRemoved(v))
      /\ ~IsItem(DiskInserted(v)) /\ ~IsItem(Changed(v, "Idle")) /\ ~IsItem(DiskRemoved(v))
      /\ DiskInserted(v).vol = v /\ Changed(v, "Idle").vol = v /\ DiskRemoved(v).vol = v
      /\ Changed(v, "Idle").state = "Idle" /\ DiskRemoved(v).state = "NoMedia"
  BY DEF DiskInserted, DiskRemoved, Changed, GoodLines, Lines, IsReply, IsItem, Senders, States
<1>3. CASE real[v] = "NoMedia"
  <2> DEFINE m == <<DiskInserted(v), Changed(v, "Idle")>>
  <2>1. m \in Seq(GoodLines) /\ Len(m) = 2 /\ m[1] = DiskInserted(v) /\ m[2] = Changed(v, "Idle")
    BY <1>2
  <2>2. fromVold' = fromVold \o m /\ real' = [real EXCEPT ![v] = "Idle"]
    BY <1>3 DEF VoldDisk
  <2> HIDE DEF m
  <2>3. Tells(m) /\ \A i \in 1 .. Len(m) : ~IsReply(m[i]) /\ ~IsItem(m[i])
    BY <1>1, <1>2, <2>1, <2>2 DEF Tells
  <2>4. Announces(m)
    BY <2>2, <2>3 DEF Announces, VoldDisk, threads
  <2> QED
    BY <1>1, <2>1, <2>2, <2>4 DEF States
<1>4. CASE real[v] # "NoMedia"
  <2> DEFINE m == <<DiskRemoved(v)>>
  <2>1. m \in Seq(GoodLines) /\ Len(m) = 1 /\ m[1] = DiskRemoved(v)
    BY <1>2
  <2>2. fromVold' = fromVold \o m /\ real' = [real EXCEPT ![v] = "NoMedia"]
    <3>1. Append(fromVold, DiskRemoved(v)) = fromVold \o m
      BY Zenon, <1>1, <1>2, SMT
    <3> QED
      BY <1>4, <3>1 DEF VoldDisk
  <2> HIDE DEF m
  <2>3. Tells(m) /\ \A i \in 1 .. Len(m) : ~IsReply(m[i]) /\ ~IsItem(m[i])
    BY <1>1, <1>2, <2>1, <2>2 DEF Tells
  <2>4. Announces(m)
    BY <2>2, <2>3 DEF Announces, VoldDisk, threads
  <2> QED
    BY <1>1, <2>1, <2>2, <2>4 DEF States
<1> QED
  BY <1>3, <1>4

-----------------------------------------------------------------------------
(* A reply that is there was counted.                                      *)
LEMMA ReplyCounted ==
  ASSUME CommandInv, fromVold # << >>, IsReply(Head(fromVold))
  PROVE  inflight - 1 \in Nat
<1>1. fromVold \in Seq(GoodLines) /\ toVold \in Seq(GoodRequests) /\ inflight \in Nat
  BY DEF CommandInv, Typed, TypeOK
<1>2. NumReplies(fromVold) \in Nat /\ IsFiniteSet(RepliesIn(fromVold))
  BY <1>1, RepliesFinite
<1>3. 1 \in RepliesIn(fromVold)
  BY <1>1 DEF RepliesIn
<1>4. NumReplies(fromVold) # 0
  BY <1>1, <1>3, NoReplies
<1>5. Len(toVold) \in Nat
  BY <1>1
<1> QED
  BY <1>1, <1>2, <1>4, <1>5 DEF CommandInv, Counted

(* What the sockets carry.                                                 *)
Channels == toVold \in Seq(GoodRequests) /\ fromVold \in Seq(GoodLines)

LEMMA AnswersTyped ==
  ASSUME Channels, NEW m \in Seq(GoodLines), NEW l \in GoodLines, Answers(m, l)
  PROVE  Channels'
  BY DEF Channels, Answers

LEMMA AnnouncesTyped ==
  ASSUME Channels, NEW m \in Seq(GoodLines), Announces(m)
  PROVE  Channels'
  BY DEF Channels, Announces

LEMMA SendsTyped ==
  ASSUME Channels, NEW t, NEW r \in GoodRequests, Sends(t, r)
  PROVE  Channels'
  BY DEF Channels, Sends

(* The monitor sends "mount" for a disk that was inserted.                 *)
LEMMA AutomountTyped ==
  ASSUME TypeOK, Channels, Automount
  PROVE  Channels'
<1>1. [op |-> "mount", vol |-> inserted, by |-> Monitor] \in GoodRequests
  BY DEF TypeOK, Automount, GoodRequests, Requests, Senders
<1>2. toVold' = toVold \/ toVold' = Append(toVold, [op |-> "mount", vol |-> inserted, by |-> Monitor])
  BY DEF Automount, Write
<1>3. fromVold' = fromVold
  BY DEF Automount
<1> QED
  BY <1>1, <1>2, <1>3 DEF Channels

LEMMA ChannelsNext == CommandInv /\ [Next]_vars => Channels'
<1> SUFFICES ASSUME CommandInv, [Next]_vars PROVE Channels'
  OBVIOUS
<1>1. Channels /\ TypeOK
  BY DEF CommandInv, Typed, Channels
<1>2. CASE UNCHANGED <<toVold, fromVold>>
  BY <1>1, <1>2 DEF Channels
<1>3. CASE UpdateVolumes
  BY <1>1, <1>3, UpdateVolumesSteps, SendsTyped
<1>4. CASE MainOp
  BY Zenon, <1>1, <1>2, <1>4, MainOpSteps, SendsTyped DEF Moves
<1>5. ASSUME NEW t \in Threads, UnmountNext(t) PROVE Channels'
  BY Zenon, <1>1, <1>2, <1>5, UnmountNextSteps, SendsTyped DEF Moves
<1>6. CASE Reads
  BY <1>1, <1>6 DEF Channels, Reads
<1>7. CASE Automount
  BY <1>1, <1>7, AutomountTyped
<1>8. CASE VoldServes
  BY Zenon, <1>1, <1>8, ServeSteps, AnswersTyped
<1>9. CASE VoldLists
  BY Zenon, <1>1, <1>9, ListSteps, AnswersTyped
<1>10. ASSUME NEW v \in Volumes, VoldDisk(v) PROVE Channels'
  BY Zenon, <1>1, <1>10, DiskSteps, AnnouncesTyped
<1>11. CASE VoldDies
  BY <1>1, <1>11 DEF Channels, VoldDies
<1>12. CASE SetAutomount \/ \E t \in Threads : UnmountAll(t) \/ UnmountedAll(t) \/ Wake(t)
  BY Zenon, <1>2, <1>12 DEF SetAutomount, UnmountAll, UnmountedAll, Wake, Rest
<1>13. CASE UNCHANGED vars
  BY <1>2, <1>13 DEF vars
<1> QED
  BY Zenon, <1>3, <1>4, <1>5, <1>6, <1>7, <1>8, <1>9, <1>10, <1>11, <1>12, <1>13, MonitorSteps
     DEF Next, ThreadStep, MainStep, MonitorStep, VoldStep, Quiet

(* The types of what the threads and what the monitor and vold write.      *)
ThreadTypes ==
    /\ waiting \subseteq Threads /\ woken \subseteq Threads
    /\ pc \in [Threads -> Labels] /\ left \in [Threads -> SUBSET Volumes]
    /\ ret \in [Threads -> Codes] /\ reply \in [Threads -> Codes \cup {"none"}]
    /\ automount \in BOOLEAN /\ ops \in 0 .. MaxOps
MonitorTypes ==
    /\ real \in [Volumes -> States] /\ link \in BOOLEAN /\ listing \in BOOLEAN
    /\ known \in [Volumes -> States \cup {"unlisted"}]
    /\ inflight \in Nat /\ result \in Codes /\ inserted \in Volumes \cup {NoVolume}
    /\ events \in 0 .. MaxEvents /\ losses \in 0 .. MaxLosses

LEMMA TypeParts == Typed <=> Channels /\ ThreadTypes /\ MonitorTypes
<1>1. GoodRequests \subseteq Requests /\ GoodLines \subseteq Lines
  BY DEF GoodRequests, GoodLines
<1>2. Channels => toVold \in Seq(Requests) /\ fromVold \in Seq(Lines)
  BY <1>1 DEF Channels
<1> QED
  BY Zenon, <1>2 DEF Typed, TypeOK, Channels, ThreadTypes, MonitorTypes

LEMMA SendTypes ==
  ASSUME ThreadTypes, MonitorTypes, NEW op, NEW v, NEW t \in Threads, NEW at \in Labels,
         SendAndWait(op, v, t, at)
  PROVE  /\ inflight' \in Nat /\ waiting' \subseteq Threads /\ pc' \in [Threads -> Labels]
         /\ ret' \in [Threads -> Codes] /\ reply' \in [Threads -> Codes \cup {"none"}]
  BY DEF ThreadTypes, MonitorTypes, SendAndWait, CountInflight

LEMMA ReturnTypes ==
  ASSUME ThreadTypes, MonitorTypes, NEW t \in Threads, NEW code \in Codes, Return(t, code)
  PROVE  /\ inflight' \in Nat /\ waiting' \subseteq Threads /\ pc' \in [Threads -> Labels]
         /\ ret' \in [Threads -> Codes] /\ reply' \in [Threads -> Codes \cup {"none"}]
  BY DEF ThreadTypes, MonitorTypes, Return, Labels

LEMMA TypedNext == CommandInv /\ [Next]_vars => Typed'
<1> SUFFICES ASSUME CommandInv, [Next]_vars PROVE ThreadTypes' /\ MonitorTypes'
  BY ChannelsNext, TypeParts, PTL
<1>0. ThreadTypes /\ MonitorTypes /\ Channels
  BY TypeParts DEF CommandInv
<1>1. /\ "ok" \in Codes /\ "fail" \in Codes /\ "command" \in Labels /\ "unmountwait" \in Labels
      /\ Main \in Threads /\ MaxOps \in Nat /\ MaxEvents \in Nat /\ MaxLosses \in Nat
  BY Zenon, ThreadsAssumption, BoundsAssumption DEF Codes, Labels
<1> USE DEF daemon, threads, Rest
<1>2. CASE UpdateVolumes
  BY Zenon, <1>0, <1>1, <1>2, SendTypes DEF UpdateVolumes, ThreadTypes, MonitorTypes
<1>3. CASE SetAutomount
  BY Zenon, <1>0, <1>3 DEF SetAutomount, ThreadTypes, MonitorTypes, Labels
<1>4. CASE MainOp
  <2>1. PICK v \in Volumes : MountVolume(v) \/ UnmountVolume(v) \/ FormatVolume(v)
    BY <1>4 DEF MainOp
  <2>2. NewOp /\ UNCHANGED Rest
    BY <2>1 DEF MountVolume, UnmountVolume, FormatVolume
  <2>3. \/ \E code \in Codes : Return(Main, code)
        \/ \E op \in {"mount", "unmount", "format"} : SendAndWait(op, v, Main, "command")
    BY <1>1, <2>1 DEF MountVolume, UnmountVolume, FormatVolume
  <2>4. /\ inflight' \in Nat /\ waiting' \subseteq Threads /\ pc' \in [Threads -> Labels]
        /\ ret' \in [Threads -> Codes] /\ reply' \in [Threads -> Codes \cup {"none"}]
    BY Zenon, <1>0, <1>1, <2>3, SendTypes, ReturnTypes
  <2> QED
    BY <1>0, <1>1, <2>2, <2>4 DEF NewOp, ThreadTypes, MonitorTypes
<1>5. ASSUME NEW t \in Threads, UnmountAll(t) \/ UnmountedAll(t) PROVE ThreadTypes' /\ MonitorTypes'
  <2>1. CASE UnmountAll(t)
    BY Zenon, <1>0, <2>1 DEF UnmountAll, ThreadTypes, MonitorTypes, Labels
  <2>2. CASE UnmountedAll(t)
    BY Zenon, <1>0, <2>2 DEF UnmountedAll, ThreadTypes, MonitorTypes, Labels
  <2> QED
    BY Zenon, <1>5, <2>1, <2>2
<1>6. ASSUME NEW t \in Threads, UnmountNext(t) PROVE ThreadTypes' /\ MonitorTypes'
  <2>1. PICK v \in left[t] :
          /\ left' = [left EXCEPT ![t] = @ \ {v}]
          /\ IF known[v] = "Mounted" THEN SendAndWait("unmount", v, t, "unmountwait")
             ELSE UNCHANGED <<toVold, inflight, waiting, pc, reply, ret>>
    BY Zenon, <1>6 DEF UnmountNext
  <2>2. /\ inflight' \in Nat /\ waiting' \subseteq Threads /\ pc' \in [Threads -> Labels]
        /\ ret' \in [Threads -> Codes] /\ reply' \in [Threads -> Codes \cup {"none"}]
    BY Zenon, <1>0, <1>1, <2>1, SendTypes DEF ThreadTypes, MonitorTypes
  <2>3. left' \in [Threads -> SUBSET Volumes]
    BY Zenon, <1>0, <2>1 DEF ThreadTypes
  <2> QED
    BY Zenon, <1>0, <1>6, <2>2, <2>3 DEF UnmountNext, ThreadTypes, MonitorTypes
<1>7. ASSUME NEW t \in Threads, Wake(t) PROVE ThreadTypes' /\ MonitorTypes'
  BY Zenon, <1>0, <1>7 DEF Wake, ThreadTypes, MonitorTypes, Labels
<1>8. CASE HandleResult
  <2>1. fromVold # << >> /\ Head(fromVold) \in GoodLines /\ IsReply(Head(fromVold))
    BY <1>0, <1>8 DEF HandleResult, Read, Line, IsReply, Channels
  <2>2. Line.state \in Codes
    BY <2>1 DEF GoodLines, Line
  <2>3. inflight' \in Nat
    BY Zenon, <1>8, <2>1, ReplyCounted DEF HandleResult
  <2>4. waiting' \subseteq Threads /\ woken' \subseteq Threads
    BY <1>0, <1>8 DEF HandleResult, Signal, ThreadTypes
  <2>5. reply' \in [Threads -> Codes \cup {"none"}]
    BY SMTT(20), <1>0, <1>8, <2>2 DEF HandleResult, ThreadTypes
  <2> QED
    BY Zenon, <1>0, <1>8, <2>2, <2>3, <2>4, <2>5 DEF HandleResult, NewResult, ThreadTypes, MonitorTypes
<1>9. CASE HandleVolumeList \/ HandleVolumeStateChange \/ HandleVolumeRemoved \/ HandleVolumeInserted
  <2>0. fromVold # << >> /\ ~IsReply(Head(fromVold))
    BY Zenon, <1>9 DEF HandleVolumeList, HandleVolumeStateChange, HandleVolumeRemoved,
                HandleVolumeInserted, Read, Line, IsReply
  <2>1. Head(fromVold) \in GoodLines /\ ~IsReply(Head(fromVold))
    BY <1>0, <2>0 DEF Channels
  <2>2. Line.vol \in Volumes /\ Line.state \in States
    BY Zenon, <2>1 DEF GoodLines, Line
  <2> QED
    BY Zenon, <1>0, <1>9, <2>2
       DEF HandleVolumeList, HandleVolumeStateChange, HandleVolumeRemoved, HandleVolumeInserted,
           SetVolumeState, ListCleared, ThreadTypes, MonitorTypes
<1>10. CASE Automount
  BY SMTT(20), <1>0, <1>10 DEF Automount, CountInflight, ThreadTypes, MonitorTypes
<1>11. CASE VoldServes
  BY Zenon, <1>0, <1>11, ServeSteps DEF VoldServes, ThreadTypes, MonitorTypes
<1>12. CASE VoldLists
  BY Zenon, <1>0, <1>12 DEF VoldLists, ThreadTypes, MonitorTypes
<1>13. ASSUME NEW v \in Volumes, VoldDisk(v) PROVE ThreadTypes' /\ MonitorTypes'
  <2>1. real' \in [Volumes -> States]
    BY <1>13, DiskSteps
  <2> QED
    BY <1>0, <1>1, <1>13, <2>1 DEF VoldDisk, ThreadTypes, MonitorTypes
<1>14. CASE VoldDies
  <2>1. ThreadTypes'
    BY Zenon, <1>0, <1>14 DEF VoldDies, ThreadTypes
  <2>2. link' = FALSE /\ losses < MaxLosses /\ losses' = losses + 1
        /\ UNCHANGED <<real, known, listing, inflight, result, inserted, events>>
    BY <1>14 DEF VoldDies
  <2>3. link' \in BOOLEAN
    BY <2>2, Zenon
  <2>4. losses' \in 0 .. MaxLosses
    BY <1>0, <1>1, <2>2 DEF MonitorTypes
  <2> QED
    BY <1>0, <2>1, <2>2, <2>3, <2>4, Zenon DEF MonitorTypes
<1>15. CASE UNCHANGED vars
  BY Zenon, <1>0, <1>15 DEF vars, ThreadTypes, MonitorTypes
<1> QED
  BY Zenon, <1>2, <1>3, <1>4, <1>5, <1>6, <1>7, <1>8, <1>9, <1>10, <1>11, <1>12, <1>13, <1>14, <1>15
     DEF Next, ThreadStep, MainStep, MonitorStep, VoldStep, Quiet

-----------------------------------------------------------------------------
LEMMA StepKinds ==
  ASSUME CommandInv, [Next]_vars
  PROVE  \/ \E t \in Threads, r \in GoodRequests : Sends(t, r)
         \/ \E t \in Threads : Moves(t) \/ Wake(t)
         \/ SetAutomount \/ (Reads /\ Learns) \/ Automount
         \/ \E m \in Seq(GoodLines), l \in GoodLines : Answers(m, l) /\ Lists(m)
         \/ \E m \in Seq(GoodLines) : Announces(m)
         \/ VoldDies \/ UNCHANGED vars
<1>1. CASE UpdateVolumes \/ MainOp
  BY Zenon, <1>1, UpdateVolumesSteps, MainOpSteps, ThreadsAssumption
<1>2. ASSUME NEW t \in Threads, ThreadStep(t) \/ UnmountAll(t)
      PROVE  Moves(t) \/ Wake(t) \/ \E r \in GoodRequests : Sends(t, r)
  BY Zenon, <1>2, UnmountNextSteps, ThreadSteps DEF ThreadStep
<1>3. CASE MonitorStep
  BY Zenon, <1>3, MonitorSteps DEF MonitorStep
<1>4. CASE VoldServes
  BY <1>4, ServeSteps DEF VoldServes, Lists
<1>6. CASE VoldLists
  BY Zenon, <1>6, ListSteps DEF VoldLists, Lists
<1>5. ASSUME NEW v \in Volumes, VoldDisk(v) PROVE \E m \in Seq(GoodLines) : Announces(m)
  BY <1>5, DiskSteps
<1> QED
  BY Zenon, <1>1, <1>2, <1>3, <1>4, <1>5, <1>6 DEF Next, MainStep, VoldStep, Quiet

LEMMA AnswerCounted ==
  ASSUME fromVold \in Seq(GoodLines), NEW m \in Seq(GoodLines), NEW l \in GoodLines, Answers(m, l)
  PROVE  NumReplies(fromVold') = NumReplies(fromVold) + 1
<1>1. fromVold \o m \in Seq(GoodLines)
  OBVIOUS
<1>2. NumReplies(fromVold') = NumReplies(fromVold \o m) + 1
  BY Zenon, <1>1, RepliesAppend DEF Answers
<1>3. NumReplies(fromVold \o m) = NumReplies(fromVold)
  BY RepliesConcat DEF Answers
<1> QED
  BY <1>2, <1>3

(* cmd_inflight goes up with every command written, and down with every    *)
(* reply read.                                                             *)
LEMMA CountedNext == CommandInv /\ [Next]_vars => Counted'
<1> SUFFICES ASSUME CommandInv, [Next]_vars PROVE Counted'
  BY Zenon
<1>1. /\ toVold \in Seq(GoodRequests) /\ fromVold \in Seq(GoodLines) /\ inflight \in Nat
      /\ inflight >= Len(toVold) + NumReplies(fromVold)
  BY DEF CommandInv, Typed, TypeOK, Counted
<1>2. NumReplies(fromVold) \in Nat /\ Len(toVold) \in Nat
  BY <1>1, RepliesFinite
<1>3. ASSUME NEW r \in GoodRequests, inflight' = inflight + 1, fromVold' = fromVold,
             toVold' = toVold \/ toVold' = Append(toVold, r)
      PROVE  Counted'
  <2>1. Len(toVold') = Len(toVold) \/ Len(toVold') = Len(toVold) + 1
    BY <1>1, <1>3
  <2> QED
    BY <1>1, <1>2, <1>3, <2>1 DEF Counted
<1>4. CASE UNCHANGED <<toVold, fromVold, inflight>>
  BY Zenon, <1>1, <1>4 DEF Counted
<1>5. CASE \E t \in Threads, r \in GoodRequests : Sends(t, r)
  BY Zenon, <1>3, <1>5 DEF Sends
<1>6. CASE Automount
  <2>1. [op |-> "mount", vol |-> inserted, by |-> Monitor] \in GoodRequests
    BY Zenon, <1>6 DEF CommandInv, Typed, TypeOK, Automount, GoodRequests, Requests, Senders
  <2> QED
    BY Zenon, <1>3, <1>4, <1>6, <2>1 DEF Automount, Write, CountInflight
<1>7. CASE Reads
  <2>1. NumReplies(fromVold') = NumReplies(fromVold) - (IF IsReply(Line) THEN 1 ELSE 0)
    BY Zenon, <1>1, <1>7, RepliesTail DEF Reads, Line
  <2> QED
    BY <1>1, <1>2, <1>7, <2>1 DEF Reads, Counted
<1>8. ASSUME NEW m \in Seq(GoodLines), NEW l \in GoodLines, Answers(m, l) PROVE Counted'
  <2>1. Len(toVold') = Len(toVold) - 1
    BY <1>1, <1>8 DEF Answers
  <2>2. NumReplies(fromVold') = NumReplies(fromVold) + 1
    BY Zenon, <1>1, <1>8, AnswerCounted
  <2> QED
    BY <1>1, <1>2, <1>8, <2>1, <2>2 DEF Answers, Counted
<1>9. ASSUME NEW m \in Seq(GoodLines), Announces(m) PROVE Counted'
  <2>1. NumReplies(fromVold') = NumReplies(fromVold)
    BY Zenon, <1>1, <1>9, RepliesConcat DEF Announces
  <2> QED
    BY Zenon, <1>1, <1>9, <2>1 DEF Announces, Counted
<1>10. CASE VoldDies
  <2>1. Len(toVold') = 0 /\ UNCHANGED <<fromVold, inflight>>
    BY SMTT(20), <1>10 DEF VoldDies
  <2> QED
    BY <1>1, <1>2, <2>1 DEF Counted
<1> QED
  BY Zenon, <1>4, <1>5, <1>6, <1>7, <1>8, <1>9, <1>10, StepKinds
     DEF Moves, Wake, SetAutomount, Rest, vars

(* A thread whose command is counted sleeps or is about to look again.     *)
LEMMA SleepersNext == CommandInv /\ [Next]_vars => Sleepers' /\ Starting'
<1> SUFFICES ASSUME CommandInv, [Next]_vars PROVE Sleepers' /\ Starting'
  OBVIOUS
<1>1. /\ waiting \subseteq Threads /\ woken \subseteq Threads /\ pc \in [Threads -> Labels]
      /\ Sleepers /\ Starting /\ Main \in Threads
  BY ThreadsAssumption DEF CommandInv, Typed, TypeOK
<1>2. CASE UNCHANGED <<waiting, woken, pc, automount, inserted>>
  BY <1>1, <1>2 DEF Sleepers, Starting
<1>3. ASSUME NEW t \in Threads, NEW r \in GoodRequests, Sends(t, r) PROVE Sleepers' /\ Starting'
  <2>1. t \notin waiting /\ t \notin woken
    BY Zenon, <1>1, <1>3 DEF Sends, Sleepers
  <2>2. Sleepers'
    BY Zenon, <1>1, <1>3, <2>1 DEF Sends, Sleepers, Waits
  <2>3. Starting'
    BY <1>1, <1>3 DEF Sends, Starting
  <2> QED
    BY Zenon, <2>2, <2>3
<1>4. ASSUME NEW t \in Threads, Moves(t) PROVE Sleepers' /\ Starting'
  <2>1. t \notin waiting /\ t \notin woken
    BY Zenon, <1>1, <1>4 DEF Moves, Sleepers
  <2>2. Sleepers'
    BY Zenon, <1>1, <1>4, <2>1 DEF Moves, Sleepers
  <2>3. Starting'
    BY Zenon, <1>1, <1>4 DEF Moves, Starting
  <2> QED
    BY Zenon, <2>2, <2>3
<1>5. ASSUME NEW t \in Threads, Wake(t) PROVE Sleepers' /\ Starting'
  <2>1. pc[t] \in Waits
    BY Zenon, <1>1, <1>5 DEF Wake, Sleepers
  <2>2. Sleepers'
    BY Zenon, <1>1, <1>5 DEF Wake, Sleepers
  <2>3. Starting'
    BY <1>1, <1>5, <2>1 DEF Wake, Starting, Waits
  <2> QED
    BY <2>2, <2>3
<1>6. CASE SetAutomount
  <2>1. \A t \in Threads : pc[t] \notin Waits
    BY Zenon, <1>1, <1>6 DEF SetAutomount, Starting, Waits
  <2>2. Sleepers'
    BY Zenon, <1>1, <1>6, <2>1 DEF SetAutomount, Sleepers, Rest
  <2>3. Starting'
    BY Zenon, <1>1, <1>6 DEF SetAutomount, Starting
  <2> QED
    BY Zenon, <2>2, <2>3
<1>7. CASE Reads
  <2>1. Sleepers'
    BY Zenon, <1>1, <1>7 DEF Reads, Sleepers
  <2>2. ~automount => inserted' = NoVolume
    BY Zenon, <1>1, <1>7
       DEF Next, ThreadStep, MainStep, MainOp, MonitorStep, VoldStep, Quiet, vars, Starting,
           UpdateVolumes, SetAutomount, MountVolume, UnmountVolume, FormatVolume, NewOp,
           UnmountAll, UnmountNext, UnmountedAll, Wake, Rest, HandleResult, HandleVolumeList,
           HandleVolumeStateChange, HandleVolumeRemoved, HandleVolumeInserted, Automount,
           VoldServes, VoldLists, VoldDisk, VoldDies
  <2> QED
    BY Zenon, <1>1, <1>7, <2>1, <2>2 DEF Reads, Starting
<1>8. CASE Automount
  BY Zenon, <1>1, <1>8 DEF Automount, threads, Sleepers, Starting
<1> QED
  BY Zenon, <1>2, <1>3, <1>4, <1>5, <1>6, <1>7, <1>8, StepKinds
     DEF Answers, Announces, VoldDies, threads, vars

(* A thread leaves vold_command only when nothing is in flight, and then   *)
(* neither a command nor a reply is on its way.                            *)
LEMMA PendingNext == CommandInv /\ [Next]_vars => Pending'
<1> SUFFICES ASSUME CommandInv, [Next]_vars PROVE Pending'
  OBVIOUS
<1>1. /\ toVold \in Seq(GoodRequests) /\ fromVold \in Seq(GoodLines) /\ inflight \in Nat
      /\ pc \in [Threads -> Labels] /\ Pending /\ Counted /\ Sleepers /\ Starting
      /\ Len(toVold) \in Nat /\ Len(fromVold) \in Nat
  BY DEF CommandInv, Typed, TypeOK
<1>2. CASE UNCHANGED <<toVold, fromVold, pc>>
  BY Zenon, <1>1, <1>2 DEF Pending
<1>3. ASSUME NEW r \in GoodRequests, UNCHANGED <<fromVold>>,
             toVold' = toVold \/ toVold' = Append(toVold, r),
             \A t \in Threads : pc[t] \in Waits => pc'[t] \in Waits,
             r.by \in Threads => pc'[r.by] \in Waits
      PROVE  Pending'
  <2>1. CASE toVold' = toVold
    BY Zenon, <1>1, <1>3, <2>1 DEF Pending
  <2>2. CASE toVold' = Append(toVold, r)
    <3>1. Len(toVold') = Len(toVold) + 1 /\ toVold'[Len(toVold) + 1] = r
          /\ \A i \in 1 .. Len(toVold) : toVold'[i] = toVold[i]
      BY <1>1, <2>2
    <3> QED
      BY SMTT(20), <1>1, <1>3, <3>1 DEF Pending
  <2> QED
    BY Zenon, <1>3, <2>1, <2>2
<1>4. ASSUME NEW t \in Threads, NEW r \in GoodRequests, Sends(t, r) PROVE Pending'
  <2>1. /\ \A u \in Threads : pc[u] \in Waits => pc'[u] \in Waits
        /\ pc'[t] \in Waits /\ r.by = t
    BY Zenon, <1>1, <1>4 DEF Sends, Waits
  <2> QED
    BY <1>3, <1>4, <2>1 DEF Sends
<1>5. ASSUME NEW t \in Threads, Moves(t) PROVE Pending'
  <2>1. \A u \in Threads : pc[u] \in Waits => pc'[u] \in Waits
    BY <1>1, <1>5 DEF Moves
  <2> QED
    BY Zenon, <1>1, <1>5, <2>1 DEF Moves, Pending
<1>6. ASSUME NEW t \in Threads, Wake(t) PROVE Pending'
  <2>1. CASE inflight = 0
    <3>1. Len(toVold) = 0 /\ NumReplies(fromVold) = 0
      BY <1>1, <2>1, RepliesFinite DEF Counted
    <3>2. RepliesIn(fromVold) = {}
      BY Zenon, <1>1, <3>1, NoReplies
    <3> QED
      BY <1>1, <1>6, <3>1, <3>2 DEF Wake, Pending, RepliesIn
  <2>2. CASE inflight # 0
    BY Zenon, <1>2, <1>6, <2>2 DEF Wake, StillInflight
  <2> QED
    BY Zenon, <2>1, <2>2
<1>7. CASE SetAutomount
  <2>1. \A t \in Threads : pc[t] \notin Waits
    BY Zenon, <1>1, <1>7 DEF SetAutomount, Starting, Waits
  <2> QED
    BY <1>1, <1>7, <2>1 DEF SetAutomount, Rest, Pending
<1>8. CASE Reads
  <2>1. Len(fromVold') = Len(fromVold) - 1
        /\ \A i \in 1 .. Len(fromVold') : fromVold'[i] = fromVold[i + 1]
    BY SMTT(20), <1>1, <1>8 DEF Reads
  <2> QED
    BY <1>1, <1>8, <2>1 DEF Reads, Pending
<1>9. CASE Automount
  <2>1. [op |-> "mount", vol |-> inserted, by |-> Monitor] \in GoodRequests
    BY <1>9 DEF CommandInv, Typed, TypeOK, Automount, GoodRequests, Requests, Senders
  <2> QED
    BY Zenon, <1>2, <1>3, <1>9, <2>1, ThreadsAssumption DEF Automount, Write, threads
<1>10. ASSUME NEW m \in Seq(GoodLines), NEW l \in GoodLines, Answers(m, l) PROVE Pending'
  <2>1. /\ Len(toVold') = Len(toVold) - 1 /\ Head(toVold) = toVold[1] /\ 1 \in 1 .. Len(toVold)
        /\ \A i \in 1 .. Len(toVold') : toVold'[i] = toVold[i + 1]
    BY <1>1, <1>10 DEF Answers
  <2>2. /\ Len(fromVold') = Len(fromVold) + Len(m) + 1 /\ Len(m) \in Nat
        /\ \A i \in 1 .. Len(fromVold') :
               fromVold'[i] = IF i <= Len(fromVold) THEN fromVold[i]
                              ELSE IF i <= Len(fromVold) + Len(m) THEN m[i - Len(fromVold)]
                              ELSE l
    BY SMTT(20), <1>1, <1>10 DEF Answers
  <2>3. \A i \in 1 .. Len(toVold') : toVold'[i].by \in Threads => pc'[toVold'[i].by] \in Waits
    BY <1>1, <1>10, <2>1 DEF Answers, Pending
  <2>4. ASSUME NEW i \in 1 .. Len(fromVold'), IsReply(fromVold'[i]), fromVold'[i].by \in Threads
        PROVE  pc'[fromVold'[i].by] \in Waits
    <3>1. CASE i <= Len(fromVold)
      BY SMTT(20), <1>1, <1>10, <2>2, <2>4, <3>1 DEF Answers, Pending
    <3>2. CASE i > Len(fromVold) /\ i <= Len(fromVold) + Len(m)
      <4>1. fromVold'[i] = m[i - Len(fromVold)] /\ i - Len(fromVold) \in 1 .. Len(m)
        BY SMTT(20), <1>1, <2>2, <3>2
      <4> QED
        BY Zenon, <1>10, <2>4, <4>1 DEF Answers
    <3>3. CASE i > Len(fromVold) + Len(m)
      <4>1. fromVold'[i] = l
        BY SMTT(20), <1>1, <2>2, <3>3
      <4> QED
        BY Zenon, <1>1, <1>10, <2>1, <2>4, <4>1 DEF Answers, Pending
    <3> QED
      BY SMTT(20), <1>1, <2>2, <3>1, <3>2, <3>3
  <2> QED
    BY Zenon, <2>3, <2>4 DEF Pending
<1>11. ASSUME NEW m \in Seq(GoodLines), Announces(m) PROVE Pending'
  <2>1. /\ Len(fromVold') = Len(fromVold) + Len(m) /\ Len(m) \in Nat
        /\ \A i \in 1 .. Len(fromVold') :
               fromVold'[i] = IF i <= Len(fromVold) THEN fromVold[i] ELSE m[i - Len(fromVold)]
    BY <1>1, <1>11 DEF Announces
  <2>2. ASSUME NEW i \in 1 .. Len(fromVold'), IsReply(fromVold'[i]) PROVE i <= Len(fromVold)
    BY <1>1, <1>11, <2>1, <2>2 DEF Announces
  <2> QED
    BY <1>1, <1>11, <2>1, <2>2 DEF Announces, Pending
<1>12. CASE VoldDies
  <2>1. Len(toVold') = 0 /\ UNCHANGED <<fromVold, pc>>
    BY <1>12 DEF VoldDies, threads
  <2> QED
    BY <1>1, <2>1 DEF Pending
<1> QED
  BY Zenon, <1>2, <1>4, <1>5, <1>6, <1>7, <1>8, <1>9, <1>10, <1>11, <1>12, StepKinds DEF vars

LEMMA CommandInvNext == CommandInv /\ [Next]_vars => CommandInv'
  BY TypedNext, CountedNext, SleepersNext, PendingNext DEF CommandInv

LEMMA CommandInvInit == Init => CommandInv
<1> SUFFICES ASSUME Init PROVE CommandInv
  OBVIOUS
<1>1. TypeOK
  <2>1. link \in BOOLEAN /\ listing \in BOOLEAN /\ automount \in BOOLEAN
    BY Zenon DEF Init
  <2>2. toVold \in Seq(Requests) /\ fromVold \in Seq(Lines)
    BY DEF Init
  <2>3. real \in [Volumes -> States]
    BY DEF Init, States
  <2> QED
    BY <2>1, <2>2, <2>3, BoundsAssumption DEF Init, TypeOK, Codes, Labels
<1>2. RepliesIn(fromVold) = {}
  BY DEF Init, RepliesIn
<1>3. NumReplies(fromVold) = 0
  BY <1>2, FS_EmptySet DEF NumReplies
<1>4. Counted
  BY <1>3 DEF Init, Counted
<1>5. Typed /\ Sleepers /\ Pending /\ Starting
  BY <1>1, ThreadsAssumption DEF Init, Typed, Sleepers, Pending, Starting
<1> QED
  BY <1>4, <1>5 DEF CommandInv

(* vold_command(): whatever threads run, disks come and go and vold dies,  *)
(* no thread is back while its command or the reply to it is under way.    *)
THEOREM CommandsAnswered == Spec => []ReturnsAnswered
<1>1. CommandInv => ReturnsAnswered
  <2> SUFFICES ASSUME CommandInv, NEW t \in Threads,
                      pc[t] \in {"returned", "unmounting", "unmounted"}
               PROVE  t \notin {toVold[i].by : i \in DOMAIN toVold}
                          \cup {fromVold[i].by : i \in Replies}
    BY DEF ReturnsAnswered
  <2>1. pc[t] \notin Waits
    BY DEF Waits
  <2>2. DOMAIN toVold = 1 .. Len(toVold) /\ DOMAIN fromVold = 1 .. Len(fromVold)
    BY DEF CommandInv, Typed
  <2> QED
    BY Zenon, <2>1, <2>2 DEF CommandInv, Pending, Replies, IsReply
<1> QED
  BY <1>1, CommandInvInit, CommandInvNext, PTL DEF Spec

-----------------------------------------------------------------------------
(* The lines about a volume that the monitor has yet to read.              *)
About(v) == {i \in 1 .. Len(fromVold) : ~IsReply(fromVold[i]) /\ fromVold[i].vol = v}
HasItem(v) == \E i \in 1 .. Len(fromVold) : IsItem(fromVold[i]) /\ fromVold[i].vol = v

(* The last of them says what the volume's state is, and once there is     *)
(* none the list does.                                                     *)
LastLineTrue == \A v \in Volumes : \A i \in About(v) :
    (\A j \in About(v) : j <= i) => fromVold[i].state = real[v]
ListedTrue == \A v \in Volumes : About(v) = {} /\ known[v] # "unlisted" => known[v] = real[v]

(* Nothing has been listed.                                                *)
Unlisted ==
    /\ \A i \in 1 .. Len(fromVold) : ~IsItem(fromVold[i]) /\ ~IsReply(fromVold[i])
    /\ ~listing /\ \A v \in Volumes : known[v] = "unlisted"

(* The list is asked for once, first of all commands.                      *)
ListFirst ==
    /\ pc[Main] = "start" => Unlisted /\ toVold = << >>
    /\ \A i \in 1 .. Len(toVold) : toVold[i].op = "list" => i = 1 /\ Unlisted

(* Its items come before the reply to it, and before any other reply.      *)
ItemsFirst ==
    /\ \A i, j \in 1 .. Len(fromVold) : IsReply(fromVold[i]) /\ IsItem(fromVold[j]) => j < i
    /\ \A j \in 1 .. Len(fromVold) : IsItem(fromVold[j]) => \E i \in RepliesIn(fromVold) : j < i

(* The monitor finds all of them or none when it is not listing, and none  *)
(* once the user interface is up.                                          *)
ItemsTogether ==
    /\ ~listing => \A u, v \in Volumes : HasItem(u) => HasItem(v)
    /\ automount => \A v \in Volumes : ~HasItem(v) /\ known[v] # "unlisted"

(* Until main's first command returns the list is on its way, or lost with *)
(* vold, or read.                                                          *)
ListComes ==
    pc[Main] \in {"command", "returned"} /\ ~automount =>
        \/ pc[Main] = "command" /\ \E i \in 1 .. Len(toVold) : toVold[i].op = "list"
        \/ pc[Main] = "command" /\ inflight > Len(toVold) + NumReplies(fromVold)
        \/ /\ \A v \in Volumes : HasItem(v) \/ known[v] # "unlisted"
           /\ pc[Main] = "returned" => \A v \in Volumes : ~HasItem(v)

ListInv == /\ CommandInv /\ LastLineTrue /\ ListedTrue
           /\ ListFirst /\ ItemsFirst /\ ItemsTogether /\ ListComes

-----------------------------------------------------------------------------
(* vold's new lines are m, and replies after it.                           *)
Grows(m) ==
    /\ Len(fromVold') \in Nat /\ Len(fromVold') >= Len(fromVold) + Len(m)
    /\ \A i \in 1 .. Len(fromVold) : fromVold'[i] = fromVold[i]
    /\ \A k \in 1 .. Len(m) : fromVold'[Len(fromVold) + k] = m[k] /\ ~IsReply(m[k])
    /\ \A i \in 1 .. Len(fromVold') :
           i > Len(fromVold) + Len(m) => IsReply(fromVold'[i]) /\ ~IsItem(fromVold'[i])
    /\ Tells(m)
    /\ UNCHANGED <<known, listing, inflight, pc, automount>>

LEMMA AnswerGrows ==
  ASSUME Typed, NEW m \in Seq(GoodLines), NEW l \in GoodLines, Answers(m, l)
  PROVE  Grows(m) /\ Len(fromVold') = Len(fromVold) + Len(m) + 1
<1>1. fromVold \in Seq(GoodLines) /\ Len(fromVold) \in Nat /\ Len(m) \in Nat
  BY DEF Typed
<1>2. /\ Len(fromVold') = Len(fromVold) + Len(m) + 1
      /\ \A i \in 1 .. Len(fromVold') :
             fromVold'[i] = IF i <= Len(fromVold) THEN fromVold[i]
                            ELSE IF i <= Len(fromVold) + Len(m) THEN m[i - Len(fromVold)]
                            ELSE l
  BY <1>1 DEF Answers
<1>3. \A i \in 1 .. Len(fromVold) : fromVold'[i] = fromVold[i]
  BY <1>1, <1>2
<1>4. \A k \in 1 .. Len(m) : fromVold'[Len(fromVold) + k] = m[k]
  BY <1>1, <1>2
<1>5. \A i \in 1 .. Len(fromVold') : i > Len(fromVold) + Len(m) => fromVold'[i] = l
  BY <1>1, <1>2
<1>6. IsReply(l) /\ ~IsItem(l)
  BY Zenon DEF Answers, IsReply, IsItem
<1> QED
  BY <1>1, <1>2, <1>3, <1>4, <1>5, <1>6 DEF Grows, Answers

LEMMA AnnounceGrows ==
  ASSUME Typed, NEW m \in Seq(GoodLines), Announces(m)
  PROVE  Grows(m) /\ Len(fromVold') = Len(fromVold) + Len(m)
<1>1. fromVold \in Seq(GoodLines) /\ Len(fromVold) \in Nat /\ Len(m) \in Nat
  BY DEF Typed
<1>2. /\ Len(fromVold') = Len(fromVold) + Len(m)
      /\ \A i \in 1 .. Len(fromVold') :
             fromVold'[i] = IF i <= Len(fromVold) THEN fromVold[i] ELSE m[i - Len(fromVold)]
  BY <1>1 DEF Announces
<1>3. \A i \in 1 .. Len(fromVold) : fromVold'[i] = fromVold[i]
  BY <1>1, <1>2
<1>4. \A k \in 1 .. Len(m) : fromVold'[Len(fromVold) + k] = m[k]
  BY <1>1, <1>2
<1> QED
  BY <1>1, <1>2, <1>3, <1>4 DEF Grows, Announces

(* The monitor takes the first line off.                                   *)
LEMMA ReadLines ==
  ASSUME Typed, Reads
  PROVE  /\ Len(fromVold) \in Nat /\ Len(fromVold') = Len(fromVold) - 1
         /\ \A i \in 1 .. Len(fromVold') : fromVold'[i] = fromVold[i + 1]
         /\ 1 \in 1 .. Len(fromVold) /\ Line = fromVold[1] /\ Line \in GoodLines
  BY DEF Typed, Reads, Line

(* New lines about a volume end with the one that says its new state.      *)
LEMMA GrowsTrue ==
  ASSUME Typed, LastLineTrue, ListedTrue, NEW m \in Seq(GoodLines), Grows(m)
  PROVE  LastLineTrue' /\ ListedTrue'
<1>1. Len(fromVold) \in Nat /\ Len(m) \in Nat
  BY DEF Typed
<1>2. ASSUME NEW v \in Volumes, NEW k \in 1 .. Len(m), m[k].vol = v
      PROVE  Len(fromVold) + k \in About(v)'
  BY <1>1, <1>2 DEF Grows, About
<1>3. ASSUME NEW v \in Volumes PROVE About(v) \subseteq About(v)'
  BY <1>1 DEF Grows, About
<1>4. ASSUME NEW v \in Volumes, NEW i \in About(v)', \A j \in About(v)' : j <= i
      PROVE  fromVold'[i].state = real'[v]
  <2>1. i \in 1 .. Len(fromVold') /\ ~IsReply(fromVold'[i]) /\ fromVold'[i].vol = v
    BY DEF About
  <2>2. i <= Len(fromVold) + Len(m)
    BY <1>1, <2>1 DEF Grows
  <2>3. CASE i <= Len(fromVold)
    <3>1. fromVold'[i] = fromVold[i] /\ i \in About(v)
      BY <1>1, <2>1, <2>3 DEF Grows, About
    <3>2. \A k \in 1 .. Len(m) : m[k].vol # v
      BY SMTT(20), <1>1, <1>2, <1>4, <2>1, <2>3
    <3>3. real'[v] = real[v]
      BY <3>2 DEF Grows, Tells
    <3>4. \A j \in About(v) : j <= i
      BY Zenon, <1>3, <1>4
    <3> QED
      BY Zenon, <3>1, <3>3, <3>4 DEF LastLineTrue
  <2>4. CASE i > Len(fromVold)
    <3> DEFINE k == i - Len(fromVold)
    <3>1. k \in 1 .. Len(m) /\ i = Len(fromVold) + k
      BY <1>1, <2>1, <2>2, <2>4 DEF Grows
    <3> HIDE DEF k
    <3>2. fromVold'[i] = m[k]
      BY <3>1 DEF Grows
    <3>3. \A j \in 1 .. Len(m) : m[j].vol = v => j <= k
      BY <1>1, <1>2, <1>4, <3>1
    <3> QED
      BY <2>1, <3>1, <3>2, <3>3 DEF Grows, Tells
  <2> QED
    BY <1>1, <2>1, <2>3, <2>4
<1>5. ASSUME NEW v \in Volumes, About(v)' = {}, known'[v] # "unlisted"
      PROVE  known'[v] = real'[v]
  <2>1. About(v) = {} /\ \A k \in 1 .. Len(m) : m[k].vol # v
    BY Zenon, <1>2, <1>3, <1>5
  <2>2. real'[v] = real[v] /\ known' = known
    BY Zenon, <2>1 DEF Grows, Tells
  <2> QED
    BY Zenon, <1>5, <2>1, <2>2 DEF ListedTrue
<1> QED
  BY <1>4, <1>5 DEF LastLineTrue, ListedTrue

(* Reading the last line about a volume gives it the state it tells.       *)
LEMMA ReadsTrue ==
  ASSUME Typed, LastLineTrue, ListedTrue, Reads, Learns
  PROVE  LastLineTrue' /\ ListedTrue'
<1>1. real' = real /\ known \in [Volumes -> States \cup {"unlisted"}]
  BY DEF Reads, Typed, TypeOK
<1>2. ASSUME NEW v \in Volumes, NEW i \in 1 .. Len(fromVold)
      PROVE  i # 1 /\ i \in About(v) => i - 1 \in About(v)'
  <2> SUFFICES ASSUME i # 1, i \in About(v) PROVE i - 1 \in About(v)'
    OBVIOUS
  <2>1. i - 1 \in 1 .. Len(fromVold') /\ i = (i - 1) + 1
    BY ReadLines
  <2>2. fromVold'[i - 1] = fromVold[i]
    BY Zenon, <2>1, ReadLines
  <2> QED
    BY <2>1, <2>2 DEF About
<1>3. ASSUME NEW v \in Volumes, NEW i \in About(v)'
      PROVE  i + 1 \in About(v) /\ fromVold'[i] = fromVold[i + 1] /\ i \in Nat
  <2>1. i \in 1 .. Len(fromVold') /\ ~IsReply(fromVold'[i]) /\ fromVold'[i].vol = v
    BY DEF About
  <2>2. i + 1 \in 1 .. Len(fromVold) /\ fromVold'[i] = fromVold[i + 1] /\ i \in Nat
    BY <2>1, ReadLines
  <2> QED
    BY <2>1, <2>2 DEF About
<1>4. \A v \in Volumes : About(v) \subseteq 1 .. Len(fromVold)
  BY DEF About
<1>5. ASSUME NEW v \in Volumes, NEW i \in About(v)', \A j \in About(v)' : j <= i
      PROVE  fromVold'[i].state = real'[v]
  <2>1. ASSUME NEW j \in About(v) PROVE j <= i + 1
    <3>1. j \in 1 .. Len(fromVold)
      BY <1>4
    <3>2. CASE j = 1
      BY <1>3, <3>2
    <3>3. CASE j # 1
      BY <1>2, <1>3, <1>5, <3>1, <3>3, ReadLines
    <3> QED
      BY <3>2, <3>3
  <2> QED
    BY <1>1, <1>3, <2>1 DEF LastLineTrue
<1>6. ASSUME NEW v \in Volumes, About(v)' = {}, known'[v] # "unlisted"
      PROVE  known'[v] = real'[v]
  <2>1. About(v) \subseteq {1}
    BY <1>2, <1>4, <1>6
  <2>2. CASE ~IsReply(Line) /\ Line.vol = v
    <3>1. 1 \in About(v)
      BY Zenon, <2>2, ReadLines DEF About
    <3>2. Line.state = real[v]
      BY <2>1, <3>1, ReadLines DEF LastLineTrue
    <3>3. known'[v] = Line.state
      BY <1>1, <1>6, <2>2 DEF Learns, SetVolumeState, ListCleared
    <3> QED
      BY Zenon, <1>1, <3>2, <3>3
  <2>3. CASE ~(~IsReply(Line) /\ Line.vol = v)
    <3>1. About(v) = {}
      BY Zenon, <2>1, <2>3, ReadLines DEF About
    <3>2. known'[v] = known[v]
      BY Zenon, <1>1, <1>6, <2>3 DEF Learns, SetVolumeState, ListCleared
    <3> QED
      BY Zenon, <1>1, <1>6, <3>1, <3>2 DEF ListedTrue
  <2> QED
    BY <2>2, <2>3
<1> QED
  BY Zenon, <1>5, <1>6 DEF LastLineTrue, ListedTrue

LEMMA ListTrueNext == ListInv /\ [Next]_vars => LastLineTrue' /\ ListedTrue'
<1> SUFFICES ASSUME ListInv, [Next]_vars PROVE LastLineTrue' /\ ListedTrue'
  OBVIOUS
<1>1. CommandInv /\ Typed /\ LastLineTrue /\ ListedTrue
  BY Zenon DEF ListInv, CommandInv
<1>2. CASE UNCHANGED <<real, fromVold, known>>
  BY <1>1, <1>2 DEF LastLineTrue, ListedTrue, About
<1>3. CASE Reads /\ Learns
  BY Zenon, <1>1, <1>3, ReadsTrue
<1>4. ASSUME NEW m \in Seq(GoodLines), (\E l \in GoodLines : Answers(m, l)) \/ Announces(m)
      PROVE  LastLineTrue' /\ ListedTrue'
  BY Zenon, <1>1, <1>4, AnswerGrows, AnnounceGrows, GrowsTrue
<1> QED
  BY Zenon, <1>1, <1>2, <1>3, <1>4, StepKinds
     DEF Sends, Moves, Wake, SetAutomount, Rest, daemon, Automount, VoldDies, vars

(* The items that stay, and those that come.                               *)
LEMMA ReadItems ==
  ASSUME Typed, Reads, NEW v \in Volumes
  PROVE  /\ HasItem(v)' => HasItem(v)
         /\ HasItem(v) => HasItem(v)' \/ (IsItem(Line) /\ Line.vol = v)
<1>1. ASSUME NEW i \in 1 .. Len(fromVold') PROVE i + 1 \in 1 .. Len(fromVold)
  BY ReadLines
<1>2. HasItem(v)' => HasItem(v)
  BY Zenon, <1>1, ReadLines DEF HasItem
<1>3. ASSUME HasItem(v), ~(IsItem(Line) /\ Line.vol = v) PROVE HasItem(v)'
  <2>1. PICK i \in 1 .. Len(fromVold) : IsItem(fromVold[i]) /\ fromVold[i].vol = v
    BY Zenon, <1>3 DEF HasItem
  <2>2. i # 1
    BY Zenon, <1>3, <2>1, ReadLines
  <2>3. i - 1 \in 1 .. Len(fromVold') /\ i = (i - 1) + 1
    BY <2>2, ReadLines
  <2>4. fromVold'[i - 1] = fromVold[i]
    BY Zenon, <2>3, ReadLines
  <2> QED
    BY Zenon, <2>1, <2>3, <2>4 DEF HasItem
<1> QED
  BY Zenon, <1>2, <1>3

LEMMA GrowsPlace ==
  ASSUME Typed, NEW m \in Seq(GoodLines), Grows(m), NEW i \in 1 .. Len(fromVold')
  PROVE  \/ i \in 1 .. Len(fromVold) /\ fromVold'[i] = fromVold[i]
         \/ \E k \in 1 .. Len(m) : i = Len(fromVold) + k /\ fromVold'[i] = m[k]
         \/ i > Len(fromVold) + Len(m) /\ IsReply(fromVold'[i]) /\ ~IsItem(fromVold'[i])
<1>1. Len(fromVold) \in Nat /\ Len(m) \in Nat /\ Len(fromVold') \in Nat
  BY DEF Typed, Grows
<1>2. CASE i <= Len(fromVold)
  BY <1>1, <1>2 DEF Grows
<1>3. CASE i > Len(fromVold) /\ i <= Len(fromVold) + Len(m)
  <2> DEFINE k == i - Len(fromVold)
  <2>1. k \in 1 .. Len(m) /\ i = Len(fromVold) + k
    BY <1>1, <1>3
  <2> HIDE DEF k
  <2>2. fromVold'[i] = m[k]
    BY Zenon, <2>1 DEF Grows
  <2> QED
    BY <2>1, <2>2
<1>4. CASE i > Len(fromVold) + Len(m)
  BY <1>4 DEF Grows
<1> QED
  BY <1>1, <1>2, <1>3, <1>4

LEMMA GrowsItems ==
  ASSUME Typed, NEW m \in Seq(GoodLines), Grows(m), \A i \in 1 .. Len(m) : ~IsItem(m[i]),
         NEW v \in Volumes
  PROVE  HasItem(v)' <=> HasItem(v)
<1>1. Len(fromVold) \in Nat /\ Len(m) \in Nat /\ Len(fromVold') \in Nat
  BY DEF Typed, Grows
<1>2. HasItem(v) => HasItem(v)'
  BY <1>1 DEF Grows, HasItem
<1>3. HasItem(v)' => HasItem(v)
  BY Zenon, GrowsPlace DEF HasItem
<1> QED
  BY Zenon, <1>2, <1>3

(* Lines that list nothing leave nothing listed.                           *)
LEMMA UnlistedReads ==
  ASSUME Typed, Reads, Learns, Unlisted
  PROVE  Unlisted'
<1>1. ~IsReply(Line) /\ ~IsItem(Line)
  BY ReadLines DEF Unlisted
<1>2. \A i \in 1 .. Len(fromVold') : i + 1 \in 1 .. Len(fromVold)
  BY ReadLines
<1>3. listing' = listing /\ SetVolumeState(Line.vol, Line.state)
  BY Zenon, <1>1 DEF Learns
<1>4. Line.vol \in Volumes
  BY <1>1, ReadLines DEF GoodLines
<1>5. known' = known
  BY Zenon, <1>3, <1>4 DEF SetVolumeState, Unlisted
<1> QED
  BY Zenon, <1>2, <1>3, <1>5, ReadLines DEF Unlisted

LEMMA UnlistedAnnounced ==
  ASSUME Typed, NEW m \in Seq(GoodLines), Announces(m), Unlisted
  PROVE  Unlisted'
<1>1. Grows(m) /\ Len(fromVold') = Len(fromVold) + Len(m)
      /\ Len(fromVold) \in Nat /\ Len(m) \in Nat
  BY AnnounceGrows DEF Typed
<1>2. ASSUME NEW i \in 1 .. Len(fromVold') PROVE ~IsItem(fromVold'[i]) /\ ~IsReply(fromVold'[i])
  BY <1>1, GrowsPlace DEF Announces, Unlisted
<1> QED
  BY <1>2 DEF Announces, Unlisted

(* "list" is written once, to an empty socket.                             *)
LEMMA ListFirstNext == ListInv /\ [Next]_vars => ListFirst'
<1> SUFFICES ASSUME ListInv, [Next]_vars PROVE ListFirst'
  OBVIOUS
<1>1. /\ CommandInv /\ Typed /\ ListFirst /\ Starting
      /\ toVold \in Seq(GoodRequests) /\ Len(toVold) \in Nat
      /\ pc \in [Threads -> Labels] /\ Main \in Threads
  BY ThreadsAssumption DEF ListInv, CommandInv, Typed, TypeOK
<1>2. ASSUME pc'[Main] = "start" => pc[Main] = "start", UNCHANGED toVold, Unlisted => Unlisted'
      PROVE  ListFirst'
  BY Zenon, <1>1, <1>2 DEF ListFirst
<1>3. ASSUME NEW r \in GoodRequests, pc'[Main] # "start", Unlisted => Unlisted',
             toVold' = toVold \/ toVold' = Append(toVold, r),
             r.op = "list" => pc[Main] = "start"
      PROVE  ListFirst'
  <2>1. CASE toVold' = toVold
    BY Zenon, <1>1, <1>3, <2>1 DEF ListFirst
  <2>2. CASE toVold' = Append(toVold, r)
    <3>1. Len(toVold') = Len(toVold) + 1 /\ toVold'[Len(toVold) + 1] = r
          /\ \A i \in 1 .. Len(toVold) : toVold'[i] = toVold[i]
      BY <1>1, <2>2
    <3>2. r.op = "list" => Len(toVold) = 0 /\ Unlisted
      BY <1>1, <1>3 DEF ListFirst
    <3> QED
      BY <1>1, <1>3, <3>1, <3>2 DEF ListFirst
  <2> QED
    BY Zenon, <1>3, <2>1, <2>2
<1>4. ASSUME NEW t \in Threads, NEW r \in GoodRequests, Sends(t, r) PROVE ListFirst'
  <2>1. pc'[Main] # "start" /\ (r.op = "list" => pc[Main] = "start")
    BY Zenon, <1>1, <1>4 DEF Sends, Starting, Waits
  <2> QED
    BY Zenon, <1>3, <1>4, <2>1 DEF Sends, Unlisted
<1>5. ASSUME NEW t \in Threads, Moves(t) \/ Wake(t) PROVE ListFirst'
  <2>1. pc'[Main] = "start" => pc[Main] = "start"
    BY Zenon, <1>1, <1>5 DEF Moves, Wake
  <2> QED
    BY Zenon, <1>2, <1>5, <2>1 DEF Moves, Wake, Unlisted
<1>6. CASE SetAutomount
  <2>1. pc'[Main] # "start"
    BY Zenon, <1>1, <1>6 DEF SetAutomount
  <2> QED
    BY Zenon, <1>2, <1>6, <2>1 DEF SetAutomount, Rest, Unlisted
<1>7. CASE Reads /\ Learns
  BY <1>1, <1>2, <1>7, UnlistedReads DEF Reads
<1>8. CASE Automount
  <2>1. automount /\ pc' = pc /\ (Unlisted => Unlisted')
    BY Zenon, <1>1, <1>8 DEF Automount, Starting, CommandInv, Typed, TypeOK, threads, Unlisted
  <2>2. pc'[Main] # "start"
    BY Zenon, <1>1, <2>1 DEF Starting
  <2>3. [op |-> "mount", vol |-> inserted, by |-> Monitor] \in GoodRequests
    BY Zenon, <1>8 DEF ListInv, CommandInv, Typed, TypeOK, Automount, GoodRequests, Requests, Senders
  <2> QED
    BY Zenon, <1>3, <1>8, <2>1, <2>2, <2>3 DEF Automount, Write
<1>9. ASSUME NEW m \in Seq(GoodLines), NEW l \in GoodLines, Answers(m, l) PROVE ListFirst'
  <2>1. /\ Len(toVold') = Len(toVold) - 1 /\ toVold # << >>
        /\ \A i \in 1 .. Len(toVold') : toVold'[i] = toVold[i + 1] /\ i + 1 \in 1 .. Len(toVold)
    BY <1>1, <1>9 DEF Answers
  <2>2. \A i \in 1 .. Len(toVold') : toVold'[i].op # "list"
    BY SMTT(20), <1>1, <2>1 DEF ListFirst
  <2> QED
    BY Zenon, <1>1, <1>9, <2>1, <2>2 DEF Answers, ListFirst
<1>10. ASSUME NEW m \in Seq(GoodLines), Announces(m) PROVE ListFirst'
  BY Zenon, <1>1, <1>2, <1>10, UnlistedAnnounced DEF Announces
<1>11. CASE VoldDies
  <2>1. toVold' = << >> /\ Len(toVold') = 0 /\ UNCHANGED <<fromVold, pc, known, listing>>
    BY Zenon, <1>11 DEF VoldDies, threads
  <2> QED
    BY <1>1, <2>1 DEF ListFirst, Unlisted
<1>12. CASE UNCHANGED vars
  BY Zenon, <1>2, <1>12 DEF vars, Unlisted
<1> QED
  BY Zenon, <1>1, <1>4, <1>5, <1>6, <1>7, <1>8, <1>9, <1>10, <1>11, <1>12, StepKinds

(* Before the answer to the list there is neither an item nor a reply.     *)
LEMMA ListAnswer ==
  ASSUME ListInv, NEW m \in Seq(GoodLines), NEW l \in GoodLines, Answers(m, l), Lists(m)
  PROVE  /\ Grows(m) /\ Len(fromVold') = Len(fromVold) + Len(m) + 1
         /\ Len(fromVold) \in Nat /\ Len(m) \in Nat
         /\ Head(toVold).op = "list" => Unlisted
         /\ \A v \in Volumes : Head(toVold).op = "list" => HasItem(v)'
         /\ \A v \in Volumes : Head(toVold).op # "list" => (HasItem(v)' <=> HasItem(v))
<1>1. /\ Typed /\ ListFirst /\ toVold \in Seq(GoodRequests)
      /\ Len(fromVold) \in Nat /\ Len(m) \in Nat
  BY DEF ListInv, CommandInv, Typed
<1>2. Grows(m) /\ Len(fromVold') = Len(fromVold) + Len(m) + 1
  BY Zenon, <1>1, AnswerGrows
<1>3. Head(toVold).op = "list" => Unlisted
  BY <1>1 DEF Answers, ListFirst
<1>4. ASSUME NEW v \in Volumes, Head(toVold).op = "list" PROVE HasItem(v)'
  <2>1. PICK k \in 1 .. Len(m) : m[k].vol = v /\ IsItem(m[k])
    BY Zenon, <1>4 DEF Lists
  <2>2. fromVold'[Len(fromVold) + k] = m[k] /\ Len(fromVold) + k \in 1 .. Len(fromVold')
    BY <1>1, <1>2 DEF Grows
  <2> QED
    BY Zenon, <2>1, <2>2 DEF HasItem
<1>5. ASSUME NEW v \in Volumes, Head(toVold).op # "list" PROVE HasItem(v)' <=> HasItem(v)
  BY Zenon, <1>1, <1>2, <1>5, GrowsItems DEF Lists
<1> QED
  BY Zenon, <1>1, <1>2, <1>3, <1>4, <1>5

LEMMA ItemsFirstNext == ListInv /\ [Next]_vars => ItemsFirst'
<1> SUFFICES ASSUME ListInv, [Next]_vars PROVE ItemsFirst'
  OBVIOUS
<1>1. CommandInv /\ Typed /\ ItemsFirst /\ Len(fromVold) \in Nat
  BY DEF ListInv, CommandInv, Typed
<1>2. CASE UNCHANGED fromVold
  BY Zenon, <1>1, <1>2 DEF ItemsFirst, RepliesIn
<1>3. CASE Reads
  <2>1. /\ Len(fromVold') = Len(fromVold) - 1
        /\ \A i \in 1 .. Len(fromVold') : fromVold'[i] = fromVold[i + 1] /\ i + 1 \in 1 .. Len(fromVold)
    BY <1>1, <1>3, ReadLines
  <2>2. ASSUME NEW i \in 1 .. Len(fromVold'), NEW j \in 1 .. Len(fromVold'),
               IsReply(fromVold'[i]), IsItem(fromVold'[j])
        PROVE  j < i
    <3>1. j + 1 < i + 1
      BY Zenon, <1>1, <2>1, <2>2 DEF ItemsFirst
    <3> QED
      BY <3>1
  <2>3. ASSUME NEW j \in 1 .. Len(fromVold'), IsItem(fromVold'[j])
        PROVE  \E i \in RepliesIn(fromVold') : j < i
    <3>1. PICK i \in RepliesIn(fromVold) : j + 1 < i
      BY Zenon, <1>1, <2>1, <2>3 DEF ItemsFirst
    <3>2. i \in 1 .. Len(fromVold) /\ IsReply(fromVold[i])
      BY DEF RepliesIn
    <3>3. i - 1 \in 1 .. Len(fromVold') /\ i = (i - 1) + 1 /\ j < i - 1
      BY <1>1, <2>1, <3>1, <3>2
    <3>4. fromVold'[i - 1] = fromVold[i]
      BY Zenon, <2>1, <3>3
    <3> QED
      BY Zenon, <3>2, <3>3, <3>4 DEF RepliesIn
  <2> QED
    BY Zenon, <2>2, <2>3 DEF ItemsFirst
<1>4. ASSUME NEW m \in Seq(GoodLines), Announces(m) PROVE ItemsFirst'
  <2>1. /\ Grows(m) /\ Len(fromVold') = Len(fromVold) + Len(m) /\ Len(m) \in Nat
    BY <1>1, <1>4, AnnounceGrows
  <2>2. ASSUME NEW i \in 1 .. Len(fromVold'), IsReply(fromVold'[i]) \/ IsItem(fromVold'[i])
        PROVE  i \in 1 .. Len(fromVold) /\ fromVold'[i] = fromVold[i]
    BY <1>1, <1>4, <2>1, <2>2, GrowsPlace DEF Announces
  <2>3. \A i \in RepliesIn(fromVold) : i \in RepliesIn(fromVold')
    BY <1>1, <2>1 DEF RepliesIn, Grows
  <2> QED
    BY Zenon, <1>1, <2>2, <2>3 DEF ItemsFirst
<1>5. ASSUME NEW m \in Seq(GoodLines), NEW l \in GoodLines, Answers(m, l), Lists(m)
      PROVE  ItemsFirst'
  <2> DEFINE n == Len(fromVold')
  <2>1. /\ Grows(m) /\ n = Len(fromVold) + Len(m) + 1 /\ Len(m) \in Nat /\ n \in Nat
        /\ Head(toVold).op = "list" => Unlisted
    <3>1. Answers(m, l) /\ Lists(m)
      BY Zenon, <1>5
    <3> QED
      BY <3>1, ListAnswer
  <2>2. n \in RepliesIn(fromVold')
    BY <1>1, <2>1 DEF Grows, RepliesIn
  <2>3. ASSUME NEW j \in 1 .. n, IsItem(fromVold'[j]) PROVE j < n
    BY <1>1, <2>1, <2>3 DEF Grows
  <2>4. ASSUME NEW i \in 1 .. n, NEW j \in 1 .. n, IsReply(fromVold'[i]), IsItem(fromVold'[j])
        PROVE  j < i
    <3>1. \/ i \in 1 .. Len(fromVold) /\ fromVold'[i] = fromVold[i]
          \/ i > Len(fromVold) + Len(m)
      BY Zenon, <1>1, <2>1, <2>4, GrowsPlace DEF Grows
    <3>2. CASE i > Len(fromVold) + Len(m)
      <4>1. i = n
        BY <1>1, <2>1, <3>2
      <4> QED
        BY Zenon, <2>3, <2>4, <4>1
    <3>3. CASE i \in 1 .. Len(fromVold) /\ fromVold'[i] = fromVold[i]
      <4>1. Head(toVold).op # "list"
        BY <2>1, <2>4, <3>3 DEF Unlisted
      <4>2. j \in 1 .. Len(fromVold) /\ fromVold'[j] = fromVold[j]
        BY Zenon, <1>1, <1>5, <2>1, <2>4, <4>1, GrowsPlace DEF Lists
      <4> QED
        BY Zenon, <1>1, <2>4, <3>3, <4>2 DEF ItemsFirst
    <3> QED
      BY <3>1, <3>2, <3>3
  <2> HIDE DEF n
  <2>5. n = Len(fromVold')
    BY SMTT(20) DEF n
  <2> QED
    BY Zenon, <2>2, <2>3, <2>4, <2>5 DEF ItemsFirst
<1> QED
  BY Zenon, <1>1, <1>2, <1>3, <1>4, <1>5, StepKinds
     DEF Sends, Moves, Wake, SetAutomount, Rest, Automount, VoldDies, vars

LEMMA ItemsTogetherNext == ListInv /\ [Next]_vars => ItemsTogether'
<1> SUFFICES ASSUME ListInv, [Next]_vars PROVE ItemsTogether'
  OBVIOUS
<1>1. /\ CommandInv /\ Typed /\ ItemsFirst /\ ItemsTogether /\ ListComes /\ Starting
      /\ known \in [Volumes -> States \cup {"unlisted"}]
  BY DEF ListInv, CommandInv, Typed, TypeOK
<1>2. CASE UNCHANGED <<fromVold, known, listing, automount>>
  BY Zenon, <1>1, <1>2 DEF ItemsTogether, HasItem
<1>3. CASE SetAutomount
  <2>1. \A v \in Volumes : ~HasItem(v) /\ known[v] # "unlisted"
    BY Zenon, <1>1, <1>3 DEF SetAutomount, ListComes
  <2> QED
    BY Zenon, <1>1, <1>3, <2>1 DEF SetAutomount, Rest, ItemsTogether, HasItem
<1>4. CASE Reads /\ Learns
  <2>1. Line \in GoodLines /\ Line = fromVold[1] /\ 1 \in 1 .. Len(fromVold)
    BY Zenon, <1>1, <1>4, ReadLines
  <2>2. ASSUME automount', NEW v \in Volumes PROVE ~HasItem(v)' /\ known'[v] # "unlisted"
    <3>1. automount /\ ~HasItem(v) /\ \A u \in Volumes : ~HasItem(u) /\ known[u] # "unlisted"
      BY Zenon, <1>1, <1>4, <2>2 DEF Reads, ItemsTogether
    <3>2. ~IsItem(Line)
      BY Zenon, <2>1, <3>1 DEF HasItem, GoodLines, IsItem, IsReply
    <3>3. known'[v] # "unlisted"
      BY Zenon, <1>1, <1>4, <2>1, <3>1, <3>2 DEF Learns, SetVolumeState, GoodLines, States
    <3> QED
      BY Zenon, <1>1, <1>4, <3>1, <3>3, ReadItems
  <2>3. ASSUME ~listing', NEW u \in Volumes, NEW v \in Volumes, HasItem(u)' PROVE HasItem(v)'
    <3>1. HasItem(u)
      BY Zenon, <1>1, <1>4, <2>3, ReadItems
    <3>2. ~IsReply(Line)
      BY <1>1, <2>1, <3>1 DEF HasItem, ItemsFirst
    <3>3. ~IsItem(Line) /\ ~listing
      BY <1>4, <2>3, <3>2 DEF Learns
    <3>4. HasItem(v)
      BY Zenon, <1>1, <3>1, <3>3 DEF ItemsTogether
    <3> QED
      BY Zenon, <1>1, <1>4, <3>3, <3>4, ReadItems
  <2> QED
    BY Zenon, <2>2, <2>3 DEF ItemsTogether
<1>5. ASSUME NEW m \in Seq(GoodLines), Announces(m) PROVE ItemsTogether'
  <2>1. \A v \in Volumes : HasItem(v)' <=> HasItem(v)
    BY Zenon, <1>1, <1>5, AnnounceGrows, GrowsItems DEF Announces
  <2> QED
    BY <1>1, <1>5, <2>1 DEF Announces, ItemsTogether
<1>6. ASSUME NEW m \in Seq(GoodLines), NEW l \in GoodLines, Answers(m, l), Lists(m)
      PROVE  ItemsTogether'
  <2>1. CASE Head(toVold).op = "list"
    <3>1. Unlisted /\ \A v \in Volumes : HasItem(v)'
      BY <1>6, <2>1, ListAnswer
    <3>2. automount => Volumes = {}
      BY Zenon, <1>1, <3>1 DEF Unlisted, ItemsTogether
    <3> QED
      BY Zenon, <1>6, <3>1, <3>2 DEF Answers, ItemsTogether
  <2>2. CASE Head(toVold).op # "list"
    <3>1. \A v \in Volumes : HasItem(v)' <=> HasItem(v)
      BY Zenon, <1>6, <2>2, ListAnswer
    <3> QED
      BY Zenon, <1>1, <1>6, <3>1 DEF Answers, ItemsTogether
  <2> QED
    BY Zenon, <2>1, <2>2
<1> QED
  BY Zenon, <1>1, <1>2, <1>3, <1>4, <1>5, <1>6, StepKinds
     DEF Sends, Moves, Wake, Automount, VoldDies, threads, vars

(* Main is told of every volume before its first command returns.          *)
LEMMA ListComesNext == ListInv /\ [Next]_vars => ListComes'
<1> SUFFICES ASSUME ListInv, [Next]_vars, pc'[Main] \in {"command", "returned"}, ~automount'
             PROVE  \/ pc'[Main] = "command" /\ \E i \in 1 .. Len(toVold') : toVold'[i].op = "list"
                    \/ pc'[Main] = "command" /\ inflight' > Len(toVold') + NumReplies(fromVold')
                    \/ /\ \A v \in Volumes : HasItem(v)' \/ known'[v] # "unlisted"
                       /\ pc'[Main] = "returned" => \A v \in Volumes : ~HasItem(v)'
  BY Zenon DEF ListComes
<1> DEFINE Goal == \/ pc'[Main] = "command" /\ \E i \in 1 .. Len(toVold') : toVold'[i].op = "list"
                   \/ pc'[Main] = "command" /\ inflight' > Len(toVold') + NumReplies(fromVold')
                   \/ /\ \A v \in Volumes : HasItem(v)' \/ known'[v] # "unlisted"
                      /\ pc'[Main] = "returned" => \A v \in Volumes : ~HasItem(v)'
<1>1. /\ CommandInv /\ Typed /\ Counted /\ Sleepers /\ Starting
      /\ ListFirst /\ ItemsFirst /\ ItemsTogether /\ ListComes
      /\ toVold \in Seq(GoodRequests) /\ fromVold \in Seq(GoodLines)
      /\ Len(toVold) \in Nat /\ NumReplies(fromVold) \in Nat /\ inflight \in Nat
      /\ known \in [Volumes -> States \cup {"unlisted"}]
      /\ pc \in [Threads -> Labels] /\ Main \in Threads
  BY SMTT(20), ThreadsAssumption, RepliesFinite DEF ListInv, CommandInv, Typed, TypeOK
<1>2. ASSUME UNCHANGED <<toVold, fromVold, known, inflight, pc, automount>> PROVE Goal
  BY Zenon, <1>1, <1>2 DEF ListComes, HasItem
<1>3. ASSUME NEW t \in Threads, NEW r \in GoodRequests, Sends(t, r) PROVE Goal
  <2>1. t = Main /\ r.op = "list" /\ pc[Main] = "start" /\ pc'[Main] = "command"
    BY Zenon, <1>1, <1>3 DEF Sends
  <2>2. toVold = << >> /\ Len(toVold) = 0
    BY <1>1, <2>1 DEF ListFirst
  <2>3. CASE link
    <3>1. toVold' = Append(toVold, r)
      BY Zenon, <1>3, <2>3 DEF Sends
    <3>2. 1 \in 1 .. Len(toVold') /\ toVold'[1] = r
      BY SMTT(20), <1>1, <2>2, <3>1
    <3> QED
      BY Zenon, <2>1, <3>2
  <2>4. CASE ~link
    <3>1. UNCHANGED <<toVold, fromVold>> /\ inflight' = inflight + 1
      BY Zenon, <1>3, <2>4 DEF Sends
    <3>2. inflight' > Len(toVold') + NumReplies(fromVold')
      BY <1>1, <3>1 DEF Counted
    <3> QED
      BY Zenon, <2>1, <3>2
  <2> QED
    BY Zenon, <2>3, <2>4
<1>4. ASSUME NEW t \in Threads, Wake(t) PROVE Goal
  <2>1. t = Main /\ pc[Main] = "command" /\ ~automount
    BY Zenon, <1>1, <1>4 DEF Wake, Sleepers, Starting, Waits
  <2>2. CASE inflight # 0
    BY Zenon, <1>2, <1>4, <2>2 DEF Wake, StillInflight
  <2>3. CASE inflight = 0
    <3>1. Len(toVold) = 0 /\ NumReplies(fromVold) = 0
      BY <1>1, <2>3 DEF Counted
    <3>2. RepliesIn(fromVold) = {}
      BY <1>1, <3>1, NoReplies
    <3>3. \A v \in Volumes : ~HasItem(v)
      BY Zenon, <1>1, <3>2 DEF ItemsFirst, HasItem
    <3>4. \A v \in Volumes : known[v] # "unlisted"
      BY SMTT(20), <1>1, <2>1, <2>3, <3>1, <3>3 DEF ListComes
    <3> QED
      BY Zenon, <1>4, <3>3, <3>4 DEF Wake, HasItem
  <2> QED
    BY <2>2, <2>3
<1>5. ASSUME Reads /\ Learns PROVE Goal
  <2>1. UNCHANGED <<pc, toVold, automount>> /\ Line \in GoodLines
        /\ Line = fromVold[1] /\ 1 \in 1 .. Len(fromVold)
    BY Zenon, <1>1, <1>5, ReadLines DEF Reads
  <2>2. inflight' - NumReplies(fromVold') = inflight - NumReplies(fromVold)
        /\ inflight' \in Int /\ NumReplies(fromVold') \in Int
    <3>1. NumReplies(fromVold') = NumReplies(fromVold) - (IF IsReply(Line) THEN 1 ELSE 0)
      BY Zenon, <1>1, <1>5, RepliesTail DEF Reads, Line
    <3>2. CASE IsReply(Line)
      BY <1>1, <1>5, <3>1, <3>2 DEF Reads
    <3>3. CASE ~IsReply(Line)
      BY <1>1, <1>5, <3>1, <3>3 DEF Reads
    <3> QED
      BY Zenon, <3>2, <3>3
  <2>3. ASSUME NEW v \in Volumes, HasItem(v) \/ known[v] # "unlisted"
        PROVE  HasItem(v)' \/ known'[v] # "unlisted"
    <3>1. CASE IsReply(Line)
      <4>1. ~IsItem(Line) /\ known' = known
        BY Zenon, <1>5, <3>1 DEF Learns, IsReply, IsItem
      <4> QED
        BY Zenon, <1>1, <1>5, <2>3, <4>1, ReadItems
    <3>2. CASE IsItem(Line)
      <4>1. known' = [ListCleared EXCEPT ![Line.vol] = Line.state] /\ ~IsReply(Line)
            /\ Line.vol \in Volumes /\ Line.state \in States
        BY Zenon, <1>5, <2>1, <3>2 DEF Learns, IsReply, IsItem, GoodLines
      <4>2. CASE Line.vol = v
        BY Zenon, <1>1, <4>1, <4>2 DEF ListCleared, States
      <4>3. CASE Line.vol # v /\ HasItem(v)
        BY Zenon, <1>1, <1>5, <4>3, ReadItems
      <4>4. CASE Line.vol # v /\ ~HasItem(v)
        <5>1. HasItem(Line.vol)
          BY <2>1, <3>2 DEF HasItem
        <5>2. listing
          BY Zenon, <1>1, <4>1, <4>4, <5>1 DEF ItemsTogether
        <5> QED
          BY Zenon, <1>1, <2>3, <4>1, <4>4, <5>2 DEF ListCleared
      <4> QED
        BY Zenon, <4>2, <4>3, <4>4
    <3>3. CASE ~IsReply(Line) /\ ~IsItem(Line)
      <4>1. SetVolumeState(Line.vol, Line.state) /\ Line.vol \in Volumes /\ Line.state \in States
        BY Zenon, <1>5, <2>1, <3>3 DEF Learns, GoodLines
      <4>2. known[v] # "unlisted" => known'[v] # "unlisted"
        BY Zenon, <1>1, <4>1 DEF SetVolumeState, States
      <4> QED
        BY Zenon, <1>1, <1>5, <2>3, <3>3, <4>2, ReadItems
    <3> QED
      BY Zenon, <3>1, <3>2, <3>3
  <2>4. \A v \in Volumes : HasItem(v)' => HasItem(v)
    BY Zenon, <1>1, <1>5, ReadItems
  <2>5. inflight > Len(toVold) + NumReplies(fromVold)
            => inflight' > Len(toVold') + NumReplies(fromVold')
    BY SMTT(20), <1>1, <2>1, <2>2
  <2> QED
    BY Zenon, ZenonT(30), <1>1, <2>1, <2>3, <2>4, <2>5 DEF ListComes
<1>6. ASSUME NEW m \in Seq(GoodLines), Announces(m) PROVE Goal
  <2>1. \A v \in Volumes : HasItem(v)' <=> HasItem(v)
    BY Zenon, <1>1, <1>6, AnnounceGrows, GrowsItems DEF Announces
  <2>2. NumReplies(fromVold') = NumReplies(fromVold)
    BY Zenon, <1>1, <1>6, RepliesConcat DEF Announces
  <2> QED
    BY Zenon, <1>1, <1>6, <2>1, <2>2 DEF Announces, ListComes
<1>7. ASSUME NEW m \in Seq(GoodLines), NEW l \in GoodLines, Answers(m, l), Lists(m) PROVE Goal
  <2>1. UNCHANGED <<known, inflight, pc, automount>> /\ Len(toVold') = Len(toVold) - 1
        /\ Head(toVold) = toVold[1]
    <3>1. UNCHANGED <<known, inflight, pc, automount>> /\ toVold # << >> /\ toVold' = Tail(toVold)
      BY Zenon, <1>7 DEF Answers
    <3>2. toVold \in Seq(GoodRequests)
      BY Zenon, <1>1
    <3> QED
      BY <3>1, <3>2
  <2>2. NumReplies(fromVold') = NumReplies(fromVold) + 1
    BY Zenon, <1>1, <1>7, AnswerCounted
  <2>3. CASE Head(toVold).op = "list"
    <3>1. Unlisted /\ \A v \in Volumes : HasItem(v)'
      BY Zenon, <1>7, <2>3, ListAnswer
    <3>2. pc[Main] = "returned" => Volumes = {}
      BY Zenon, <1>1, <2>1, <3>1 DEF ListComes, Unlisted
    <3> QED
      BY <2>1, <3>1, <3>2
  <2>4. CASE Head(toVold).op # "list"
    <3>1. \A v \in Volumes : HasItem(v)' <=> HasItem(v)
      BY Zenon, <1>7, <2>4, ListAnswer
    <3>2. \A i \in 1 .. Len(toVold) : toVold[i].op # "list"
      BY Zenon, <1>1, <2>1, <2>4 DEF ListFirst
    <3>3. Len(toVold) \in Nat /\ NumReplies(fromVold) \in Nat /\ inflight \in Nat
      BY Zenon, <1>1
    <3>4. inflight > Len(toVold) + NumReplies(fromVold)
              => inflight' > Len(toVold') + NumReplies(fromVold')
      BY <2>1, <2>2, <3>3
    <3> QED
      BY Zenon, <1>1, <2>1, <3>1, <3>2, <3>4 DEF ListComes
  <2> QED
    BY Zenon, <2>3, <2>4
<1>8. ASSUME VoldDies PROVE Goal
  <2>1. Len(toVold') = 0 /\ UNCHANGED <<fromVold, known, inflight, pc, automount>>
    BY Zenon, <1>8 DEF VoldDies, threads
  <2>2. (\E i \in 1 .. Len(toVold) : toVold[i].op = "list")
            => inflight' > Len(toVold') + NumReplies(fromVold')
    <3>1. Len(toVold) \in Nat /\ NumReplies(fromVold) \in Nat /\ inflight \in Nat /\ Counted
      BY Zenon, <1>1
    <3> QED
      BY <2>1, <3>1 DEF Counted
  <2>3. inflight > Len(toVold) + NumReplies(fromVold)
            => inflight' > Len(toVold') + NumReplies(fromVold')
    <3>1. Len(toVold) \in Nat /\ NumReplies(fromVold) \in Nat /\ inflight \in Nat
      BY Zenon, <1>1
    <3> QED
      BY <2>1, <3>1
  <2> QED
    BY Zenon, <1>1, <2>1, <2>2, <2>3 DEF ListComes, HasItem
<1>9. ASSUME Automount PROVE Goal
  BY Zenon, <1>1, <1>9 DEF Automount, Starting, threads, Typed, TypeOK
<1>10. ASSUME NEW t \in Threads, Moves(t) PROVE FALSE
  BY <1>10 DEF Moves
<1>11. ~SetAutomount
  BY Zenon DEF SetAutomount
<1>12. ASSUME UNCHANGED vars PROVE Goal
  BY Zenon, <1>2, <1>12 DEF vars
<1> HIDE DEF Goal
<1>13. Goal
  BY Zenon, <1>1, <1>3, <1>4, <1>5, <1>6, <1>7, <1>8, <1>9, <1>10, <1>11, <1>12, StepKinds
<1> QED
  BY Zenon, <1>13 DEF Goal

(* The list the client keeps, built by the monitor from one listing and    *)
(* the broadcasts around it, is vold's once every line has been read.      *)
THEOREM ListIsAccurate == Spec => []ListAccurate
<1>1. Init => ListInv
  <2> SUFFICES ASSUME Init PROVE ListInv
    OBVIOUS
  <2>1. Len(fromVold) = 0 /\ Len(toVold) = 0 /\ \A v \in Volumes : known[v] = "unlisted"
    BY Zenon DEF Init
  <2>2. \A v \in Volumes : ~HasItem(v)
    BY SMTT(20), <2>1 DEF HasItem
  <2>3. LastLineTrue /\ ListedTrue
    <3>1. \A v \in Volumes : About(v) = {}
      BY <2>1 DEF About
    <3> QED
      BY Zenon, <2>1, <3>1 DEF LastLineTrue, ListedTrue
  <2>4. ListFirst /\ ItemsFirst
    BY <2>1 DEF Init, ListFirst, ItemsFirst, Unlisted
  <2>5. ItemsTogether /\ ListComes
    BY <2>2, ThreadsAssumption DEF Init, ItemsTogether, ListComes
  <2> QED
    BY Zenon, <2>3, <2>4, <2>5, CommandInvInit DEF ListInv
<1>2. ListInv /\ [Next]_vars => ListInv'
  BY Zenon, CommandInvNext, ListTrueNext, ListFirstNext, ItemsFirstNext, ItemsTogetherNext, ListComesNext
     DEF ListInv
<1>3. ListInv => ListAccurate
  BY DEF ListInv, ListAccurate, ListedTrue, About, ItemsTogether
<1> QED
  BY <1>1, <1>2, <1>3, PTL DEF Spec

=============================================================================
