--------------------------- MODULE KeepAliveProofs ---------------------------
(***************************************************************************)
(* Theorems about module Sock, for every size of the table, any number of  *)
(* peers and of file numbers: the types, the binding of a response to the  *)
(* peer that asked, and the agreement of the table with the kernel.  Then  *)
(* theorems about module KeepAlive, for any number of timers as well.      *)
(*                                                                         *)
(* Each invariant of Sock has a lemma that says every step of SockStep     *)
(* keeps it.  SockStep is a little more than Next of Sock: it has the      *)
(* moves that only a program with keep-alive makes (shttp_init that gives  *)
(* up after listen, and a send that goes on to start a timer).  Every move *)
(* of KeepAlive on the variables of Sock is a SockStep or the handler's,   *)
(* so an invariant carries over where the handler is shown to keep it.     *)
(***************************************************************************)
EXTENDS KeepAlive, Least, SequenceTheorems, FiniteSetTheorems

\* what shttp_timer_start leaves of the variables of Sock
SendEnds ==
    /\ pc = "start" /\ pc' = "app" /\ status' \in Statuses
    /\ UNCHANGED <<conns, sock, kernel, scan, cur, asker, answered, inits, failed>>

SockStep ==
    \/ InitFails
    \/ InitListens /\ pc' \in {"down", "app"} /\ status' \in Statuses
    \/ \E force \in BOOLEAN : SockDeinit(force)
    \/ NextCall \/ NextNblk \/ SockNextNblk \/ Scan
    \/ SendRefused \/ Sent \/ Close
    \/ SendAccepts /\ pc' \in {"app", "start"} /\ status' \in Statuses
    \/ SendEnds
    \/ \E p \in Peers : Peer(p)

\* A step of the server, the program or a peer is a SockStep.
LEMMA NextIsSockStep == Next => SockStep
BY DEF Next, SockStep, SockInit, Send, Statuses

-----------------------------------------------------------------------------
(* Types *)

\* A round that is under way has not been counted yet.
TypeInv ==
    /\ TypeOK
    /\ pc \in {"accept", "scan", "hangup"} => round > 0
    /\ pc = "hangup" => slot < ConnCount

Cells == [fd : Fds \cup {-1}, pollin : BOOLEAN]

FilesTyped ==
    /\ DOMAIN files \subseteq Fds
    /\ \A f \in DOMAIN files : files[f] \in Peers \cup {NoPeer}

\* The first free slot is a free slot.
LEMMA FirstFreeSlot ==
    ASSUME FreeSlots # {}
    PROVE  Min(FreeSlots) \in Slots /\ conns[Min(FreeSlots)].fd = -1
<1>1. FreeSlots \subseteq Nat
  BY SockAssumption DEF FreeSlots, Slots
<1> QED
  BY <1>1, MinIsLeast DEF FreeSlots

\* The lowest free file number is one the process may open, and free.
LEMMA FirstFreeFd ==
    ASSUME FreeFds # {}
    PROVE  Min(FreeFds) \in Fds /\ Min(FreeFds) \notin DOMAIN files
<1>1. FreeFds \subseteq Nat
  BY SockAssumption DEF FreeFds, Fds
<1>2. Min(FreeFds) \in FreeFds
  BY <1>1, MinIsLeast
<1> QED
  BY <1>2 DEF FreeFds

\* A new file in the lowest free number keeps the types of the files.
LEMMA WithFileTyped ==
    ASSUME FilesTyped, NEW owner \in Peers \cup {NoPeer}, FreeFds # {},
           files' = WithFile(Min(FreeFds), owner)
    PROVE  FilesTyped'
<1>1. Min(FreeFds) \in Fds
  BY FirstFreeFd
<1> QED
  BY <1>1 DEF FilesTyped, WithFile, Fds

\* Closing a file keeps the types of the others.
LEMMA WithoutFileTyped ==
    ASSUME FilesTyped, NEW f, files' = WithoutFile(f)
    PROVE  FilesTyped'
BY DEF FilesTyped, WithoutFile, Fds

\* An accept keeps the types of the table, the files and the backlog.
LEMMA AcceptTyped ==
    ASSUME conns \in [Slots -> Cells], FilesTyped,
           backlog \in Seq(Peers), Len(backlog) <= Backlog,
           NEW r, AcceptNblk(r)
    PROVE  /\ conns' \in [Slots -> Cells] /\ FilesTyped'
           /\ backlog' \in Seq(Peers) /\ Len(backlog') <= Backlog
<1>1. CASE UNCHANGED <<conns, files, backlog>>
  BY <1>1 DEF FilesTyped, Fds
<1>2. CASE /\ backlog # <<>> /\ FreeSlots # {} /\ FreeFds # {}
           /\ conns' = [conns EXCEPT ![Min(FreeSlots)].fd = Min(FreeFds)]
           /\ files' = WithFile(Min(FreeFds), Head(backlog))
           /\ backlog' = Tail(backlog)
  <2>1. conns' \in [Slots -> Cells]
    <3>1. Min(FreeFds) \in Fds
      BY <1>2, FirstFreeFd
    <3>2. [conns[Min(FreeSlots)] EXCEPT !.fd = Min(FreeFds)] \in Cells
      BY <1>2, <3>1, FirstFreeSlot DEF Cells
    <3> QED
      BY <1>2, <3>2
  <2>2. FilesTyped'
    BY <1>2, WithFileTyped
  <2>3. backlog' \in Seq(Peers) /\ Len(backlog') <= Backlog
    BY <1>2, SockAssumption
  <2> QED
    BY <2>1, <2>2, <2>3
<1> QED
  BY <1>1, <1>2 DEF AcceptNblk

\* shttp_sock_close keeps the types of what the kernel holds.
LEMMA DropTyped ==
    ASSUME FilesTyped, link \in [Peers -> {"away", "open", "fin", "reset"}],
           data \subseteq Peers, NEW i, Drop(i)
    PROVE  /\ FilesTyped' /\ data' \subseteq Peers
           /\ link' \in [Peers -> {"away", "open", "fin", "reset"}]
BY WithoutFileTyped DEF Drop

\* Before shttp_init everything has its type.
LEMMA TypeInit == Init => TypeInv
BY SockAssumption DEF Init, TypeInv, TypeOK, Statuses, Slots

\* Every step keeps the types.
LEMMA TypeStep == TypeInv /\ [SockStep]_vars => TypeInv'
<1> SUFFICES ASSUME TypeInv, [SockStep]_vars
             PROVE  TypeInv'
  OBVIOUS
<1> USE SockAssumption
<1>0. /\ conns \in [Slots -> Cells] /\ sock \in Fds \cup {-1} /\ FilesTyped
      /\ backlog \in Seq(Peers) /\ Len(backlog) <= Backlog
      /\ link \in [Peers -> {"away", "open", "fin", "reset"}] /\ data \subseteq Peers
      /\ pc \in {"down", "app", "accept", "scan", "hangup", "read", "sent", "start"}
      /\ slot \in 0 .. ConnCount /\ round \in 0 .. Rounds
      /\ cur \in Slots \cup {-1}
      /\ asker \in Peers \cup {NoPeer} /\ answered \in Peers \cup {NoPeer}
      /\ inits \in 0 .. MaxInits /\ status \in Statuses
      /\ failed \in {"nobody", "program", "scan", "handler"}
      /\ pc \in {"accept", "scan", "hangup"} => round > 0
      /\ pc = "hangup" => slot < ConnCount
  BY DEF TypeInv, TypeOK, Cells, FilesTyped
<1>a. /\ conns' \in [Slots -> Cells] /\ sock' \in Fds \cup {-1} /\ FilesTyped'
      /\ backlog' \in Seq(Peers) /\ Len(backlog') <= Backlog
      /\ link' \in [Peers -> {"away", "open", "fin", "reset"}] /\ data' \subseteq Peers
      /\ pc' \in {"down", "app", "accept", "scan", "hangup", "read", "sent", "start"}
      /\ slot' \in 0 .. ConnCount /\ round' \in 0 .. Rounds
      /\ cur' \in Slots \cup {-1}
      /\ asker' \in Peers \cup {NoPeer} /\ answered' \in Peers \cup {NoPeer}
      /\ inits' \in 0 .. MaxInits /\ status' \in Statuses
      /\ failed' \in {"nobody", "program", "scan", "handler"}
      /\ pc' \in {"accept", "scan", "hangup"} => round' > 0
      /\ pc' = "hangup" => slot' < ConnCount
      => TypeInv'
  BY DEF TypeInv, TypeOK, Cells, FilesTyped
<1>b. UNCHANGED files => FilesTyped'
  BY <1>0 DEF FilesTyped
<1>1. ASSUME InitFails \/ (InitListens /\ pc' \in {"down", "app"} /\ status' \in Statuses)
      PROVE  TypeInv'
  <2>1. /\ conns' = [i \in Slots |-> [fd |-> -1, pollin |-> TRUE]] /\ backlog' = <<>>
        /\ inits < MaxInits /\ inits' = inits + 1
        /\ UNCHANGED <<link, data, slot, round, cur, asker, answered, failed>>
        /\ pc' \in {"down", "app"} /\ status' \in Statuses
    BY <1>0, <1>1 DEF InitFails, InitListens, InitBegins, scan, Statuses
  <2>2. conns' \in [Slots -> Cells]
    BY <2>1 DEF Cells
  <2>3. sock' \in Fds \cup {-1} /\ FilesTyped'
    <3>1. CASE sock' = -1 /\ UNCHANGED files
      BY <1>b, <3>1
    <3>2. CASE /\ FreeFds # {} /\ sock' = Min(FreeFds)
               /\ files' = WithFile(Min(FreeFds), NoPeer)
      BY <1>0, <3>2, FirstFreeFd, WithFileTyped
    <3> QED
      BY <1>1, <3>1, <3>2 DEF InitFails, InitListens
  <2> QED
    BY <1>0, <1>a, <2>1, <2>2, <2>3
<1>2. ASSUME NEW force \in BOOLEAN, SockDeinit(force)
      PROVE  TypeInv'
  <2>1. /\ pc' = "down" /\ cur' = -1 /\ status' \in Statuses
        /\ UNCHANGED <<conns, slot, round, asker, answered, inits, failed>>
    BY <1>2 DEF SockDeinit, scan, Statuses
  <2>2. CASE UNCHANGED <<sock, files, backlog, link, data>>
    BY <1>0, <1>a, <1>b, <2>1, <2>2
  <2>3. CASE /\ sock' \in {-1, sock} /\ files' = WithoutFile(sock) /\ backlog' = <<>>
             /\ link' = [p \in Peers |-> IF p \in Range(backlog) THEN "away" ELSE link[p]]
             /\ data' = data \ Range(backlog)
    <3>1. FilesTyped'
      BY <1>0, <2>3, WithoutFileTyped
    <3>2. /\ link' \in [Peers -> {"away", "open", "fin", "reset"}]
          /\ data' \subseteq Peers
      BY <1>0, <2>3
    <3> QED
      BY <1>0, <1>a, <2>1, <2>3, <3>1, <3>2
  <2> QED
    BY <1>2, <2>2, <2>3 DEF SockDeinit, kernel
<1>3. CASE NextCall
  BY <1>0, <1>a, <1>b, <1>3 DEF NextCall, kernel
<1>4. CASE NextNblk
  BY <1>0, <1>a, <1>b, <1>4 DEF NextNblk, kernel, scan, Statuses
<1>5. CASE SockNextNblk
  BY <1>0, <1>a, <1>b, <1>5 DEF SockNextNblk, kernel
<1>6. CASE RoundBegin
  <2>1. PICK r \in Statuses : AcceptNblk(r) /\ status' = r
    BY <1>6 DEF RoundBegin
  <2>2. /\ conns' \in [Slots -> Cells] /\ FilesTyped'
        /\ backlog' \in Seq(Peers) /\ Len(backlog') <= Backlog
    BY <1>0, <2>1, AcceptTyped
  <2> QED
    BY <1>0, <1>6, <1>a, <2>1, <2>2 DEF RoundBegin
<1>7. CASE ScanHangUp \/ ScanClose
  <2>1. CASE ScanHangUp
    BY <1>0, <1>a, <1>b, <2>1 DEF ScanHangUp, kernel, scan
  <2>2. CASE ScanClose /\ Drop(slot)
    <3>1. /\ Drop(slot) /\ slot < ConnCount /\ slot' = slot + 1 /\ pc' = "scan" /\ round > 0
          /\ conns' = [conns EXCEPT ![slot] = [fd |-> -1, pollin |-> FALSE]]
          /\ UNCHANGED <<sock, backlog, round, cur, asker, answered, inits, failed, status>>
      BY <1>0, <2>2 DEF ScanClose, Aborts, Drop
    <3>2. conns' \in [Slots -> Cells]
      BY <1>0, <3>1 DEF Cells
    <3>3. /\ FilesTyped' /\ data' \subseteq Peers
          /\ link' \in [Peers -> {"away", "open", "fin", "reset"}]
      BY <1>0, <3>1, DropTyped
    <3> QED
      BY <1>0, <1>a, <3>1, <3>2, <3>3
  <2>3. CASE ScanClose /\ Aborts(slot, "scan")
    <3>1. /\ failed' = "scan"
          /\ UNCHANGED <<conns, sock, files, backlog, link, data, pc, slot, round, cur,
                         asker, answered, inits, status>>
      BY <2>3 DEF ScanClose, Aborts, Drop
    <3> QED
      BY <1>0, <1>a, <1>b, <3>1
  <2> QED
    BY <1>7, <2>1, <2>2, <2>3 DEF ScanClose
<1>8. CASE ScanRequest \/ MsgRequest
  <2>1. CASE ScanRequest
    <3>1. /\ data' = data \ {PeerOf(slot)} /\ pc' = "read"
          /\ cur' = slot /\ asker' = PeerOf(slot)
          /\ UNCHANGED <<conns, sock, files, backlog, link, slot, round, answered, inits,
                         failed, status>>
      BY <2>1 DEF ScanRequest, scan
    <3>2. slot \in Slots /\ PeerOf(slot) \in Peers
      BY <1>0, <2>1 DEF ScanRequest, Readable, Slots
    <3> QED
      BY <1>0, <1>a, <1>b, <3>1, <3>2
  <2>2. CASE MsgRequest
    BY <1>0, <1>a, <1>b, <2>2 DEF MsgRequest, kernel, scan, Statuses
  <2> QED
    BY <1>8, <2>1, <2>2
<1>9. CASE ScanNothing
  BY <1>0, <1>a, <1>b, <1>9 DEF ScanNothing, kernel
<1>10. CASE RoundEnd
  BY <1>0, <1>a, <1>b, <1>10 DEF RoundEnd, kernel, Statuses
<1>11. CASE SendRefused
  BY <1>0, <1>a, <1>b, <1>11 DEF SendRefused, kernel, scan, Statuses
<1>12. CASE Sent \/ SendEnds
  <2>1. CASE Sent
    <3>1. /\ answered' = PeerOf(cur) /\ IsOpen(cur) /\ pc' = "sent"
          /\ UNCHANGED <<conns, sock, files, backlog, link, data, slot, round, cur, asker,
                         inits, failed, status>>
      BY <2>1 DEF Sent, kernel, scan
    <3>2. answered' \in Peers \cup {NoPeer}
      BY <1>0, <3>1 DEF IsOpen, PeerOf, FilesTyped
    <3> QED
      BY <1>0, <1>a, <1>b, <3>1, <3>2
  <2>2. CASE SendEnds
    BY <1>0, <1>a, <1>b, <2>2 DEF SendEnds, kernel, scan
  <2> QED
    BY <1>12, <2>1, <2>2
<1>13. CASE SendAccepts /\ pc' \in {"app", "start"} /\ status' \in Statuses
  <2>1. UNCHANGED <<sock, link, data, slot, round, cur, asker, answered, inits, failed>>
    BY <1>13 DEF SendAccepts, scan
  <2>2. PICK r \in Statuses : AcceptNblk(r)
    BY <1>13 DEF SendAccepts
  <2>3. /\ conns' \in [Slots -> Cells] /\ FilesTyped'
        /\ backlog' \in Seq(Peers) /\ Len(backlog') <= Backlog
    BY <1>0, <2>2, AcceptTyped
  <2> QED
    BY <1>0, <1>13, <1>a, <2>1, <2>3
<1>14. CASE Close
  <2>1. CASE Drop(cur)
    <3>1. /\ Drop(cur) /\ cur # -1 /\ status' \in Statuses /\ cur' = -1
          /\ conns' = conns \/ conns' = [conns EXCEPT ![cur].fd = -1]
          /\ UNCHANGED <<sock, backlog, pc, slot, round, asker, answered, inits, failed>>
      BY <1>14, <2>1 DEF Close, Aborts, Drop, Answering, scan, Statuses
    <3>2. conns' \in [Slots -> Cells]
      BY <1>0, <3>1 DEF Cells
    <3>3. /\ FilesTyped' /\ data' \subseteq Peers
          /\ link' \in [Peers -> {"away", "open", "fin", "reset"}]
      BY <1>0, <3>1, DropTyped
    <3> QED
      BY <1>0, <1>a, <3>1, <3>2, <3>3
  <2>2. CASE Aborts(cur, "program") /\ UNCHANGED <<cur, status>>
    <3>1. /\ failed' = "program"
          /\ UNCHANGED <<conns, sock, files, backlog, link, data, pc, slot, round, cur,
                         asker, answered, inits, status>>
      BY <1>14, <2>2 DEF Close, Aborts, scan
    <3> QED
      BY <1>0, <1>a, <1>b, <3>1
  <2> QED
    BY <1>14, <2>1, <2>2 DEF Close
<1>15. ASSUME NEW p \in Peers, Peer(p)
       PROVE  TypeInv'
  <2>1. UNCHANGED <<conns, sock, files, pc, slot, round, cur, asker, answered, inits,
                   failed, status>>
    BY <1>15 DEF Peer, Connect, Request, Finish, Reset, scan
  <2>2. backlog' \in Seq(Peers) /\ Len(backlog') <= Backlog
    BY <1>0, <1>15 DEF Peer, Connect, Request, Finish, Reset
  <2>3. /\ link' \in [Peers -> {"away", "open", "fin", "reset"}]
        /\ data' \subseteq Peers
    BY <1>0, <1>15 DEF Peer, Connect, Request, Finish, Reset
  <2> QED
    BY <1>0, <1>a, <1>b, <2>1, <2>2, <2>3
<1>16. CASE UNCHANGED vars
  BY <1>0, <1>a, <1>b, <1>16 DEF vars
<1> QED
  BY <1>1, <1>2, <1>3, <1>4, <1>5, <1>6, <1>7, <1>8, <1>9, <1>10, <1>11, <1>12,
     <1>13, <1>14, <1>15, <1>16 DEF SockStep, Scan

\* Whatever the table's size, the peers and the program do, every variable
\* stays in its type: the table holds file numbers the process may have, the
\* scan never looks past the last slot, and no round is counted below zero.
THEOREM SockTypes == Spec => []TypeOK
<1>1. TypeInv /\ [Next]_vars => TypeInv'
  BY TypeStep, NextIsSockStep
<1>2. TypeInv => TypeOK
  BY DEF TypeInv
<1> QED
  BY TypeInit, <1>1, <1>2, PTL DEF Spec

-----------------------------------------------------------------------------
(* Responses *)

\* As long as the program is between two calls of shttp_next, the slot it is
\* answering is in use, and the file in it is that of the peer that asked.
Bound ==
    cur # -1 =>
        /\ pc \in {"read", "app", "sent", "start"}
        /\ IsOpen(cur) /\ asker \in Peers /\ PeerOf(cur) = asker

\* Nothing has been answered since shttp_next began.
Unanswered == pc \in {"accept", "scan", "hangup", "read"} => answered = NoPeer

ReplyInv == TypeInv /\ Bound /\ Unanswered /\ ReplyToAsker

\* An accept neither moves nor closes a connection that is in the table.
LEMMA AcceptKeeps ==
    ASSUME conns \in [Slots -> Cells], NEW r, AcceptNblk(r),
           NEW i \in Slots, conns[i].fd # -1
    PROVE  /\ conns'[i] = conns[i]
           /\ IsOpen(i) => conns'[i].fd \in DOMAIN files' /\ files'[conns'[i].fd] = PeerOf(i)
<1>1. CASE UNCHANGED <<conns, files>>
  BY <1>1 DEF IsOpen, PeerOf
<1>2. CASE /\ FreeSlots # {} /\ FreeFds # {}
           /\ conns' = [conns EXCEPT ![Min(FreeSlots)].fd = Min(FreeFds)]
           /\ files' = WithFile(Min(FreeFds), Head(backlog))
  <2>1. Min(FreeSlots) \in Slots /\ Min(FreeSlots) # i
    BY <1>2, FirstFreeSlot
  <2>2. conns'[i] = conns[i]
    BY <1>2, <2>1
  <2>3. IsOpen(i) => conns[i].fd # Min(FreeFds)
    BY <1>2, FirstFreeFd DEF IsOpen
  <2>4. IsOpen(i) => /\ conns[i].fd \in DOMAIN files'
                     /\ files'[conns[i].fd] = files[conns[i].fd]
    BY <1>2, <2>3 DEF WithFile, IsOpen
  <2> QED
    BY <2>2, <2>4 DEF PeerOf
<1> QED
  BY <1>1, <1>2 DEF AcceptNblk

\* Before shttp_init no slot is being answered.
LEMMA ReplyInit == Init => ReplyInv
BY TypeInit DEF Init, ReplyInv, Bound, Unanswered, ReplyToAsker

\* No step moves the connection that is being answered, or hands its number to
\* somebody else.
LEMMA ReplyStep == ReplyInv /\ [SockStep]_vars => ReplyInv'
<1> SUFFICES ASSUME ReplyInv, [SockStep]_vars
             PROVE  ReplyInv'
  OBVIOUS
<1> USE SockAssumption
<1>0. TypeInv' /\ Bound /\ Unanswered /\ ReplyToAsker /\ conns \in [Slots -> Cells]
  BY TypeStep DEF ReplyInv, TypeInv, TypeOK, Cells
<1>a. ASSUME cur' = -1, answered' \in {asker', NoPeer},
             pc' \in {"accept", "scan", "hangup", "read"} => answered' = NoPeer
      PROVE  ReplyInv'
  BY <1>0, <1>a DEF ReplyInv, Bound, Unanswered, ReplyToAsker
<1>b. ASSUME UNCHANGED <<conns, files, pc, cur, asker, answered>>
      PROVE  ReplyInv'
  BY <1>0, <1>b DEF ReplyInv, Bound, Unanswered, ReplyToAsker, IsOpen, PeerOf
<1>c. ASSUME UNCHANGED <<conns, files, cur, asker, answered>>, pc' \in {"app", "start"},
             pc \in {"read", "sent", "start"}
      PROVE  ReplyInv'
  BY <1>0, <1>c DEF ReplyInv, Bound, Unanswered, ReplyToAsker, IsOpen, PeerOf
<1>1. ASSUME InitFails \/ (InitListens /\ pc' \in {"down", "app"} /\ status' \in Statuses)
      PROVE  ReplyInv'
  <2>1. pc = "down" /\ pc' \in {"down", "app"} /\ UNCHANGED <<cur, asker, answered>>
    BY <1>1 DEF InitFails, InitListens, InitBegins
  <2> QED
    BY <1>0, <1>a, <2>1 DEF Bound, ReplyToAsker
<1>2. ASSUME NEW force \in BOOLEAN, SockDeinit(force)
      PROVE  ReplyInv'
  BY <1>0, <1>2, <1>a DEF SockDeinit, ReplyToAsker
<1>3. CASE NextCall \/ NextNblk \/ SockNextNblk
  BY <1>3, <1>a DEF NextCall, NextNblk, SockNextNblk
<1>4. CASE RoundBegin
  BY <1>0, <1>4, <1>a DEF RoundBegin, Bound, Unanswered, ReplyToAsker
<1>5. CASE ScanHangUp
  BY <1>0, <1>5, <1>a DEF ScanHangUp, Bound, Unanswered, ReplyToAsker
<1>6. CASE ScanClose
  <2>1. /\ pc = "hangup" /\ pc' \in {"hangup", "scan"}
        /\ UNCHANGED <<cur, asker, answered>>
    BY <1>6 DEF ScanClose
  <2> QED
    BY <1>0, <1>a, <2>1 DEF Bound, Unanswered, ReplyToAsker
<1>7. CASE ScanRequest
  <2>1. /\ answered = NoPeer /\ pc' = "read" /\ UNCHANGED <<conns, files, answered>>
        /\ cur' = slot /\ asker' = PeerOf(slot)
    BY <1>0, <1>7 DEF ScanRequest, Unanswered
  <2>2. IsOpen(slot) /\ PeerOf(slot) \in Peers
    BY <1>7 DEF ScanRequest, Readable
  <2>3. Bound'
    BY <2>1, <2>2 DEF Bound, IsOpen, PeerOf
  <2> QED
    BY <1>0, <2>1, <2>3 DEF ReplyInv, Unanswered, ReplyToAsker
<1>8. CASE MsgRequest
  <2>1. CASE UNCHANGED <<cur, asker>>
    BY <1>8, <1>c, <2>1 DEF MsgRequest, kernel
  <2>2. CASE cur' = -1
    BY <1>0, <1>8, <1>a, <2>2 DEF MsgRequest, Unanswered
  <2> QED
    BY <1>8, <2>1, <2>2 DEF MsgRequest
<1>9. CASE ScanNothing
  BY <1>0, <1>9, <1>a DEF ScanNothing, Bound, Unanswered, ReplyToAsker
<1>10. CASE RoundEnd
  BY <1>0, <1>10, <1>a DEF RoundEnd, Bound, Unanswered, ReplyToAsker
<1>11. CASE SendRefused
  BY <1>11, <1>b DEF SendRefused, kernel
<1>12. CASE Sent
  <2>1. /\ cur # -1 /\ answered' = PeerOf(cur) /\ pc' = "sent"
        /\ UNCHANGED <<conns, files, cur, asker>>
    BY <1>12 DEF Sent, Answering, kernel
  <2>2. Bound' /\ answered' = asker'
    BY <1>0, <2>1 DEF Bound, IsOpen, PeerOf
  <2> QED
    BY <1>0, <2>1, <2>2 DEF ReplyInv, Unanswered, ReplyToAsker
<1>13. CASE SendAccepts /\ pc' \in {"app", "start"} /\ status' \in Statuses
  <2>1. PICK r \in Statuses : AcceptNblk(r)
    BY <1>13 DEF SendAccepts
  <2>2. UNCHANGED <<cur, asker, answered>>
    BY <1>13 DEF SendAccepts
  <2>3. Bound'
    <3>1. SUFFICES ASSUME cur # -1
                   PROVE  /\ conns'[cur].fd \in DOMAIN files' /\ asker \in Peers
                          /\ files'[conns'[cur].fd] = asker
      BY <1>13, <2>2, <3>1 DEF Bound, IsOpen, PeerOf
    <3>2. cur \in Slots /\ conns[cur].fd # -1 /\ IsOpen(cur) /\ asker \in Peers
          /\ PeerOf(cur) = asker
      BY <1>0, <3>1 DEF Bound, IsOpen, ReplyInv, TypeInv, TypeOK, Fds
    <3> QED
      BY <1>0, <2>1, <3>2, AcceptKeeps
  <2> QED
    BY <1>0, <1>13, <2>2, <2>3 DEF ReplyInv, Unanswered, ReplyToAsker
<1>14. CASE SendEnds
  BY <1>14, <1>c DEF SendEnds, kernel
<1>15. CASE Close
  <2>1. CASE Drop(cur) /\ cur' = -1
    BY <1>0, <1>15, <1>a, <2>1 DEF Close, Answering, ReplyToAsker
  <2>2. CASE Aborts(cur, "program") /\ UNCHANGED cur
    BY <1>15, <1>b, <2>2 DEF Close, Aborts
  <2> QED
    BY <1>15, <2>1, <2>2 DEF Close
<1>16. ASSUME NEW p \in Peers, Peer(p)
       PROVE  ReplyInv'
  BY <1>16, <1>b DEF Peer, Connect, Request, Finish, Reset
<1>17. CASE UNCHANGED vars
  BY <1>17, <1>b DEF vars
<1> QED
  BY <1>1, <1>2, <1>3, <1>4, <1>5, <1>6, <1>7, <1>8, <1>9, <1>10, <1>11, <1>12,
     <1>13, <1>14, <1>15, <1>16, <1>17 DEF SockStep, Scan

\* Whatever the peers do between two steps, and whatever closes and accepts
\* have done to the table before, a response goes to the peer that asked.
THEOREM ResponseGoesToAsker == Spec => []ReplyToAsker
<1>1. ReplyInv /\ [Next]_vars => ReplyInv'
  BY ReplyStep, NextIsSockStep
<1>2. ReplyInv => ReplyToAsker
  BY DEF ReplyInv
<1> QED
  BY ReplyInit, <1>1, <1>2, PTL DEF Spec

-----------------------------------------------------------------------------
(* The table and the kernel *)

Untouched ==
    /\ pc = "down" /\ DOMAIN files = {} /\ sock = -1
    /\ \A i \in Slots : conns[i].fd = -1

\* What is in the table, or listens, is open, and no two slots share a file.
SlotsOpen ==
    /\ \A i \in Slots : conns[i].fd # -1 => IsOpen(i) /\ conns[i].fd # sock
    /\ \A i, j \in Slots : i # j /\ conns[i].fd # -1 => conns[i].fd # conns[j].fd
    /\ sock # -1 => sock \in DOMAIN files

\* What is open is in the table, or listens.
NothingLeaks == \A f \in DOMAIN files : f = sock \/ \E i \in Slots : conns[i].fd = f

Agree == SlotsOpen /\ NothingLeaks

TableInv ==
    /\ TypeInv
    /\ inits = 0 => Untouched
    /\ inits <= 1 => Agree

\* An accept keeps the agreement: the file goes into a free slot, under a
\* number that nothing else has.
LEMMA AcceptAgrees ==
    ASSUME conns \in [Slots -> Cells], DOMAIN files \subseteq Fds, SlotsOpen,
           UNCHANGED sock, NEW r, AcceptNblk(r)
    PROVE  SlotsOpen' /\ (NothingLeaks => NothingLeaks')
<1>1. CASE UNCHANGED <<conns, files>>
  BY <1>1 DEF SlotsOpen, NothingLeaks, IsOpen
<1>2. CASE /\ FreeSlots # {} /\ FreeFds # {}
           /\ conns' = [conns EXCEPT ![Min(FreeSlots)].fd = Min(FreeFds)]
           /\ files' = WithFile(Min(FreeFds), Head(backlog))
  <2> DEFINE s == Min(FreeSlots)
             f == Min(FreeFds)
  <2>1. s \in Slots /\ conns[s].fd = -1
    BY <1>2, FirstFreeSlot
  <2>2. f \in Fds /\ f \notin DOMAIN files /\ f # -1
    BY <1>2, FirstFreeFd, SockAssumption DEF Fds
  <2>3. conns'[s].fd = f /\ \A i \in Slots : i # s => conns'[i] = conns[i]
    BY <1>2, <2>1 DEF Cells
  <2>4. DOMAIN files' = DOMAIN files \cup {f}
    BY <1>2 DEF WithFile
  <2> HIDE DEF s, f
  <2>5. SlotsOpen'
    <3>1. \A i \in Slots : conns'[i].fd # -1 => /\ conns'[i].fd \in DOMAIN files'
                                              /\ conns'[i].fd # sock'
      BY <2>1, <2>2, <2>3, <2>4 DEF SlotsOpen, IsOpen
    <3>2. \A i, j \in Slots : i # j /\ conns'[i].fd # -1 => conns'[i].fd # conns'[j].fd
      BY <2>1, <2>2, <2>3 DEF SlotsOpen, IsOpen
    <3>3. sock' # -1 => sock' \in DOMAIN files'
      BY <2>4 DEF SlotsOpen
    <3> QED
      BY <3>1, <3>2, <3>3 DEF SlotsOpen, IsOpen
  <2>6. NothingLeaks => NothingLeaks'
    <3>1. -1 \notin DOMAIN files
      BY SockAssumption DEF Fds
    <3> QED
      BY <2>1, <2>3, <2>4, <3>1 DEF NothingLeaks
  <2> QED
    BY <2>5, <2>6
<1> QED
  BY <1>1, <1>2 DEF AcceptNblk

\* A slot that is closed and freed in the same step keeps the agreement.
LEMMA FreedAgrees ==
    ASSUME conns \in [Slots -> Cells], SlotsOpen, UNCHANGED sock,
           NEW i \in Slots, conns[i].fd # -1, files' = WithoutFile(conns[i].fd),
           NEW b \in BOOLEAN, conns' = [conns EXCEPT ![i] = [fd |-> -1, pollin |-> b]]
    PROVE  SlotsOpen' /\ (NothingLeaks => NothingLeaks')
<1>1. conns'[i].fd = -1 /\ \A j \in Slots : j # i => conns'[j] = conns[j]
  BY DEF Cells
<1>2. DOMAIN files' = DOMAIN files \ {conns[i].fd}
  BY DEF WithoutFile
<1> QED
  BY <1>1, <1>2 DEF SlotsOpen, NothingLeaks, IsOpen

\* Freeing a slot that is in use leaves its events alone.
LEMMA FreeKeepsEvents ==
    ASSUME conns \in [Slots -> Cells], NEW i \in Slots
    PROVE  /\ conns[i].pollin \in BOOLEAN
           /\ [conns EXCEPT ![i].fd = -1]
                 = [conns EXCEPT ![i] = [fd |-> -1, pollin |-> conns[i].pollin]]
<1>1. conns[i] \in Cells
  OBVIOUS
<1>2. [conns[i] EXCEPT !.fd = -1] = [fd |-> -1, pollin |-> conns[i].pollin]
  BY <1>1 DEF Cells
<1> QED
  BY <1>1, <1>2 DEF Cells

\* Before shttp_init nothing is open.
LEMMA TableInit == Init => TableInv
<1>1. Init => Untouched /\ Agree
  BY DEF Init, Untouched, Agree, SlotsOpen, NothingLeaks, IsOpen
<1> QED
  BY <1>1, TypeInit DEF TableInv

\* Every step keeps the agreement, when a close that is asked for frees its
\* slot.
LEMMA TableStep ==
    ASSUME ~CloseFails
    PROVE  TableInv /\ [SockStep]_vars => TableInv'
<1> SUFFICES ASSUME TableInv, [SockStep]_vars
             PROVE  TableInv'
  OBVIOUS
<1> USE SockAssumption
<1>0. /\ TypeInv' /\ conns \in [Slots -> Cells] /\ inits \in Nat /\ slot \in Nat
      /\ DOMAIN files \subseteq Fds /\ cur \in Slots \cup {-1}
      /\ inits = 0 => Untouched
      /\ inits <= 1 => Agree
  BY TypeStep DEF TableInv, TypeInv, TypeOK, Cells
<1>a. ASSUME UNCHANGED <<conns, files, sock, inits>>, pc # "down" \/ UNCHANGED pc
      PROVE  TableInv'
  <2>1. inits' = 0 => Untouched'
    BY <1>0, <1>a DEF Untouched
  <2>2. inits' <= 1 => Agree'
    BY <1>0, <1>a DEF Agree, SlotsOpen, NothingLeaks, IsOpen
  <2> QED
    BY <1>0, <2>1, <2>2 DEF TableInv
<1>b. ASSUME pc # "down", UNCHANGED inits, Agree => Agree'
      PROVE  TableInv'
  BY <1>0, <1>b DEF TableInv, Untouched
<1>1. ASSUME InitFails \/ (InitListens /\ pc' \in {"down", "app"} /\ status' \in Statuses)
      PROVE  TableInv'
  <2>1. /\ inits' = inits + 1
        /\ conns' = [i \in Slots |-> [fd |-> -1, pollin |-> TRUE]]
    BY <1>1 DEF InitFails, InitListens, InitBegins
  <2>2. SUFFICES ASSUME inits = 0
                 PROVE  Agree'
    BY <1>0, <2>1, <2>2 DEF TableInv
  <2>3. DOMAIN files = {} /\ \A i \in Slots : conns'[i].fd = -1
    BY <1>0, <2>1, <2>2 DEF Untouched
  <2>4. CASE sock' = -1 /\ UNCHANGED files
    BY <2>3, <2>4 DEF Agree, SlotsOpen, NothingLeaks
  <2>5. CASE /\ sock' = Min(FreeFds)
             /\ files' = WithFile(Min(FreeFds), NoPeer)
    <3>1. DOMAIN files' = {sock'}
      BY <2>3, <2>5 DEF WithFile
    <3> QED
      BY <2>3, <3>1 DEF Agree, SlotsOpen, NothingLeaks
  <2> QED
    BY <1>1, <2>4, <2>5 DEF InitFails, InitListens
<1>2. ASSUME NEW force \in BOOLEAN, SockDeinit(force)
      PROVE  TableInv'
  <2>1. inits > 0 /\ UNCHANGED <<conns, inits>>
    BY <1>2 DEF SockDeinit
  <2>2. SUFFICES ASSUME Agree
                 PROVE  Agree'
    BY <1>0, <2>1, <2>2 DEF TableInv
  <2>3. CASE UNCHANGED <<sock, files>>
    BY <2>1, <2>2, <2>3 DEF Agree, SlotsOpen, NothingLeaks, IsOpen
  <2>4. CASE sock' = -1 /\ files' = WithoutFile(sock)
    <3>1. DOMAIN files' = DOMAIN files \ {sock}
      BY <2>4 DEF WithoutFile
    <3> QED
      BY <2>1, <2>2, <2>4, <3>1 DEF Agree, SlotsOpen, NothingLeaks, IsOpen
  <2>5. ~(sock # -1 /\ sock \notin DOMAIN files)
    BY <2>2 DEF Agree, SlotsOpen
  <2> QED
    BY <1>2, <2>3, <2>4, <2>5 DEF SockDeinit, kernel
<1>3. CASE NextCall \/ NextNblk \/ SockNextNblk
  BY <1>3, <1>a DEF NextCall, NextNblk, SockNextNblk, kernel
<1>4. CASE RoundBegin
  <2>1. pc = "accept" /\ UNCHANGED <<sock, inits>> /\ \E r \in Statuses : AcceptNblk(r)
    BY <1>4 DEF RoundBegin
  <2> QED
    BY <1>0, <1>b, <2>1, AcceptAgrees DEF Agree
<1>5. CASE ScanHangUp
  BY <1>5, <1>a DEF ScanHangUp, kernel
<1>6. CASE ScanClose
  <2>1. CASE Drop(slot)
    <3>1. /\ pc = "hangup" /\ IsOpen(slot) /\ files' = WithoutFile(conns[slot].fd)
          /\ conns' = [conns EXCEPT ![slot] = [fd |-> -1, pollin |-> FALSE]]
          /\ UNCHANGED <<sock, inits>>
      BY <1>6, <2>1 DEF ScanClose, Aborts, Drop
    <3>2. slot \in Slots
      BY <1>0, <3>1 DEF Slots, TableInv, TypeInv
    <3>3. conns[slot].fd # -1
      BY <1>0, <3>1, <3>2 DEF IsOpen, Fds
    <3> QED
      BY <1>0, <1>b, <3>1, <3>2, <3>3, FreedAgrees DEF Agree
  <2>2. CASE Aborts(slot, "scan")
    BY <1>6, <1>a, <2>2 DEF ScanClose, Aborts, Drop
  <2> QED
    BY <1>6, <2>1, <2>2 DEF ScanClose
<1>7. CASE ScanRequest \/ MsgRequest
  BY <1>7, <1>a DEF ScanRequest, MsgRequest, kernel
<1>8. CASE ScanNothing
  BY <1>8, <1>a DEF ScanNothing, kernel
<1>9. CASE RoundEnd
  BY <1>9, <1>a DEF RoundEnd, kernel
<1>10. CASE SendRefused \/ Sent
  BY <1>10, <1>a DEF SendRefused, Sent, Answering, kernel
<1>11. CASE SendAccepts \/ SendEnds
  <2>1. CASE SendAccepts
    <3>1. pc = "sent" /\ UNCHANGED <<sock, inits>> /\ \E r \in Statuses : AcceptNblk(r)
      BY <2>1 DEF SendAccepts
    <3> QED
      BY <1>0, <1>b, <3>1, AcceptAgrees DEF Agree
  <2>2. CASE SendEnds
    BY <1>a, <2>2 DEF SendEnds, kernel
  <2> QED
    BY <1>11, <2>1, <2>2
<1>12. CASE Close
  <2>1. CASE Drop(cur)
    <3>1. /\ pc = "app" /\ cur # -1 /\ IsOpen(cur)
          /\ files' = WithoutFile(conns[cur].fd)
          /\ conns' = [conns EXCEPT ![cur].fd = -1]
          /\ UNCHANGED <<sock, inits>>
      BY <1>12, <2>1 DEF Close, Answering, Drop, Aborts
    <3>2. cur \in Slots /\ conns[cur].fd # -1
      BY <1>0, <3>1 DEF IsOpen, Fds
    <3>3. /\ conns[cur].pollin \in BOOLEAN
          /\ conns' = [conns EXCEPT ![cur] = [fd |-> -1, pollin |-> conns[cur].pollin]]
      BY <1>0, <3>1, <3>2, FreeKeepsEvents
    <3> QED
      BY <1>0, <1>b, <3>1, <3>2, <3>3, FreedAgrees DEF Agree
  <2>2. CASE Aborts(cur, "program")
    BY <1>12, <1>a, <2>2 DEF Close, Aborts, Drop
  <2> QED
    BY <1>12, <2>1, <2>2 DEF Close
<1>13. ASSUME NEW p \in Peers, Peer(p)
       PROVE  TableInv'
  BY <1>13, <1>a DEF Peer, Connect, Request, Finish, Reset
<1>14. CASE UNCHANGED vars
  BY <1>14, <1>a DEF vars
<1> QED
  BY <1>1, <1>2, <1>3, <1>4, <1>5, <1>6, <1>7, <1>8, <1>9, <1>10, <1>11, <1>12,
     <1>13, <1>14 DEF SockStep, Scan

\* Until shttp_init is called a second time, and as long as close reports no
\* error, nothing leaks from the table and no slot answers for another's
\* connection.  (A close that fails leaves the number of a closed file in its
\* slot: sock.c:136 returns before it frees it.)
THEOREM TableAgrees ==
    ASSUME ~CloseFails
    PROVE  Spec => []TableMatchesKernel
<1>1. TableInv /\ [Next]_vars => TableInv'
  BY TableStep, NextIsSockStep
<1>2. TableInv => TableMatchesKernel
  BY DEF TableInv, Agree, SlotsOpen, NothingLeaks, TableMatchesKernel
<1> QED
  BY TableInit, <1>1, <1>2, PTL DEF Spec

-----------------------------------------------------------------------------
(* The timers of module KeepAlive *)

Entries == [conn : Slots, owner : Peers]

HasTimer(c) == \E k \in DOMAIN timers : timers[k].conn = c

\* No two timers stand for the same slot.
Distinct ==
    \A j, k \in DOMAIN timers : timers[j].conn = timers[k].conn => j = k

-----------------------------------------------------------------------------
(* The queue of timers *)

\* What is left of a sequence without its element at k.
LEMMA RemovedAt ==
    ASSUME NEW S, NEW s \in Seq(S), NEW k \in 1 .. Len(s)
    PROVE  /\ RemoveAt(s, k) \in Seq(S)
           /\ Len(RemoveAt(s, k)) = Len(s) - 1
           /\ \A i \in 1 .. Len(s) - 1 :
                RemoveAt(s, k)[i] = IF i < k THEN s[i] ELSE s[i + 1]
BY RemovedEntry DEF RemoveAt

\* IndexOf finds the timer of a slot, if there is one.
LEMMA IndexFound ==
    ASSUME timers \in Seq(Entries), NEW c
    PROVE  \/ IndexOf(c) = 0 /\ ~HasTimer(c)
           \/ IndexOf(c) \in 1 .. Len(timers) /\ timers[IndexOf(c)].conn = c
<1> DEFINE I == {k \in 1 .. Len(timers) : timers[k].conn = c}
<1>1. IndexOf(c) = IF I # {} THEN Min(I) ELSE 0
  BY DEF IndexOf, SelectInSeq
<1>2. I \subseteq Nat /\ DOMAIN timers = 1 .. Len(timers)
  OBVIOUS
<1>3. CASE I # {}
  <2>1. Min(I) \in I
    BY <1>2, <1>3, MinIsLeast
  <2> QED
    BY <1>1, <1>3, <2>1
<1>4. CASE I = {}
  BY <1>1, <1>2, <1>4 DEF HasTimer
<1> QED
  BY <1>3, <1>4

\* Stopping the timer of c leaves the timers of the other slots in the order
\* they have, each for the peer it had.
LEMMA StopKeepsOthers ==
    ASSUME timers \in Seq(Entries), NEW c, TimerStop(c)
    PROVE  /\ timers' \in Seq(Entries) /\ Len(timers') <= Len(timers)
           /\ \A j \in DOMAIN timers' : \E k \in DOMAIN timers : timers'[j] = timers[k]
           /\ \A k \in DOMAIN timers :
                timers[k].conn # c => \E j \in DOMAIN timers' : timers'[j] = timers[k]
           /\ Distinct => Distinct' /\ \A j \in DOMAIN timers' : timers'[j].conn # c
           /\ (timers # <<>> => armed) => (timers' # <<>> => armed')
<1> DEFINE k0 == IndexOf(c)
<1>1. CASE k0 = 0
  BY <1>1, IndexFound DEF TimerStop, HasTimer, Distinct
<1>2. CASE k0 \in 1 .. Len(timers) /\ timers[k0].conn = c
  <2>1. timers' = RemoveAt(timers, k0) /\ armed' = IF k0 = 1 THEN Len(timers) > 1 ELSE armed
    BY <1>2 DEF TimerStop
  <2> HIDE DEF k0
  <2>2. /\ timers' \in Seq(Entries) /\ Len(timers') = Len(timers) - 1
        /\ \A i \in 1 .. Len(timers) - 1 :
              timers'[i] = IF i < k0 THEN timers[i] ELSE timers[i + 1]
    BY <1>2, <2>1, RemovedAt
  <2>3. DOMAIN timers = 1 .. Len(timers) /\ DOMAIN timers' = 1 .. Len(timers) - 1
    BY <2>2
  <2>4. ASSUME NEW j \in DOMAIN timers'
        PROVE  \E k \in DOMAIN timers : timers'[j] = timers[k]
    BY <2>2, <2>3
  <2>5. ASSUME NEW k \in DOMAIN timers, timers[k].conn # c
        PROVE  \E j \in DOMAIN timers' : timers'[j] = timers[k]
    <3>1. CASE k < k0
      BY <1>2, <2>2, <2>3, <3>1
    <3>2. CASE k > k0
      <4>1. k - 1 \in 1 .. Len(timers) - 1 /\ ~(k - 1 < k0)
        BY <1>2, <2>3, <3>2
      <4>2. timers'[k - 1] = timers[(k - 1) + 1]
        BY <2>2, <4>1
      <4> QED
        BY <2>3, <4>1, <4>2
    <3>3. k # k0
      BY <1>2, <2>5
    <3> QED
      BY <1>2, <2>3, <3>1, <3>2, <3>3
  <2>6. ASSUME Distinct
        PROVE  Distinct' /\ \A j \in DOMAIN timers' : timers'[j].conn # c
    <3>1. \A j \in DOMAIN timers' :
            \E k \in DOMAIN timers : /\ timers'[j] = timers[k] /\ k # k0
                                     /\ k = IF j < k0 THEN j ELSE j + 1
      BY <1>2, <2>2, <2>3
    <3>2. \A j \in DOMAIN timers' : timers'[j].conn # c
      BY <1>2, <2>3, <2>6, <3>1 DEF Distinct
    <3>3. Distinct'
      BY <1>2, <2>3, <2>6, <3>1 DEF Distinct
    <3> QED
      BY <3>2, <3>3
  <2>7. (timers # <<>> => armed) => (timers' # <<>> => armed')
    <3>1. timers # <<>>
      BY <1>2
    <3>2. timers' # <<>> => Len(timers) > 1
      BY <2>2
    <3> QED
      BY <2>1, <3>1, <3>2
  <2> QED
    BY <2>2, <2>4, <2>5, <2>6, <2>7
<1> QED
  BY <1>1, <1>2, IndexFound

\* Whether the timer is armed has a definite answer after a stop, too.
LEMMA StopArmed ==
    ASSUME armed \in BOOLEAN, NEW c, TimerStop(c)
    PROVE  armed' \in BOOLEAN
<1>1. CASE armed' = armed
  BY <1>1
<1>2. CASE armed' = (Len(timers) > 1)
  BY <1>2
<1> QED
  BY <1>1, <1>2 DEF TimerStop

\* As StopKeepsOthers, for the handler, which takes the head of the queue.
LEMMA TailKeepsOthers ==
    ASSUME timers \in Seq(Entries), timers # <<>>, timers' = Tail(timers)
    PROVE  /\ timers' \in Seq(Entries) /\ Len(timers') = Len(timers) - 1
           /\ Head(timers) \in Entries
           /\ \A j \in DOMAIN timers' : j + 1 \in DOMAIN timers /\ timers'[j] = timers[j + 1]
           /\ \A j \in DOMAIN timers' : \E k \in DOMAIN timers : timers'[j] = timers[k]
           /\ \A k \in DOMAIN timers :
                \/ timers[k].conn = Head(timers).conn
                \/ \E j \in DOMAIN timers' : timers'[j] = timers[k]
           /\ Distinct =>
                /\ Distinct'
                /\ \A j \in DOMAIN timers' : timers'[j].conn # Head(timers).conn
<1>1. /\ timers' \in Seq(Entries) /\ Len(timers') = Len(timers) - 1
      /\ Head(timers) = timers[1] /\ Head(timers) \in Entries
      /\ \A j \in 1 .. Len(timers) - 1 : timers'[j] = timers[j + 1]
  OBVIOUS
<1>2. DOMAIN timers = 1 .. Len(timers) /\ DOMAIN timers' = 1 .. Len(timers) - 1
      /\ Len(timers) \in Nat
  BY <1>1
<1>3. \A j \in DOMAIN timers' : j + 1 \in DOMAIN timers /\ timers'[j] = timers[j + 1]
  BY <1>1, <1>2
<1>4. \A k \in DOMAIN timers : k # 1 => k - 1 \in DOMAIN timers' /\ timers'[k - 1] = timers[k]
  <2> SUFFICES ASSUME NEW k \in DOMAIN timers, k # 1
               PROVE  k - 1 \in DOMAIN timers' /\ timers'[k - 1] = timers[k]
    OBVIOUS
  <2>1. k - 1 \in 1 .. Len(timers) - 1 /\ (k - 1) + 1 = k
    BY <1>2
  <2>2. timers'[k - 1] = timers[(k - 1) + 1]
    BY <1>1, <2>1
  <2> QED
    BY <1>2, <2>1, <2>2
<1>5. ASSUME Distinct
      PROVE  Distinct' /\ \A j \in DOMAIN timers' : timers'[j].conn # Head(timers).conn
  <2>1. 1 \in DOMAIN timers /\ \A j \in DOMAIN timers' : j \in Nat /\ j + 1 # 1
    BY <1>2, <1>1
  <2>2. \A j \in DOMAIN timers' : timers'[j].conn # timers[1].conn
    BY <1>3, <1>5, <2>1 DEF Distinct
  <2>3. \A i, j \in DOMAIN timers' : i + 1 = j + 1 => i = j
    BY <2>1
  <2>4. Distinct'
    BY <1>3, <1>5, <2>3 DEF Distinct
  <2> QED
    BY <1>1, <2>2, <2>4
<1> QED
  BY <1>1, <1>2, <1>3, <1>4, <1>5

\* Timers of different slots, none of which is c, leave room in a list that is
\* as long as the table.
LEMMA ListHasRoom ==
    ASSUME timers \in Seq(Entries), Distinct, NEW c \in Slots, ~HasTimer(c)
    PROVE  Len(timers) < ConnCount
<1> USE SockAssumption
<1> DEFINE f == [k \in 1 .. Len(timers) |-> timers[k].conn]
<1>0. Len(timers) \in Nat /\ DOMAIN timers = 1 .. Len(timers)
  OBVIOUS
<1>1. IsFiniteSet(1 .. Len(timers)) /\ Cardinality(1 .. Len(timers)) = Len(timers)
  BY <1>0, FS_Interval
<1>2. IsFiniteSet(Slots \ {c}) /\ Cardinality(Slots \ {c}) = ConnCount - 1
  <2>1. IsFiniteSet(Slots) /\ Cardinality(Slots) = ConnCount
    BY FS_Interval DEF Slots
  <2> QED
    BY <2>1, FS_RemoveElement
<1>3. f \in [1 .. Len(timers) -> Slots \ {c}]
  <2>1. \A k \in 1 .. Len(timers) : timers[k] \in Entries
    OBVIOUS
  <2>2. \A k \in 1 .. Len(timers) : timers[k].conn \in Slots /\ timers[k].conn # c
    BY <1>0, <2>1 DEF HasTimer, Entries
  <2> QED
    BY <2>2
<1>4. \A j, k \in 1 .. Len(timers) : f[j] = f[k] => j = k
  BY <1>0 DEF Distinct
<1> HIDE DEF f
<1>5. ~(Cardinality(Slots \ {c}) < Cardinality(1 .. Len(timers)))
  BY <1>1, <1>2, <1>3, <1>4, FS_PigeonHole
<1> QED
  BY <1>0, <1>1, <1>2, <1>5

-----------------------------------------------------------------------------
(* Types, and the binding of the first response *)

KATyped ==
    /\ timers \in Seq(Entries) /\ Len(timers) <= ConnCount
    /\ armed \in BOOLEAN
    /\ handler \in Handlers
    /\ sends \in 0 .. MaxSends
    /\ several \in BOOLEAN /\ late \in BOOLEAN
    /\ kept \subseteq Slots

\* Until the response leaves, the slot of the request is either that of the
\* peer that asked or closed by the handler: nothing accepts meanwhile.
AskerHoldsSlot ==
    /\ pc \in {"down", "accept", "scan", "hangup"} => cur = -1
    /\ pc \in {"accept", "scan", "hangup", "read"} => sends = 0
    /\ pc \in {"sent", "start"} => sends > 0 /\ cur # -1
    /\ sends = 0 => answered = NoPeer
    /\ cur # -1 =>
        /\ asker \in Peers
        /\ sends = 0 /\ IsOpen(cur) => PeerOf(cur) = asker

KAInv == TypeInv /\ KATyped /\ AskerHoldsSlot /\ FirstReplyToAsker

\* What a step of KeepAlive does to the variables of Sock.
LEMMA KAMoves ==
    ASSUME TypeInv, KANext
    PROVE  SockStep \/ UNCHANGED vars \/ SignalHandler
<1>1. KeepAliveInit => SockStep
  BY DEF KeepAliveInit, SockStep, Statuses
<1>2. KeepAliveScan \/ KeepAliveHangUp \/ KeepAliveRequest => SockStep
  BY DEF KeepAliveScan, KeepAliveHangUp, KeepAliveRequest, SockStep, Scan
<1>3. KeepAliveSend => SockStep
  BY DEF KeepAliveSend, SockStep
<1>4. KeepAliveAccept => SockStep
  <2>1. KeepAliveAccept => SendAccepts /\ pc' = "start" /\ status' = status
    BY DEF KeepAliveAccept
  <2>2. status \in Statuses
    BY DEF TypeInv, TypeOK
  <2> QED
    BY <2>1, <2>2 DEF SockStep
<1>5. KeepAliveStart => SockStep
  <2>1. KeepAliveStart => SendEnds
    BY DEF KeepAliveStart, SendEnds, Statuses, program
  <2> QED
    BY <2>1 DEF SockStep
<1> QED
  BY <1>1, <1>2, <1>3, <1>4, <1>5
  DEF KANext, Server, KeepAliveDeinit, KeepAliveNext, KeepAliveSendRefused,
      KeepAliveClose, NoopHandler, KAPeer, SockStep

\* What the handler does to the table and to what the kernel holds keeps their
\* types.
LEMMA HandlerTypes ==
    ASSUME TypeInv, KATyped, SignalHandler
    PROVE  TypeInv'
<1> DEFINE id == Head(timers).conn
<1> USE SockAssumption
<1>0. /\ conns \in [Slots -> Cells] /\ FilesTyped
      /\ link \in [Peers -> {"away", "open", "fin", "reset"}] /\ data \subseteq Peers
  BY DEF TypeInv, TypeOK, Cells, FilesTyped
<1>1. UNCHANGED <<sock, backlog, pc, slot, round, cur, asker, answered, inits, status>>
  BY DEF SignalHandler, scan
<1>2. id \in Slots
  <2>1. timers # <<>> /\ timers \in Seq(Entries)
    BY DEF SignalHandler, Expired, KATyped
  <2>2. Head(timers) \in Entries
    BY <2>1
  <2> QED
    BY <2>2 DEF Entries
<1> HIDE DEF id
<1>3. CASE /\ Drop(id) /\ UNCHANGED failed
           /\ conns' = conns \/ conns' = [conns EXCEPT ![id].fd = -1]
  <2>1. conns' \in [Slots -> Cells]
    BY <1>0, <1>2, <1>3 DEF Cells
  <2>2. /\ FilesTyped' /\ data' \subseteq Peers
        /\ link' \in [Peers -> {"away", "open", "fin", "reset"}]
    BY <1>0, <1>3, DropTyped
  <2> QED
    BY <1>1, <1>3, <2>1, <2>2 DEF TypeInv, TypeOK, Cells, FilesTyped
<1>4. CASE Aborts(id, "handler")
  <2>1. UNCHANGED <<conns, files, link, data>> /\ failed' = "handler"
    BY <1>4 DEF Aborts
  <2>2. FilesTyped'
    BY <1>0, <2>1 DEF FilesTyped
  <2> QED
    BY <1>1, <2>1, <2>2 DEF TypeInv, TypeOK, Cells, FilesTyped
<1> QED
  BY <1>3, <1>4 DEF SignalHandler, id

\* The handler takes files away and gives none to anybody.
LEMMA HandlerBinding ==
    ASSUME TypeInv, AskerHoldsSlot, KATyped, SignalHandler
    PROVE  AskerHoldsSlot'
<1> DEFINE id == Head(timers).conn
<1> USE SockAssumption
<1>1. UNCHANGED <<pc, cur, asker, answered, sends>>
  BY DEF SignalHandler, program
<1>2. ASSUME cur # -1, sends = 0, conns'[cur].fd \in DOMAIN files'
      PROVE  files'[conns'[cur].fd] = asker
  <2>1. cur \in Slots /\ conns \in [Slots -> Cells] /\ DOMAIN files \subseteq Fds
    BY <1>2 DEF TypeInv, TypeOK, Cells
  <2>2. IsOpen(cur) => PeerOf(cur) = asker
    BY <1>2 DEF AskerHoldsSlot
  <2>3. CASE Drop(id) /\ (conns' = conns \/ conns' = [conns EXCEPT ![id].fd = -1])
    <3>1. files' = WithoutFile(conns[id].fd)
      BY <2>3 DEF Drop
    <3>2. conns'[cur].fd = conns[cur].fd \/ conns'[cur].fd = -1
      BY <2>1, <2>3 DEF Cells
    <3>3. conns'[cur].fd # -1
      BY <1>2, <2>1, <3>1 DEF WithoutFile, Fds
    <3> QED
      BY <1>2, <2>2, <3>1, <3>2, <3>3 DEF WithoutFile, IsOpen, PeerOf
  <2>4. CASE UNCHANGED <<conns, files>>
    BY <1>2, <2>2, <2>4 DEF IsOpen, PeerOf
  <2> QED
    BY <2>3, <2>4 DEF SignalHandler, Aborts
<1>3. cur' # -1 => /\ asker' \in Peers
                   /\ sends' = 0 /\ IsOpen(cur)' => PeerOf(cur)' = asker'
  BY <1>1, <1>2 DEF AskerHoldsSlot, IsOpen, PeerOf
<1> QED
  BY <1>1, <1>3 DEF AskerHoldsSlot

\* Before shttp_init there are no timers.
LEMMA KAInvInit == KAInit => KAInv
<1> SUFFICES ASSUME KAInit
             PROVE  KAInv
  OBVIOUS
<1>1. timers \in Seq(Entries) /\ Len(timers) <= ConnCount
  BY SockAssumption DEF KAInit
<1>2. armed \in BOOLEAN /\ several \in BOOLEAN /\ late \in BOOLEAN
  BY Zenon DEF KAInit
<1>3. handler \in Handlers /\ sends \in 0 .. MaxSends /\ kept \subseteq Slots
  BY KeepAliveAssumption DEF KAInit
<1>4. TypeInv /\ AskerHoldsSlot /\ FirstReplyToAsker
  BY TypeInit DEF KAInit, Init, AskerHoldsSlot, FirstReplyToAsker, ReplyToAsker
<1> QED
  BY <1>1, <1>2, <1>3, <1>4 DEF KAInv, KATyped

\* Every step keeps the types, and the binding of the first response.
LEMMA KAInvStep == KAInv /\ [KANext]_kaVars => KAInv'
<1> SUFFICES ASSUME KAInv, [KANext]_kaVars
             PROVE  KAInv'
  OBVIOUS
<1> USE SockAssumption, KeepAliveAssumption
<1>0. KATyped /\ TypeOK /\ AskerHoldsSlot /\ FirstReplyToAsker
  BY DEF KAInv, TypeInv
<1>1. TypeInv'
  <2>1. CASE SockStep \/ UNCHANGED vars
    BY <2>1, TypeStep DEF KAInv
  <2>2. CASE SignalHandler
    BY <2>2, HandlerTypes DEF KAInv
  <2>3. CASE UNCHANGED kaVars
    BY <2>3, TypeStep DEF KAInv, kaVars
  <2> QED
    BY <2>1, <2>2, <2>3, KAMoves DEF KAInv
<1>a. ASSUME KATyped', AskerHoldsSlot', FirstReplyToAsker'
      PROVE  KAInv'
  BY <1>1, <1>a DEF KAInv
<1>b. ASSUME UNCHANGED <<timers, armed, handler, sends, several>>,
             late' \in BOOLEAN, kept' \subseteq Slots
      PROVE  KATyped'
  BY <1>0, <1>b DEF KATyped
<1>c. ASSUME UNCHANGED <<conns, files, pc, cur, asker, answered, sends>>
      PROVE  AskerHoldsSlot' /\ FirstReplyToAsker'
  BY <1>0, <1>c DEF AskerHoldsSlot, FirstReplyToAsker, ReplyToAsker, IsOpen, PeerOf
<1>d. ASSUME cur = -1, UNCHANGED <<cur, asker, answered, sends>>,
             \/ pc \in {"accept", "scan", "hangup"}
             \/ pc = "down" /\ pc' \in {"down", "app"},
             pc' \in {"down", "app", "accept", "scan", "hangup"}
      PROVE  AskerHoldsSlot' /\ FirstReplyToAsker'
  BY <1>0, <1>d DEF AskerHoldsSlot, FirstReplyToAsker, ReplyToAsker
<1>e. UNCHANGED program => UNCHANGED <<handler, sends, several>>
  BY DEF program
<1>f. ASSUME UNCHANGED <<timers, handler, several, kept>>,
             sends' \in 0 .. MaxSends, armed' \in BOOLEAN, late' \in BOOLEAN
      PROVE  KATyped'
  BY <1>0, <1>f DEF KATyped
<1>2. CASE KeepAliveInit
  <2>1. pc = "down" /\ pc' \in {"down", "app"} /\ UNCHANGED <<cur, asker, answered>>
    BY <1>2 DEF KeepAliveInit, InitFails, InitListens, InitBegins
  <2>2. cur = -1
    BY <1>0, <2>1 DEF AskerHoldsSlot
  <2>3. UNCHANGED <<handler, sends, several, late>> /\ kept' = {}
    BY <1>2 DEF KeepAliveInit, program
  <2>4. \/ UNCHANGED <<timers, armed>>
        \/ timers' = <<>> /\ armed' = FALSE
    BY <1>2 DEF KeepAliveInit, timerVars, program
  <2>5. timers' \in Seq(Entries) /\ Len(timers') <= ConnCount
    <3>1. CASE UNCHANGED timers
      BY <1>0, <3>1 DEF KATyped
    <3>2. CASE timers' = <<>>
      BY <3>2
    <3> QED
      BY <2>4, <3>1, <3>2
  <2>6. armed' \in BOOLEAN
    <3>1. armed \in BOOLEAN
      BY <1>0 DEF KATyped
    <3> QED
      BY <2>4, <3>1, Zenon
  <2>7. KATyped'
    BY <1>0, <2>3, <2>5, <2>6 DEF KATyped
  <2>8. AskerHoldsSlot' /\ FirstReplyToAsker'
    BY <1>d, <2>1, <2>2, <2>3
  <2> QED
    BY <1>a, <2>7, <2>8
<1>3. ASSUME NEW force \in BOOLEAN, KeepAliveDeinit(force)
      PROVE  KAInv'
  <2>1. /\ pc' = "down" /\ cur' = -1 /\ UNCHANGED <<asker, answered>>
        /\ armed' = FALSE
        /\ UNCHANGED <<timers, handler, sends, several, late, kept>>
    BY <1>3 DEF KeepAliveDeinit, SockDeinit, program
  <2>2. KATyped'
    <3>1. armed' \in BOOLEAN
      BY <2>1
    <3>2. late' \in BOOLEAN /\ sends' \in 0 .. MaxSends
      BY <1>0, <2>1 DEF KATyped
    <3> QED
      BY <1>f, <2>1, <3>1, <3>2
  <2>3. AskerHoldsSlot' /\ FirstReplyToAsker'
    BY <1>0, <2>1 DEF AskerHoldsSlot, FirstReplyToAsker, ReplyToAsker
  <2> QED
    BY <1>a, <2>2, <2>3
<1>4. CASE KeepAliveNext
  <2>1. /\ cur' = -1 /\ asker' = NoPeer /\ answered' = NoPeer
        /\ sends' = 0 /\ late' = FALSE /\ pc' \in {"app", "accept"}
        /\ UNCHANGED <<timers, armed, handler, several, kept>>
    BY <1>4 DEF KeepAliveNext, NextCall, NextNblk
  <2>2. KATyped'
    <3>1. late' \in BOOLEAN
      BY <2>1
    <3>2. armed' \in BOOLEAN /\ sends' \in 0 .. MaxSends
      BY <1>0, <2>1 DEF KATyped
    <3> QED
      BY <1>f, <2>1, <3>1, <3>2
  <2>3. AskerHoldsSlot' /\ FirstReplyToAsker'
    BY <2>1 DEF AskerHoldsSlot, FirstReplyToAsker, ReplyToAsker
  <2> QED
    BY <1>a, <2>2, <2>3
<1>5. CASE KeepAliveScan
  <2>1. KATyped'
    BY <1>0, <1>5, <1>b, <1>e DEF KeepAliveScan, KATyped
  <2>2. CASE RoundBegin \/ ScanHangUp \/ ScanNothing \/ RoundEnd
    <3>1. /\ pc \in {"accept", "scan", "hangup"}
          /\ pc' \in {"app", "accept", "scan", "hangup"}
          /\ UNCHANGED <<cur, asker, answered, sends>>
      BY <1>5, <2>2 DEF KeepAliveScan, RoundBegin, ScanHangUp, ScanNothing, RoundEnd, program
    <3>2. cur = -1
      BY <1>0, <3>1 DEF AskerHoldsSlot
    <3> QED
      BY <1>a, <1>d, <2>1, <3>1, <3>2
  <2>3. CASE ScanRequest
    <3>1. /\ pc = "scan" /\ pc' = "read" /\ cur' = slot /\ asker' = PeerOf(slot)
          /\ PeerOf(slot) \in Peers
          /\ UNCHANGED <<conns, files, answered, sends>>
      BY <1>5, <2>3 DEF KeepAliveScan, ScanRequest, Readable, program
    <3> QED
      BY <1>0, <1>a, <2>1, <3>1
      DEF AskerHoldsSlot, FirstReplyToAsker, ReplyToAsker, IsOpen, PeerOf
  <2> QED
    BY <1>5, <2>2, <2>3 DEF KeepAliveScan
<1>6. CASE KeepAliveHangUp
  <2>1. /\ pc = "hangup" /\ pc' \in {"hangup", "scan"}
        /\ UNCHANGED <<cur, asker, answered, timers, armed, handler, sends, several, late>>
        /\ kept' \subseteq kept
    BY <1>6 DEF KeepAliveHangUp, ScanClose, program
  <2>2. cur = -1
    BY <1>0, <2>1 DEF AskerHoldsSlot
  <2>3. late' \in BOOLEAN /\ kept' \subseteq Slots
    BY <1>0, <2>1 DEF KATyped
  <2> QED
    BY <1>a, <1>b, <1>d, <2>1, <2>2, <2>3
<1>7. CASE KeepAliveRequest
  <2>1. /\ pc = "read" /\ pc' = "app" /\ UNCHANGED <<conns, files, answered>>
        /\ UNCHANGED <<handler, sends, several, late>>
        /\ UNCHANGED <<cur, asker>> \/ (cur' = -1 /\ asker' = NoPeer)
    BY <1>7 DEF KeepAliveRequest, MsgRequest, kernel, program
  <2>2. AskerHoldsSlot' /\ FirstReplyToAsker'
    BY <1>0, <2>1 DEF AskerHoldsSlot, FirstReplyToAsker, ReplyToAsker, IsOpen, PeerOf
  <2>3. CASE TimerStop(cur) /\ kept' = kept \ {cur}
    <3>1. timers' \in Seq(Entries) /\ Len(timers') <= Len(timers)
      BY <1>0, <2>3, StopKeepsOthers DEF KATyped
    <3>2. armed' \in BOOLEAN
      BY <1>0, <2>3, StopArmed DEF KATyped
    <3> QED
      BY <1>0, <1>a, <2>1, <2>2, <2>3, <3>1, <3>2 DEF KATyped
  <2>4. CASE UNCHANGED <<timers, armed, kept>>
    BY <1>0, <1>a, <2>1, <2>2, <2>4 DEF KATyped
  <2> QED
    BY <1>7, <2>3, <2>4 DEF KeepAliveRequest
<1>8. CASE KeepAliveSend
  <2>1. /\ sends < MaxSends /\ sends' = sends + 1 /\ several' = (several \/ sends > 0)
        /\ cur # -1 /\ IsOpen(cur) /\ answered' = PeerOf(cur) /\ pc' = "sent"
        /\ UNCHANGED <<cur, asker, timers, armed, handler, late, kept>>
    BY <1>8 DEF KeepAliveSend, Sent, Answering
  <2>2. KATyped'
    BY <1>0, <2>1 DEF KATyped
  <2>3. sends \in Nat /\ sends' # 0 /\ sends' > 0
    BY <1>0, <2>1 DEF KATyped
  <2>4. AskerHoldsSlot'
    BY <1>0, <2>1, <2>3 DEF AskerHoldsSlot
  <2>5. FirstReplyToAsker'
    BY <1>0, <2>1, <2>3 DEF AskerHoldsSlot, FirstReplyToAsker, ReplyToAsker
  <2> QED
    BY <1>a, <2>2, <2>4, <2>5
<1>9. CASE KeepAliveAccept
  <2>1. /\ pc = "sent" /\ pc' = "start"
        /\ UNCHANGED <<cur, asker, answered, sends>>
    BY <1>9 DEF KeepAliveAccept, SendAccepts, program
  <2>2. KATyped'
    BY <1>0, <1>9, <1>b, <1>e DEF KeepAliveAccept, KATyped
  <2>3. AskerHoldsSlot' /\ FirstReplyToAsker'
    <3>1. sends \in Nat /\ sends > 0
      BY <1>0, <2>1 DEF KATyped, AskerHoldsSlot
    <3> QED
      BY <1>0, <2>1, <3>1 DEF AskerHoldsSlot, FirstReplyToAsker, ReplyToAsker
  <2> QED
    BY <1>a, <2>2, <2>3
<1>10. CASE KeepAliveStart
  <2>1. /\ pc = "start" /\ pc' = "app" /\ kept' = kept \cup {cur}
        /\ UNCHANGED <<conns, files, cur, asker, answered, handler, sends, several, late>>
    BY <1>10 DEF KeepAliveStart, kernel, program
  <2>2. cur \in Slots /\ asker \in Peers /\ sends > 0 /\ sends \in Nat
    BY <1>0, <2>1 DEF AskerHoldsSlot, TypeOK, KATyped
  <2>3. AskerHoldsSlot' /\ FirstReplyToAsker'
    BY <1>0, <2>1, <2>2 DEF AskerHoldsSlot, FirstReplyToAsker, ReplyToAsker
  <2>4. CASE TimerStart(cur, asker)
    <3>1. [conn |-> cur, owner |-> asker] \in Entries
      BY <2>2 DEF Entries
    <3>2. timers' = Append(timers, [conn |-> cur, owner |-> asker])
          /\ Len(timers) < ConnCount /\ armed' \in BOOLEAN
      BY <2>4 DEF TimerStart
    <3>3. timers' \in Seq(Entries) /\ Len(timers') = Len(timers) + 1
      BY <1>0, <3>1, <3>2 DEF KATyped
    <3>4. Len(timers') <= ConnCount
      BY <1>0, <3>2, <3>3 DEF KATyped
    <3> QED
      BY <1>0, <1>a, <2>1, <2>2, <2>3, <3>2, <3>3, <3>4 DEF KATyped
  <2>5. CASE UNCHANGED <<timers, armed>>
    BY <1>0, <1>a, <2>1, <2>2, <2>3, <2>5 DEF KATyped
  <2> QED
    BY <1>10, <2>4, <2>5 DEF KeepAliveStart, timerVars, program
<1>11. CASE KeepAliveSendRefused
  <2>1. /\ UNCHANGED <<conns, files, pc, cur, asker, answered, sends>>
        /\ UNCHANGED <<timers, armed, handler, several, late, kept>>
    BY <1>11 DEF KeepAliveSendRefused, SendRefused, kernel, program
  <2> QED
    BY <1>0, <1>a, <1>b, <1>c, <2>1 DEF KATyped
<1>12. CASE KeepAliveClose
  <2>1. /\ TimerStop(cur) /\ kept' = kept \ {cur}
        /\ pc = "app" /\ pc' = "app" /\ UNCHANGED <<asker, answered>>
        /\ UNCHANGED <<handler, sends, several, late>>
        /\ cur' = -1 \/ UNCHANGED <<cur, conns, files>>
    BY <1>12 DEF KeepAliveClose, Close, Answering, Aborts, program
  <2>2. timers' \in Seq(Entries) /\ Len(timers') <= Len(timers)
    BY <1>0, <2>1, StopKeepsOthers DEF KATyped
  <2>3. armed' \in BOOLEAN
    BY <1>0, <2>1, StopArmed DEF KATyped
  <2>4. KATyped'
    BY <1>0, <2>1, <2>2, <2>3 DEF KATyped
  <2>5. AskerHoldsSlot' /\ FirstReplyToAsker'
    BY <1>0, <2>1 DEF AskerHoldsSlot, FirstReplyToAsker, ReplyToAsker, IsOpen, PeerOf
  <2> QED
    BY <1>a, <2>4, <2>5
<1>13. CASE SignalHandler
  <2>1. /\ timers # <<>> /\ timers' = Tail(timers) /\ armed' = (Len(timers) > 1)
        /\ kept' \subseteq kept
        /\ UNCHANGED <<handler, sends, several, asker, answered>>
    BY <1>0, <1>13 DEF SignalHandler, Expired, KATyped, program
  <2>2. timers' \in Seq(Entries) /\ Len(timers') = Len(timers) - 1
    BY <1>0, <2>1, TailKeepsOthers DEF KATyped
  <2>3. late' \in BOOLEAN
    BY <1>0, <1>13, Zenon DEF SignalHandler, KATyped
  <2>4. KATyped'
    BY <1>0, <2>1, <2>2, <2>3 DEF KATyped
  <2>5. AskerHoldsSlot'
    BY <1>13, HandlerBinding DEF KAInv
  <2>6. FirstReplyToAsker'
    BY <1>0, <2>1 DEF FirstReplyToAsker, ReplyToAsker
  <2> QED
    BY <1>a, <2>4, <2>5, <2>6
<1>14. CASE NoopHandler
  <2>1. /\ armed' = FALSE
        /\ UNCHANGED <<timers, handler, sends, several, late, kept>>
        /\ UNCHANGED <<conns, files, pc, cur, asker, answered>>
    BY <1>14 DEF NoopHandler, program, vars
  <2>2. KATyped'
    BY <1>0, <2>1 DEF KATyped
  <2> QED
    BY <1>a, <1>c, <2>1, <2>2
<1>15. CASE KAPeer \/ UNCHANGED kaVars
  <2>1. /\ UNCHANGED <<conns, files, pc, cur, asker, answered, sends>>
        /\ UNCHANGED <<timers, armed, handler, several, late, kept>>
    BY <1>15 DEF KAPeer, Peer, Connect, Request, Finish, Reset, kaVars, vars, program
  <2> QED
    BY <1>0, <1>a, <1>b, <1>c, <2>1 DEF KATyped
<1> QED
  BY <1>2, <1>3, <1>4, <1>5, <1>6, <1>7, <1>8, <1>9, <1>10, <1>11, <1>12, <1>13,
     <1>14, <1>15 DEF KANext, Server

\* With the timers and the handler in between, every variable stays in its
\* type: the list of timers is never longer than the table.
THEOREM KATypes == KASpec => []KATypeOK
<1>1. KAInv => KATypeOK
  BY DEF KAInv, TypeInv, KATyped, KATypeOK, Entries
<1> QED
  BY KAInvInit, KAInvStep, <1>1, PTL DEF KASpec

\* The first response to a request goes to the peer that asked, although the
\* handler may close its connection, or any other, between any two steps.
THEOREM KAResponseGoesToAsker == KASpec => []FirstReplyToAsker
<1>1. KAInv => FirstReplyToAsker
  BY DEF KAInv
<1> QED
  BY KAInvInit, KAInvStep, <1>1, PTL DEF KASpec

-----------------------------------------------------------------------------
(* The list has room *)

\* As long as every request has been answered at most once, no slot has two
\* timers, and the slot of the request has none between the stop of its timer and
\* the start of the next.
Waits == cur # -1 /\ pc # "read" /\ (sends = 0 \/ pc \in {"sent", "start"})

Roomy == ~several => Distinct /\ (Waits => ~HasTimer(cur))

LimitInv == KAInv /\ Roomy /\ NoTimerLimit

\* The first response to a request finds room for its timer.
LEMMA FirstSendHasRoom ==
    ASSUME LimitInv, pc = "start", ~several
    PROVE  Len(timers) < ConnCount
<1>1. cur \in Slots /\ Distinct /\ ~HasTimer(cur)
  BY DEF LimitInv, KAInv, AskerHoldsSlot, TypeInv, TypeOK, Roomy, Waits
<1> QED
  BY <1>1, ListHasRoom DEF LimitInv, KAInv, KATyped

\* Before shttp_init there is nothing to tell apart.
LEMMA LimitInit == KAInit => LimitInv
<1>1. KAInit => Distinct /\ cur = -1 /\ status = "OK"
  BY DEF KAInit, Init, Distinct
<1> QED
  BY <1>1, KAInvInit DEF LimitInv, Roomy, Waits, NoTimerLimit

\* No step puts a second timer on a slot or overfills the list, until a request
\* is answered more than once.
LEMMA LimitStep == LimitInv /\ [KANext]_kaVars => LimitInv'
<1> SUFFICES ASSUME LimitInv, [KANext]_kaVars
             PROVE  LimitInv'
  OBVIOUS
<1> USE SockAssumption, KeepAliveAssumption
<1>0. /\ KAInv' /\ Roomy /\ NoTimerLimit
      /\ timers \in Seq(Entries) /\ sends \in Nat /\ AskerHoldsSlot
  BY KAInvStep DEF LimitInv, KAInv, KATyped
<1>a. ASSUME UNCHANGED <<timers, several>>, Waits' => Waits /\ cur' = cur,
             status' # "TIMER_LIMIT" \/ UNCHANGED status
      PROVE  LimitInv'
  <2>1. Roomy'
    BY <1>0, <1>a DEF Roomy, Distinct, HasTimer
  <2> QED
    BY <1>0, <1>a, <2>1 DEF LimitInv, NoTimerLimit
<1>b. ASSUME Distinct => Distinct', several' = several, Waits' => Waits /\ cur' = cur,
             \A j \in DOMAIN timers' : \E k \in DOMAIN timers : timers'[j] = timers[k],
             status' # "TIMER_LIMIT" \/ UNCHANGED status
      PROVE  LimitInv'
  <2>1. Roomy'
    BY <1>0, <1>b DEF Roomy, HasTimer
  <2> QED
    BY <1>0, <1>b, <2>1 DEF LimitInv, NoTimerLimit
<1>1. CASE KeepAliveInit
  <2>1. /\ pc = "down" /\ UNCHANGED <<cur, several>> /\ status' # "TIMER_LIMIT"
    BY <1>1 DEF KeepAliveInit, InitFails, InitListens, InitBegins, program
  <2>2. UNCHANGED timers \/ timers' = <<>>
    BY <1>1 DEF KeepAliveInit, timerVars
  <2>3. timers' = <<>> => Distinct'
    BY DEF Distinct
  <2>4. Roomy'
    BY <1>0, <2>1, <2>2, <2>3 DEF Roomy, Waits, AskerHoldsSlot, Distinct
  <2> QED
    BY <1>0, <2>1, <2>4 DEF LimitInv, NoTimerLimit
<1>2. ASSUME NEW force \in BOOLEAN, KeepAliveDeinit(force)
      PROVE  LimitInv'
  BY <1>2, <1>a DEF KeepAliveDeinit, SockDeinit, Waits, program
<1>3. CASE KeepAliveNext
  BY <1>3, <1>a DEF KeepAliveNext, NextCall, NextNblk, Waits
<1>4. CASE KeepAliveScan
  <2>1. UNCHANGED <<timers, several, sends>>
    BY <1>4 DEF KeepAliveScan, program
  <2>2. status' # "TIMER_LIMIT" \/ UNCHANGED status
    BY <1>4 DEF KeepAliveScan, RoundBegin, ScanHangUp, ScanRequest, ScanNothing, RoundEnd,
                AcceptNblk
  <2>3. ~Waits'
    BY <1>0, <1>4 DEF KeepAliveScan, RoundBegin, ScanHangUp, ScanRequest, ScanNothing,
                      RoundEnd, AskerHoldsSlot, Waits
  <2> QED
    BY <1>a, <2>1, <2>2, <2>3
<1>5. CASE KeepAliveHangUp
  <2>1. UNCHANGED <<timers, several, status, cur>> /\ pc = "hangup"
    BY <1>5 DEF KeepAliveHangUp, ScanClose, program
  <2> QED
    BY <1>0, <1>a, <2>1 DEF AskerHoldsSlot, Waits
<1>6. CASE KeepAliveRequest
  <2>1. status' # "TIMER_LIMIT" /\ UNCHANGED several
    BY <1>6 DEF KeepAliveRequest, MsgRequest, program
  <2>2. CASE UNCHANGED cur /\ TimerStop(cur)
    <3>1. Distinct => Distinct' /\ \A j \in DOMAIN timers' : timers'[j].conn # cur
      BY <1>0, <2>2, StopKeepsOthers
    <3>2. Roomy'
      BY <1>0, <2>1, <2>2, <3>1 DEF Roomy, HasTimer
    <3> QED
      BY <1>0, <2>1, <3>2 DEF LimitInv, NoTimerLimit
  <2>3. CASE UNCHANGED timers /\ cur' = -1
    BY <1>a, <2>1, <2>3 DEF Waits
  <2> QED
    BY <1>6, <2>2, <2>3 DEF KeepAliveRequest, MsgRequest
<1>7. CASE KeepAliveSend
  <2>1. /\ pc = "app" /\ cur # -1 /\ several' = (several \/ sends > 0)
        /\ UNCHANGED <<cur, timers, status>>
    BY <1>7 DEF KeepAliveSend, Sent, Answering
  <2>2. CASE several'
    BY <1>0, <2>1, <2>2 DEF LimitInv, Roomy, NoTimerLimit
  <2>3. CASE ~several'
    <3>1. ~(several \/ sends > 0)
      BY <2>1, <2>3
    <3>2. sends = 0 /\ ~several
      BY <1>0, <3>1
    <3>3. Distinct /\ ~HasTimer(cur)
      BY <1>0, <2>1, <3>2 DEF Roomy, Waits
    <3>4. Roomy'
      BY <2>1, <3>3 DEF Roomy, Distinct, HasTimer
    <3> QED
      BY <1>0, <2>1, <3>2, <3>4 DEF LimitInv, NoTimerLimit
  <2> QED
    BY <2>2, <2>3
<1>8. CASE KeepAliveAccept
  <2>1. pc = "sent" /\ pc' = "start" /\ UNCHANGED <<cur, sends, timers, several, status>>
    BY <1>8 DEF KeepAliveAccept, SendAccepts, program
  <2> QED
    BY <1>a, <2>1 DEF Waits
<1>9. CASE KeepAliveStart
  <2>1. pc = "start" /\ pc' = "app" /\ UNCHANGED <<cur, sends, several>>
    BY <1>9 DEF KeepAliveStart, program
  <2>2. ~Waits'
    BY <1>0, <2>1 DEF AskerHoldsSlot, Waits
  <2>3. CASE several
    BY <1>0, <2>1, <2>3 DEF LimitInv, Roomy, NoTimerLimit
  <2>4. CASE ~several
    <3>1. Len(timers) < ConnCount /\ ConnCount \in Nat /\ Len(timers) \in Nat
      BY <1>0, <2>1, <2>4, FirstSendHasRoom
    <3>2. status' = "OK" /\ timers' = Append(timers, [conn |-> cur, owner |-> asker])
      BY <1>9, <3>1 DEF KeepAliveStart, TimerStart, program
    <3>3. Distinct /\ ~HasTimer(cur)
      BY <1>0, <2>1, <2>4 DEF Roomy, Waits, AskerHoldsSlot
    <3>4. /\ DOMAIN timers' = DOMAIN timers \cup {Len(timers) + 1}
          /\ Len(timers) + 1 \notin DOMAIN timers
          /\ timers'[Len(timers) + 1].conn = cur
          /\ \A k \in DOMAIN timers : timers'[k] = timers[k]
      BY <1>0, <3>2
    <3>5. Distinct'
      BY <3>3, <3>4 DEF Distinct, HasTimer
    <3> QED
      BY <1>0, <2>2, <3>2, <3>5 DEF LimitInv, Roomy, NoTimerLimit
  <2> QED
    BY <2>3, <2>4
<1>10. CASE KeepAliveSendRefused
  <2>1. UNCHANGED <<timers, several, sends, pc, cur>> /\ status' # "TIMER_LIMIT"
    BY <1>10 DEF KeepAliveSendRefused, SendRefused, program
  <2> QED
    BY <1>a, <2>1 DEF Waits
<1>11. CASE KeepAliveClose
  <2>1. /\ TimerStop(cur) /\ UNCHANGED <<several, sends, pc>>
        /\ cur' = -1 \/ UNCHANGED cur
        /\ status' # "TIMER_LIMIT" \/ UNCHANGED status
    BY <1>11 DEF KeepAliveClose, Close, program
  <2>2. /\ Distinct => Distinct'
        /\ \A j \in DOMAIN timers' : \E k \in DOMAIN timers : timers'[j] = timers[k]
    BY <1>0, <2>1, StopKeepsOthers
  <2>3. Waits' => Waits /\ cur' = cur
    BY <2>1 DEF Waits
  <2> QED
    BY <1>b, <2>1, <2>2, <2>3
<1>12. CASE SignalHandler
  <2>1. /\ timers # <<>> /\ timers' = Tail(timers)
        /\ UNCHANGED <<several, sends, pc, cur, status>>
    BY <1>0, <1>12 DEF SignalHandler, Expired, program, LimitInv, KAInv, KATyped
  <2>2. /\ Distinct => Distinct'
        /\ \A j \in DOMAIN timers' : \E k \in DOMAIN timers : timers'[j] = timers[k]
    BY <1>0, <2>1, TailKeepsOthers
  <2>3. Waits' => Waits /\ cur' = cur
    BY <2>1 DEF Waits
  <2> QED
    BY <1>b, <2>1, <2>2, <2>3
<1>13. CASE NoopHandler \/ KAPeer \/ UNCHANGED kaVars
  <2>1. UNCHANGED <<timers, several, sends, pc, cur, status>>
    BY <1>13 DEF NoopHandler, KAPeer, Peer, kaVars, program, vars
  <2> QED
    BY <1>a, <2>1 DEF Waits
<1> QED
  BY <1>1, <1>2, <1>3, <1>4, <1>5, <1>6, <1>7, <1>8, <1>9, <1>10, <1>11, <1>12,
     <1>13 DEF KANext, Server

\* The list of timers is as long as the table, and that is enough: shttp_send
\* reports TIMER_LIMIT only to a program that has answered a request twice.
THEOREM ListNeverFull == KASpec => []NoTimerLimit
<1>1. LimitInv => NoTimerLimit
  BY DEF LimitInv
<1> QED
  BY LimitInit, LimitStep, <1>1, PTL DEF KASpec

-----------------------------------------------------------------------------
(* Who was answered has a timer *)

KeptInv == LimitInv /\ KeptHaveTimers

\* Before shttp_init nobody was answered.
LEMMA KeptInit == KAInit => KeptInv
<1>1. KAInit => kept = {} /\ timers = <<>>
  BY DEF KAInit
<1> QED
  BY <1>1, LimitInit DEF KeptInv, KeptHaveTimers

\* Who has a timer keeps it when another slot's timer is stopped, and the alarm
\* stays as long as there is a timer.
LEMMA KeptAfterStop ==
    ASSUME timers \in Seq(Entries), NEW c, TimerStop(c), KeptHaveTimers,
           kept' = kept \ {c}, UNCHANGED <<several, handler>>,
           pc' # "down" => pc # "down"
    PROVE  KeptHaveTimers'
<1>1. SUFFICES ASSUME pc' # "down", handler' = "shttp_keep_alive_signal_handler", ~several'
               PROVE  /\ \A i \in kept' : \E j \in DOMAIN timers' : timers'[j].conn = i
                      /\ timers' # <<>> => armed'
  BY DEF KeptHaveTimers
<1>2. /\ \A i \in kept : \E k \in DOMAIN timers : timers[k].conn = i
      /\ timers # <<>> => armed
  BY <1>1 DEF KeptHaveTimers
<1>3. timers' # <<>> => armed'
  BY <1>2, StopKeepsOthers
<1>4. ASSUME NEW i \in kept'
      PROVE  \E j \in DOMAIN timers' : timers'[j].conn = i
  <2>1. i \in kept /\ i # c
    OBVIOUS
  <2>2. PICK k \in DOMAIN timers : timers[k].conn = i
    BY <1>2, <2>1
  <2>3. PICK j \in DOMAIN timers' : timers'[j] = timers[k]
    BY <2>1, <2>2, StopKeepsOthers
  <2> QED
    BY <2>2, <2>3
<1> QED
  BY <1>3, <1>4

\* No step frees an answered slot or takes its timer without forgetting it, and
\* none leaves a list that is not empty without an alarm.
LEMMA KeptStep == KeptInv /\ [KANext]_kaVars => KeptInv'
<1> SUFFICES ASSUME KeptInv, [KANext]_kaVars
             PROVE  KeptInv'
  OBVIOUS
<1> USE SockAssumption
<1>0. /\ LimitInv /\ LimitInv' /\ KeptHaveTimers
      /\ timers \in Seq(Entries)
  <2>1. LimitInv /\ KeptHaveTimers
    BY DEF KeptInv
  <2>2. LimitInv'
    BY <2>1, LimitStep
  <2>3. timers \in Seq(Entries)
    BY <2>1 DEF LimitInv, KAInv, KATyped
  <2> QED
    BY <2>1, <2>2, <2>3
<1>a. ASSUME KeptHaveTimers'
      PROVE  KeptInv'
  BY <1>0, <1>a DEF KeptInv
<1>b. ASSUME UNCHANGED <<timers, armed, several, handler>>, kept' \subseteq kept,
             pc' # "down" => pc # "down"
      PROVE  KeptInv'
  <2>1. KeptHaveTimers'
    BY <1>0, <1>b DEF KeptHaveTimers
  <2> QED
    BY <1>a, <2>1
<1>1. CASE KeepAliveInit
  <2>1. /\ kept' = {}
        /\ pc' = "down" \/ timers' = <<>>
    BY <1>1 DEF KeepAliveInit, InitFails, InitBegins
  <2> QED
    BY <1>1, <1>a, <2>1 DEF KeepAliveInit, KeptHaveTimers
<1>2. ASSUME NEW force \in BOOLEAN, KeepAliveDeinit(force)
      PROVE  KeptInv'
  BY <1>2, <1>a DEF KeepAliveDeinit, SockDeinit, KeptHaveTimers, program
<1>3. CASE KeepAliveNext
  BY <1>3, <1>b DEF KeepAliveNext, NextCall, NextNblk
<1>4. CASE KeepAliveScan
  <2>1. UNCHANGED <<timers, armed, several, handler, kept>> /\ pc # "down"
    BY <1>4 DEF KeepAliveScan, RoundBegin, ScanHangUp, ScanRequest, ScanNothing, RoundEnd,
                program
  <2> QED
    BY <1>b, <2>1
<1>5. CASE KeepAliveHangUp
  <2>1. pc # "down" /\ kept' = kept \ {slot} /\ UNCHANGED <<timers, armed, several, handler>>
    BY <1>5 DEF KeepAliveHangUp, ScanClose, program
  <2> QED
    BY <1>b, <2>1
<1>6. CASE KeepAliveRequest
  <2>1. pc # "down" /\ UNCHANGED <<several, handler>>
    BY <1>6 DEF KeepAliveRequest, MsgRequest, program
  <2>2. CASE TimerStop(cur) /\ kept' = kept \ {cur}
    BY <1>0, <1>a, <2>1, <2>2, KeptAfterStop
  <2>3. CASE UNCHANGED <<timers, armed, kept>>
    BY <1>b, <2>1, <2>3
  <2> QED
    BY <1>6, <2>2, <2>3 DEF KeepAliveRequest
<1>7. CASE KeepAliveSend
  <2>1. /\ pc # "down" /\ several' = (several \/ sends > 0)
        /\ UNCHANGED <<timers, armed, handler, kept>>
    BY <1>7 DEF KeepAliveSend, Sent, Answering
  <2>2. ~several' => ~several
    BY <2>1
  <2>3. KeptHaveTimers'
    BY <1>0, <2>1, <2>2 DEF KeptHaveTimers
  <2> QED
    BY <1>a, <2>3
<1>8. CASE KeepAliveAccept
  BY <1>8, <1>b DEF KeepAliveAccept, SendAccepts, program
<1>9. CASE KeepAliveStart
  <2>1. pc = "start" /\ kept' = kept \cup {cur} /\ UNCHANGED <<several, handler>>
    BY <1>9 DEF KeepAliveStart, program
  <2>2. CASE several
    BY <1>a, <2>1, <2>2 DEF KeptHaveTimers
  <2>3. CASE ~several
    <3>1. Len(timers) < ConnCount /\ ConnCount \in Nat /\ Len(timers) \in Nat
      BY <1>0, <2>1, <2>3, FirstSendHasRoom
    <3>2. timers' = Append(timers, [conn |-> cur, owner |-> asker]) /\ armed' = TRUE
      BY <1>9, <3>1 DEF KeepAliveStart, TimerStart, program
    <3>3. /\ DOMAIN timers' = DOMAIN timers \cup {Len(timers) + 1}
          /\ timers'[Len(timers) + 1].conn = cur
          /\ \A k \in DOMAIN timers : timers'[k] = timers[k]
      BY <1>0, <3>2
    <3>4. KeptHaveTimers'
      BY <1>0, <2>1, <2>3, <3>2, <3>3 DEF KeptHaveTimers
    <3> QED
      BY <1>a, <3>4
  <2> QED
    BY <2>2, <2>3
<1>10. CASE KeepAliveSendRefused
  BY <1>10, <1>b DEF KeepAliveSendRefused, SendRefused, program
<1>11. CASE KeepAliveClose
  <2>1. /\ TimerStop(cur) /\ kept' = kept \ {cur} /\ UNCHANGED <<several, handler, pc>>
    BY <1>11 DEF KeepAliveClose, Close, program
  <2> QED
    BY <1>0, <1>a, <2>1, KeptAfterStop
<1>12. CASE SignalHandler
  <2> DEFINE id == Head(timers).conn
  <2>1. /\ timers # <<>> /\ timers' = Tail(timers) /\ armed' = (Len(timers) > 1)
        /\ UNCHANGED <<several, handler, pc>> /\ kept' = kept \ {id} /\ armed
    BY <1>0, <1>12 DEF SignalHandler, Expired, program
  <2>2. timers' # <<>> => armed'
    <3>1. timers' \in Seq(Entries) /\ Len(timers') = Len(timers) - 1 /\ Len(timers) \in Nat
      BY <1>0, <2>1, TailKeepsOthers
    <3>2. timers' # <<>> => Len(timers) > 1
      BY <3>1
    <3> QED
      BY <2>1, <3>2
  <2>3. \A i \in kept' : HasTimer(i) => \E j \in DOMAIN timers' : timers'[j].conn = i
    BY <1>0, <2>1, TailKeepsOthers DEF HasTimer
  <2> HIDE DEF id
  <2>4. KeptHaveTimers'
    BY <1>0, <2>1, <2>2, <2>3 DEF KeptHaveTimers, HasTimer
  <2> QED
    BY <1>a, <2>4
<1>13. CASE NoopHandler
  BY <1>13, <1>a DEF NoopHandler, program, KeptHaveTimers
<1>14. CASE KAPeer \/ UNCHANGED kaVars
  BY <1>14, <1>b DEF KAPeer, Peer, kaVars, program, vars
<1> QED
  BY <1>1, <1>2, <1>3, <1>4, <1>5, <1>6, <1>7, <1>8, <1>9, <1>10, <1>11, <1>12,
     <1>13, <1>14 DEF KANext, Server

\* Every connection that was answered and is waited for has a timer, and the
\* timers run, through resets, closes that fail and every order of expiries.
THEOREM AnsweredHaveTimers == KASpec => []KeptHaveTimers
<1>1. KeptInv => KeptHaveTimers
  BY DEF KeptInv
<1> QED
  BY KeptInit, KeptStep, <1>1, PTL DEF KASpec

-----------------------------------------------------------------------------
(* Timers own their slots *)

NoResets == \A p \in Peers : link[p] # "reset"

\* The slot that the program works on is open unless its own timer closed it.
BusySlot == cur # -1 /\ ~late => IsOpen(cur)

\* From send to shttp_timer_start the slot is that of the peer that asked.
ReplyUnderWay == pc \in {"sent", "start"} => IsOpen(cur) /\ PeerOf(cur) = asker

\* Where no peer resets a connection, close works and every request gets one
\* response, the table agrees with the kernel and every timer with the table.
OwnInv ==
    /\ LimitInv
    /\ NoResets /\ ~several /\ pc # "hangup"
    /\ armed => pc # "down"
    /\ pc # "down" => SlotsOpen
    /\ TimersOwnTheirSlots
    /\ BusySlot /\ ReplyUnderWay
    /\ CloseFindsConnection

\* Before shttp_init there are neither timers nor connections.
LEMMA OwnInit == KAInit => OwnInv
<1>1. KAInit => /\ pc = "down" /\ ~armed /\ ~several /\ failed = "nobody" /\ cur = -1
                /\ \A p \in Peers : link[p] = "away"
  BY DEF KAInit, Init
<1> QED
  BY <1>1, LimitInit
  DEF OwnInv, NoResets, TimersOwnTheirSlots, BusySlot, ReplyUnderWay, CloseFindsConnection

\* shttp_sock_close resets no connection.
LEMMA DropResetsNone ==
    ASSUME link \in [Peers -> {"away", "open", "fin", "reset"}], NoResets, NEW i, Drop(i)
    PROVE  NoResets'
BY DEF Drop, NoResets

\* Closing slot i for good leaves every other slot as it was, in the table and
\* in the kernel.
LEMMA CloseKeepsOthers ==
    ASSUME conns \in [Slots -> Cells], SlotsOpen, UNCHANGED sock,
           NEW i \in Slots, conns[i].fd # -1, Drop(i),
           conns' = [conns EXCEPT ![i].fd = -1]
    PROVE  /\ SlotsOpen'
           /\ \A j \in Slots : j # i /\ IsOpen(j) =>
                /\ conns'[j] = conns[j] /\ conns[j].fd \in DOMAIN files'
                /\ files'[conns[j].fd] = files[conns[j].fd]
<1>1. files' = WithoutFile(conns[i].fd)
  BY DEF Drop
<1>2. SlotsOpen'
  BY <1>1, FreeKeepsEvents, FreedAgrees
<1>3. ASSUME NEW j \in Slots, j # i, IsOpen(j)
      PROVE  /\ conns'[j] = conns[j] /\ conns[j].fd \in DOMAIN files'
             /\ files'[conns[j].fd] = files[conns[j].fd]
  <2>1. conns[i].fd # conns[j].fd
    BY <1>3 DEF SlotsOpen
  <2> QED
    BY <1>1, <1>3, <2>1 DEF WithoutFile, IsOpen
<1> QED
  BY <1>2, <1>3

\* No step gives the slot of a timer away, or closes the one the program is busy
\* with while it has no timer, as long as nobody resets a connection, close works
\* and a request gets one response.
LEMMA OwnStep ==
    ASSUME ~PeersReset, ~CloseFails, MaxSends <= 1
    PROVE  OwnInv /\ [KANext]_kaVars => OwnInv'
<1> SUFFICES ASSUME OwnInv, [KANext]_kaVars
             PROVE  OwnInv'
  OBVIOUS
<1> USE SockAssumption, KeepAliveAssumption
<1>0. /\ LimitInv' /\ NoResets /\ ~several /\ pc # "hangup"
      /\ armed => pc # "down"
      /\ pc # "down" => SlotsOpen
      /\ TimersOwnTheirSlots /\ BusySlot /\ ReplyUnderWay /\ CloseFindsConnection
      /\ LimitInv /\ AskerHoldsSlot /\ Roomy /\ Distinct
      /\ timers \in Seq(Entries) /\ conns \in [Slots -> Cells]
      /\ DOMAIN files \subseteq Fds /\ cur \in Slots \cup {-1}
      /\ pc \in {"down", "app", "accept", "scan", "hangup", "read", "sent", "start"}
      /\ link \in [Peers -> {"away", "open", "fin", "reset"}]
      /\ sends \in Nat
      /\ \A k \in DOMAIN timers : timers[k].conn \in Slots
  <2>1. LimitInv /\ KATyped /\ TypeOK /\ AskerHoldsSlot /\ Roomy
    BY DEF OwnInv, LimitInv, KAInv, TypeInv
  <2>2. timers \in Seq(Entries) /\ sends \in Nat
    BY <2>1 DEF KATyped
  <2>3. \A k \in DOMAIN timers : timers[k].conn \in Slots
    <3>1. \A k \in DOMAIN timers : timers[k] \in Entries
      BY <2>2
    <3> QED
      BY <3>1 DEF Entries
  <2>4. LimitInv'
    BY LimitStep DEF OwnInv
  <2>5. Distinct
    BY <2>1 DEF OwnInv, Roomy
  <2>6. /\ conns \in [Slots -> Cells] /\ DOMAIN files \subseteq Fds
        /\ cur \in Slots \cup {-1}
        /\ pc \in {"down", "app", "accept", "scan", "hangup", "read", "sent", "start"}
        /\ link \in [Peers -> {"away", "open", "fin", "reset"}]
    BY <2>1 DEF TypeOK, Cells
  <2> QED
    BY <2>1, <2>2, <2>3, <2>4, <2>5, <2>6 DEF OwnInv
<1>a. ASSUME NoResets', ~several', pc' # "hangup", armed' => pc' # "down",
             pc' # "down" => SlotsOpen', TimersOwnTheirSlots',
             BusySlot', ReplyUnderWay', CloseFindsConnection'
      PROVE  OwnInv'
  BY <1>0, <1>a DEF OwnInv
<1>b. ASSUME pc # "down",
             \A j \in DOMAIN timers' : \E k \in DOMAIN timers :
                /\ timers'[j] = timers[k]
                /\ conns'[timers[k].conn] = conns[timers[k].conn]
                /\ conns[timers[k].conn].fd \in DOMAIN files'
                /\ files'[conns[timers[k].conn].fd] = files[conns[timers[k].conn].fd]
      PROVE  TimersOwnTheirSlots'
  BY <1>0, <1>b DEF TimersOwnTheirSlots, IsOpen, PeerOf
<1>c. ASSUME pc # "down", UNCHANGED <<conns, files, sock>>,
             \A j \in DOMAIN timers' : \E k \in DOMAIN timers : timers'[j] = timers[k]
      PROVE  SlotsOpen' /\ TimersOwnTheirSlots'
  <2>1. SlotsOpen'
    BY <1>0, <1>c DEF SlotsOpen, IsOpen
  <2>2. TimersOwnTheirSlots'
    BY <1>0, <1>b, <1>c DEF TimersOwnTheirSlots, IsOpen
  <2> QED
    BY <2>1, <2>2
<1>d. ASSUME pc # "down", NEW c,
             \A j \in DOMAIN timers' : /\ timers'[j].conn # c
                                       /\ \E k \in DOMAIN timers : timers'[j] = timers[k],
             \A j \in Slots : j # c /\ IsOpen(j) =>
                /\ conns'[j] = conns[j] /\ conns[j].fd \in DOMAIN files'
                /\ files'[conns[j].fd] = files[conns[j].fd]
      PROVE  TimersOwnTheirSlots'
  <2>1. ASSUME NEW j \in DOMAIN timers'
        PROVE  \E k \in DOMAIN timers :
                  /\ timers'[j] = timers[k]
                  /\ conns'[timers[k].conn] = conns[timers[k].conn]
                  /\ conns[timers[k].conn].fd \in DOMAIN files'
                  /\ files'[conns[timers[k].conn].fd] = files[conns[timers[k].conn].fd]
    <3>1. PICK k \in DOMAIN timers : timers'[j] = timers[k]
      BY <1>d
    <3>2. timers[k].conn \in Slots /\ timers[k].conn # c /\ IsOpen(timers[k].conn)
      BY <1>0, <1>d, <3>1 DEF TimersOwnTheirSlots
    <3> QED
      BY <1>d, <3>1, <3>2
  <2> QED
    BY <1>b, <1>d, <2>1
<1>e. ASSUME UNCHANGED <<link, several, failed, late>>
      PROVE  NoResets' /\ ~several' /\ CloseFindsConnection'
  BY <1>0, <1>e DEF NoResets, CloseFindsConnection
<1>f. ASSUME UNCHANGED <<conns, files, timers, cur, asker, late, pc>>
      PROVE  BusySlot' /\ ReplyUnderWay'
  BY <1>0, <1>f DEF BusySlot, ReplyUnderWay, IsOpen, PeerOf
<1>g. ASSUME cur' = -1, pc' \notin {"sent", "start"}
      PROVE  BusySlot' /\ ReplyUnderWay'
  BY <1>g DEF BusySlot, ReplyUnderWay
<1>1. CASE KeepAliveInit
  <2>1. /\ pc = "down" /\ pc' \in {"down", "app"}
        /\ UNCHANGED <<several, failed, late, link, cur>>
    BY <1>1 DEF KeepAliveInit, InitFails, InitListens, InitBegins, program
  <2>2. cur' = -1 /\ ~armed
    BY <1>0, <2>1 DEF AskerHoldsSlot
  <2>3. CASE pc' = "down" /\ UNCHANGED armed
    BY <1>0, <1>a, <1>e, <1>g, <2>1, <2>2, <2>3 DEF TimersOwnTheirSlots
  <2>4. CASE InitListens /\ pc' = "app" /\ timers' = <<>> /\ armed' = FALSE
    <3>1. /\ conns' = [i \in Slots |-> [fd |-> -1, pollin |-> TRUE]]
          /\ sock' \in DOMAIN files'
      BY <2>4 DEF InitListens, InitBegins, WithFile
    <3>2. SlotsOpen'
      BY <3>1 DEF SlotsOpen
    <3> QED
      BY <1>a, <1>e, <1>g, <2>1, <2>2, <2>4, <3>2 DEF TimersOwnTheirSlots
  <2> QED
    BY <1>1, <2>1, <2>3, <2>4 DEF KeepAliveInit, InitFails, timerVars
<1>2. ASSUME NEW force \in BOOLEAN, KeepAliveDeinit(force)
      PROVE  OwnInv'
  <2>1. pc' = "down" /\ cur' = -1 /\ ~armed' /\ UNCHANGED <<several, failed, late>>
    BY <1>2 DEF KeepAliveDeinit, SockDeinit, program
  <2>2. NoResets'
    BY <1>0, <1>2 DEF KeepAliveDeinit, SockDeinit, kernel, NoResets, program
  <2> QED
    BY <1>0, <1>a, <1>g, <2>1, <2>2 DEF TimersOwnTheirSlots, CloseFindsConnection
<1>3. CASE KeepAliveNext /\ failed = "nobody"
  <2>1. /\ pc # "down" /\ pc' \in {"app", "accept"} /\ cur' = -1
        /\ UNCHANGED <<conns, files, sock, link, timers, several, failed>>
    BY <1>3 DEF KeepAliveNext, NextCall, NextNblk, kernel
  <2> QED
    BY <1>0, <1>3, <1>a, <1>c, <1>g, <2>1 DEF NoResets, CloseFindsConnection
<1>4. CASE KeepAliveScan
  <2>1. /\ pc # "down" /\ pc' # "down" /\ UNCHANGED <<sock, link, timers, several, failed, late>>
    BY <1>4 DEF KeepAliveScan, RoundBegin, ScanHangUp, ScanRequest, ScanNothing, RoundEnd,
                kernel, program
  <2>2. CASE RoundBegin
    <3>1. /\ \E r \in Statuses : AcceptNblk(r) /\ pc = "accept" /\ pc' = "scan"
          /\ UNCHANGED cur
      BY <2>2 DEF RoundBegin
    <3>2. SlotsOpen'
      BY <1>0, <2>1, <3>1, AcceptAgrees
    <3>3. \A k \in DOMAIN timers : conns[timers[k].conn].fd # -1
      BY <1>0, <2>1 DEF TimersOwnTheirSlots, IsOpen, Fds
    <3>4. TimersOwnTheirSlots'
      BY <1>0, <1>b, <2>1, <3>1, <3>3, AcceptKeeps DEF TimersOwnTheirSlots, IsOpen, PeerOf
    <3>5. cur' = -1
      BY <1>0, <3>1 DEF AskerHoldsSlot
    <3> QED
      BY <1>a, <1>e, <1>g, <2>1, <3>1, <3>2, <3>4, <3>5
  <2>3. CASE ScanHangUp
    BY <1>0, <2>3 DEF ScanHangUp, HangUp, NoResets
  <2>4. CASE ScanRequest
    <3>1. /\ pc' = "read" /\ cur' = slot /\ IsOpen(slot) /\ UNCHANGED <<conns, files>>
      BY <2>4 DEF ScanRequest, Readable
    <3>2. BusySlot' /\ ReplyUnderWay'
      BY <3>1 DEF BusySlot, ReplyUnderWay, IsOpen
    <3> QED
      BY <1>a, <1>c, <1>e, <2>1, <3>1, <3>2
  <2>5. CASE ScanNothing \/ RoundEnd
    <3>1. /\ pc = "scan" /\ pc' \in {"accept", "scan", "app"}
          /\ UNCHANGED <<conns, files, cur>>
      BY <2>5 DEF ScanNothing, RoundEnd, kernel
    <3>2. cur' = -1
      BY <1>0, <3>1 DEF AskerHoldsSlot
    <3> QED
      BY <1>a, <1>c, <1>e, <1>g, <2>1, <3>1, <3>2
  <2> QED
    BY <1>4, <2>2, <2>3, <2>4, <2>5 DEF KeepAliveScan
<1>5. CASE KeepAliveHangUp
  BY <1>0, <1>5 DEF KeepAliveHangUp, ScanClose
<1>6. CASE KeepAliveRequest
  <2>1. /\ pc # "down" /\ pc' = "app"
        /\ UNCHANGED <<conns, files, sock, link, several, failed, late>>
    BY <1>6 DEF KeepAliveRequest, MsgRequest, kernel, program
  <2>2. CASE UNCHANGED cur /\ TimerStop(cur)
    <3>1. \A j \in DOMAIN timers' : /\ timers'[j].conn # cur
                                    /\ \E k \in DOMAIN timers : timers'[j] = timers[k]
      BY <1>0, <2>2, StopKeepsOthers
    <3>2. BusySlot' /\ ReplyUnderWay'
      BY <1>0, <2>1, <2>2, <3>1 DEF BusySlot, ReplyUnderWay, IsOpen
    <3> QED
      BY <1>a, <1>c, <1>e, <2>1, <3>1, <3>2
  <2>3. CASE UNCHANGED timers /\ cur' = -1
    BY <1>a, <1>c, <1>e, <1>g, <2>1, <2>3
  <2> QED
    BY <1>6, <2>2, <2>3 DEF KeepAliveRequest, MsgRequest
<1>7. CASE KeepAliveSend
  <2>1. /\ pc = "app" /\ pc' = "sent" /\ cur # -1 /\ IsOpen(cur) /\ sends < MaxSends
        /\ several' = (several \/ sends > 0)
        /\ UNCHANGED <<conns, files, sock, link, failed, late, timers, cur, asker>>
    BY <1>7 DEF KeepAliveSend, Sent, Answering, kernel
  <2>2. sends = 0
    BY <1>0, <2>1
  <2>3. ~several' /\ NoResets' /\ CloseFindsConnection'
    BY <1>0, <2>1, <2>2 DEF NoResets, CloseFindsConnection
  <2>4. PeerOf(cur) = asker
    BY <1>0, <2>1, <2>2 DEF AskerHoldsSlot
  <2>5. BusySlot' /\ ReplyUnderWay'
    BY <1>0, <2>1, <2>4 DEF BusySlot, ReplyUnderWay, IsOpen, PeerOf
  <2> QED
    BY <1>a, <1>c, <2>1, <2>3, <2>5
<1>8. CASE KeepAliveAccept
  <2>1. /\ pc = "sent" /\ pc' = "start" /\ \E r \in Statuses : AcceptNblk(r)
        /\ UNCHANGED <<sock, link, several, failed, late, timers, cur, asker>>
    BY <1>8 DEF KeepAliveAccept, SendAccepts, program
  <2>2. SlotsOpen'
    BY <1>0, <2>1, AcceptAgrees
  <2>3. \A i \in Slots : IsOpen(i) =>
          /\ conns'[i] = conns[i] /\ conns[i].fd \in DOMAIN files'
          /\ files'[conns[i].fd] = files[conns[i].fd]
    <3>1. \A i \in Slots : IsOpen(i) => conns[i].fd # -1
      BY <1>0 DEF IsOpen, Fds
    <3> QED
      BY <1>0, <2>1, <3>1, AcceptKeeps DEF PeerOf
  <2>4. TimersOwnTheirSlots'
    BY <1>0, <1>b, <2>1, <2>3 DEF TimersOwnTheirSlots
  <2>5. cur \in Slots /\ IsOpen(cur) /\ PeerOf(cur) = asker
    BY <1>0, <2>1 DEF ReplyUnderWay, AskerHoldsSlot
  <2>6. BusySlot' /\ ReplyUnderWay'
    BY <1>0, <2>1, <2>3, <2>5 DEF BusySlot, ReplyUnderWay, IsOpen, PeerOf
  <2> QED
    BY <1>a, <1>e, <2>1, <2>2, <2>4, <2>6
<1>9. CASE KeepAliveStart
  <2>1. /\ pc = "start" /\ pc' = "app"
        /\ UNCHANGED <<conns, files, sock, link, several, failed, late, cur, asker>>
    BY <1>9 DEF KeepAliveStart, kernel, program
  <2>2. cur \in Slots /\ IsOpen(cur) /\ PeerOf(cur) = asker
    BY <1>0, <2>1 DEF ReplyUnderWay, AskerHoldsSlot
  <2>3. Len(timers) < ConnCount /\ ConnCount \in Nat /\ Len(timers) \in Nat
    BY <1>0, <2>1, FirstSendHasRoom
  <2>4. timers' = Append(timers, [conn |-> cur, owner |-> asker])
    BY <1>9, <2>3 DEF KeepAliveStart, TimerStart, program
  <2>5. /\ DOMAIN timers' = DOMAIN timers \cup {Len(timers) + 1}
        /\ timers'[Len(timers) + 1] = [conn |-> cur, owner |-> asker]
        /\ \A k \in DOMAIN timers : timers'[k] = timers[k]
        /\ Len(timers') = Len(timers) + 1
    BY <1>0, <2>3, <2>4
  <2>6. TimersOwnTheirSlots'
    BY <1>0, <2>1, <2>2, <2>5 DEF TimersOwnTheirSlots, IsOpen, PeerOf
  <2>7. SlotsOpen'
    BY <1>0, <2>1 DEF SlotsOpen, IsOpen
  <2>8. BusySlot' /\ ReplyUnderWay'
    BY <2>1, <2>2 DEF BusySlot, ReplyUnderWay, IsOpen
  <2> QED
    BY <1>a, <1>e, <2>1, <2>6, <2>7, <2>8
<1>10. CASE KeepAliveSendRefused
  <2>1. pc = "app"
        /\ UNCHANGED <<conns, files, sock, link, timers, cur, asker, late, pc, several, failed>>
    BY <1>10 DEF KeepAliveSendRefused, SendRefused, Answering, kernel, program
  <2> QED
    BY <1>0, <1>a, <1>c, <1>e, <1>f, <2>1
<1>11. CASE KeepAliveClose
  <2>1. /\ TimerStop(cur) /\ pc = "app" /\ pc' = "app" /\ cur # -1 /\ cur \in Slots
        /\ UNCHANGED <<sock, several, late>>
    BY <1>0, <1>11 DEF KeepAliveClose, Close, Answering, program
  <2>2. \A j \in DOMAIN timers' : /\ timers'[j].conn # cur
                                  /\ \E k \in DOMAIN timers : timers'[j] = timers[k]
    BY <1>0, <2>1, StopKeepsOthers
  <2>3. CASE Drop(cur) /\ conns' = [conns EXCEPT ![cur].fd = -1] /\ cur' = -1 /\ UNCHANGED failed
    <3>1. conns[cur].fd # -1
      BY <1>0, <2>3 DEF Drop, IsOpen, Fds
    <3>2. /\ SlotsOpen'
          /\ \A j \in Slots : j # cur /\ IsOpen(j) =>
               /\ conns'[j] = conns[j] /\ conns[j].fd \in DOMAIN files'
               /\ files'[conns[j].fd] = files[conns[j].fd]
      BY <1>0, <2>1, <2>3, <3>1, CloseKeepsOthers
    <3>3. TimersOwnTheirSlots'
      BY <1>d, <2>1, <2>2, <3>2
    <3>4. NoResets' /\ CloseFindsConnection'
      BY <1>0, <2>1, <2>3, DropResetsNone DEF CloseFindsConnection
    <3> QED
      BY <1>0, <1>a, <1>g, <2>1, <2>3, <3>2, <3>3, <3>4
  <2>4. CASE Aborts(cur, "program") /\ UNCHANGED cur
    <3>1. /\ ~IsOpen(cur) /\ failed' = "program"
          /\ UNCHANGED <<conns, files, link>>
      BY <2>4 DEF Aborts
    <3>2. late /\ NoResets' /\ CloseFindsConnection'
      BY <1>0, <2>1, <3>1 DEF BusySlot, NoResets, CloseFindsConnection
    <3>3. BusySlot' /\ ReplyUnderWay'
      BY <2>1, <2>2, <2>4, <3>2 DEF BusySlot, ReplyUnderWay
    <3> QED
      BY <1>0, <1>a, <1>c, <2>1, <2>2, <3>1, <3>2, <3>3
  <2> QED
    BY <1>11, <2>3, <2>4 DEF KeepAliveClose, Close, program
<1>12. CASE SignalHandler
  <2> DEFINE id == Head(timers).conn
  <2>1. /\ timers # <<>> /\ timers' = Tail(timers) /\ armed
        /\ late' = (late \/ (id = cur /\ TimerRuns))
        /\ UNCHANGED <<sock, pc, cur, asker, several>>
    BY <1>12 DEF SignalHandler, Expired, program
  <2>2. Head(timers) = timers[1] /\ 1 \in DOMAIN timers
    BY <1>0, <2>1
  <2>3. pc # "down" /\ id \in Slots /\ IsOpen(id)
    BY <1>0, <2>1, <2>2 DEF TimersOwnTheirSlots
  <2>4. Drop(id) /\ conns' = [conns EXCEPT ![id].fd = -1] /\ UNCHANGED failed
    BY <1>12, <2>3 DEF SignalHandler, Aborts
  <2>5. \A j \in DOMAIN timers' : /\ timers'[j].conn # id
                                  /\ \E k \in DOMAIN timers : timers'[j] = timers[k]
    BY <1>0, <2>1, TailKeepsOthers
  <2>6. cur # -1 /\ ~TimerRuns => id # cur
    <3>1. cur # -1 /\ ~TimerRuns => Waits
      BY <1>0 DEF TimerRuns, Waits, AskerHoldsSlot
    <3> QED
      BY <1>0, <2>2, <3>1 DEF Roomy, HasTimer
  <2> HIDE DEF id
  <2>7. conns[id].fd # -1
    BY <1>0, <2>3 DEF IsOpen, Fds
  <2>8. /\ SlotsOpen'
        /\ \A j \in Slots : j # id /\ IsOpen(j) =>
             /\ conns'[j] = conns[j] /\ conns[j].fd \in DOMAIN files'
             /\ files'[conns[j].fd] = files[conns[j].fd]
    BY <1>0, <2>1, <2>3, <2>4, <2>7, CloseKeepsOthers
  <2>9. TimersOwnTheirSlots'
    BY <1>d, <2>3, <2>5, <2>8
  <2>10. NoResets' /\ CloseFindsConnection'
    BY <1>0, <2>1, <2>4, DropResetsNone DEF CloseFindsConnection
  <2>11. BusySlot'
    <3>1. SUFFICES ASSUME cur # -1, ~late'
                   PROVE  IsOpen(cur)'
      BY <2>1, <3>1 DEF BusySlot
    <3>2. ~late /\ id # cur
      BY <2>1, <2>6, <3>1
    <3> QED
      BY <1>0, <2>1, <2>8, <3>1, <3>2 DEF BusySlot, IsOpen
  <2>12. ReplyUnderWay'
    <3>1. SUFFICES ASSUME pc \in {"sent", "start"}
                   PROVE  conns'[cur].fd \in DOMAIN files' /\ files'[conns'[cur].fd] = asker
      BY <2>1, <3>1 DEF ReplyUnderWay, IsOpen, PeerOf
    <3>2. cur \in Slots /\ cur # id /\ IsOpen(cur) /\ PeerOf(cur) = asker
      BY <1>0, <2>6, <3>1 DEF AskerHoldsSlot, ReplyUnderWay, TimerRuns
    <3> QED
      BY <2>8, <3>2 DEF PeerOf
  <2> QED
    BY <1>0, <1>a, <2>1, <2>3, <2>8, <2>9, <2>10, <2>11, <2>12
<1>13. CASE NoopHandler
  <2>1. /\ ~armed' /\ armed
        /\ UNCHANGED <<conns, files, sock, link, timers, cur, asker, late, pc, several,
                       failed>>
    BY <1>13 DEF NoopHandler, Expired, program, vars
  <2> QED
    BY <1>0, <1>a, <1>c, <1>e, <1>f, <2>1
<1>14. CASE KAPeer
  <2>1. PICK p \in Peers : Peer(p)
    BY <1>14 DEF KAPeer
  <2>2. UNCHANGED <<conns, files, sock, timers, cur, asker, late, pc, several, failed, armed>>
    BY <1>14 DEF KAPeer, Peer, Connect, Request, Finish, Reset, program
  <2>3. NoResets'
    BY <1>0, <2>1 DEF Peer, Connect, Request, Finish, Reset, NoResets
  <2>4. TimersOwnTheirSlots' /\ (pc' # "down" => SlotsOpen')
    BY <1>0, <2>2 DEF TimersOwnTheirSlots, SlotsOpen, IsOpen, PeerOf
  <2>5. CloseFindsConnection'
    BY <1>0, <2>2 DEF CloseFindsConnection
  <2> QED
    BY <1>0, <1>a, <1>f, <2>2, <2>3, <2>4, <2>5
<1>15. CASE UNCHANGED kaVars
  <2>1. UNCHANGED <<conns, files, sock, link, timers, cur, asker, late, pc, several,
                    failed, armed>>
    BY <1>15 DEF kaVars, vars, program
  <2>2. TimersOwnTheirSlots' /\ (pc' # "down" => SlotsOpen')
    BY <1>0, <2>1 DEF TimersOwnTheirSlots, SlotsOpen, IsOpen, PeerOf
  <2> QED
    BY <1>0, <1>a, <1>e, <1>f, <2>1, <2>2
<1> QED
  BY <1>1, <1>2, <1>3, <1>4, <1>5, <1>6, <1>7, <1>8, <1>9, <1>10, <1>11, <1>12,
     <1>13, <1>14, <1>15 DEF KANext, Server

\* shttp_sock_close finds an open connection whenever the handler or a scan
\* calls it; the program's own call finds none only after the connection's own
\* timer went off, between recv and shttp_timer_stop or after shttp_timer_start.
\* (The run keep_alive_late shows that it does happen, and keep_alive_stale what
\* a reset does to the handler's call.)
THEOREM ClosesFindConnections ==
    ASSUME ~PeersReset, ~CloseFails, MaxSends <= 1
    PROVE  KASpec => []CloseFindsConnection
<1>1. OwnInv /\ [KANext]_kaVars => OwnInv'
  BY OwnStep
<1>2. OwnInv => CloseFindsConnection
  BY DEF OwnInv
<1> QED
  BY OwnInit, <1>1, <1>2, PTL DEF KASpec

\* A timer stands for the connection it was started for, as long as no peer
\* resets, close works and the program answers a request once.
THEOREM TimersOwn ==
    ASSUME ~PeersReset, ~CloseFails, MaxSends <= 1
    PROVE  KASpec => []TimersOwnTheirSlots
<1>1. OwnInv /\ [KANext]_kaVars => OwnInv'
  BY OwnStep
<1>2. OwnInv => TimersOwnTheirSlots
  BY DEF OwnInv
<1> QED
  BY OwnInit, <1>1, <1>2, PTL DEF KASpec
=============================================================================
