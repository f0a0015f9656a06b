-------------------------------- MODULE Sock --------------------------------
(***************************************************************************)
(* The connection table of libshttp: src/sock/sock.c as a program without  *)
(* keep-alive reaches it through src/shttp.c.                              *)
(*                                                                         *)
(* The server is one thread.  Every look at a slot is one step, and a call *)
(* is split wherever somebody else may change what it has looked at: after *)
(* the poll that finds a hang-up, after recv, after send.  The peers       *)
(* connect, send, close and reset between any two steps.  A request is one *)
(* chunk of data that one recv takes.                                      *)
(*                                                                         *)
(* The kernel is modelled from how sock.c uses it: open files by number,   *)
(* the lowest free number handed out first, a backlog of connections that  *)
(* wait for accept, and poll on one socket.  A peer whose send was refused *)
(* gets no signal: the program is taken to ignore SIGPIPE.                 *)
(***************************************************************************)
EXTENDS Integers, Sequences, FiniteSetsExt, Functions

CONSTANTS
    Peers,          \* whoever may connect, one connection each at a time
    ConnCount,      \* conn_count: slots of the table
    MaxFd,          \* highest file number the process may open
    Backlog,        \* SHTTP_SOCKET_BACKLOG_SIZE
    Rounds,         \* timeout * SHTTP_CONN_CHECKS_PER_SECOND of every call
    MaxInits,       \* bound: how often the program calls shttp_init
    PeersReset,     \* whether peers reset connections
    CloseFails,     \* whether close of an open file may report an error
    NoPeer          \* the file is the listening socket

ASSUME SockAssumption ==
    /\ ConnCount \in Nat \ {0} /\ MaxFd \in Nat /\ Backlog \in Nat
    /\ Rounds \in Nat \ {0} /\ MaxInits \in Nat
    /\ PeersReset \in BOOLEAN /\ CloseFails \in BOOLEAN
    /\ NoPeer \notin Peers

VARIABLES
    conns,      \* the table: fd (-1 when free) and whether events has POLLIN
    sock,       \* file number of the listening socket, -1 when there is none
    files,      \* kernel: open file number |-> peer, or NoPeer
    backlog,    \* kernel: connections that wait for accept
    link,       \* what became of each peer's connection
    data,       \* peers whose request nobody has read
    pc,         \* where the server is
    slot,       \* next slot shttp_sock_next looks at
    round,      \* rounds of shttp_sock_next left
    cur,        \* slot whose request the program is answering, -1 for none
    asker,      \* history: the peer that sent this request
    answered,   \* history: the peer that got the response
    inits,      \* bound: calls of shttp_init so far
    failed,     \* whose call has ended the program at an assertion
    status      \* what the last call returned

kernel == <<files, backlog, link, data>>
scan == <<slot, round>>
vars == <<conns, sock, files, backlog, link, data, pc, slot, round, cur, asker,
          answered, inits, failed, status>>

Slots == 0 .. ConnCount - 1
Fds == 1 .. MaxFd      \* 0, which line 61 skips, is standard input
Statuses == {"OK", "UNKNOWN_ERROR", "SLICE_END", "INVALID", "SOCK_CREATE", "SOCK_BIND",
             "SOCK_LISTEN", "SOCK_FD_CLOSE", "CONN_ACCEPT", "CONN_SEND", "CONN_FD_CLOSE",
             "TIMEOUT", "TIMER_CREATE", "TIMER_LIMIT"}

TypeOK ==
    /\ conns \in [Slots -> [fd : Fds \cup {-1}, pollin : BOOLEAN]]
    /\ sock \in Fds \cup {-1}
    /\ DOMAIN files \subseteq Fds
    /\ \A f \in DOMAIN files : files[f] \in Peers \cup {NoPeer}
    /\ backlog \in Seq(Peers) /\ Len(backlog) <= Backlog
    /\ link \in [Peers -> {"away", "open", "fin", "reset"}]
    /\ data \subseteq Peers
    /\ pc \in {"down", "app", "accept", "scan", "hangup", "read", "sent", "start"}
    /\ slot \in 0 .. ConnCount /\ round \in 0 .. Rounds
    /\ cur \in Slots \cup {-1}
    /\ asker \in Peers \cup {NoPeer}
    /\ answered \in Peers \cup {NoPeer}
    /\ inits \in 0 .. MaxInits
    /\ failed \in {"nobody", "program", "scan", "handler"}
    /\ status \in Statuses

-----------------------------------------------------------------------------
(* The kernel *)

FreeFds == Fds \ DOMAIN files

WithFile(f, owner) == [g \in DOMAIN files \cup {f} |-> IF g = f THEN owner ELSE files[g]]

WithoutFile(f) == [g \in DOMAIN files \ {f} |-> files[g]]

IsOpen(i) == conns[i].fd \in DOMAIN files

PeerOf(i) == files[conns[i].fd]

\* poll on slot i; a free slot and a closed file give neither
HangUp(i) == IsOpen(i) /\ PeerOf(i) \in Peers /\ link[PeerOf(i)] = "reset"

\* mutant of Readable: the scan ends before the last slot
ReadableButLast(i) ==
    /\ i < ConnCount - 1
    /\ IsOpen(i) /\ PeerOf(i) \in Peers /\ conns[i].pollin
    /\ PeerOf(i) \in data \/ link[PeerOf(i)] = "fin"

Readable(i) ==
    /\ IsOpen(i) /\ PeerOf(i) \in Peers /\ conns[i].pollin
    /\ PeerOf(i) \in data \/ link[PeerOf(i)] = "fin"

\* mutant of FreeSlots: a slot in use is taken for a free one
AnySlot == Slots

FreeSlots == {i \in Slots : conns[i].fd = -1}

\* shttp_sock_accept_nblk with result r: poll on the listening socket, then
\* accept into the first free slot
AcceptNblk(r) ==
    \/ /\ backlog = <<>>
       /\ r = "TIMEOUT"
       /\ UNCHANGED <<conns, files, backlog>>
    \/ /\ backlog # <<>> /\ FreeSlots = {}
       /\ r = "UNKNOWN_ERROR"
       /\ UNCHANGED <<conns, files, backlog>>
    \/ /\ backlog # <<>> /\ FreeSlots # {} /\ FreeFds = {}
       /\ r = "CONN_ACCEPT"
       /\ UNCHANGED <<conns, files, backlog>>
    \/ /\ backlog # <<>> /\ FreeSlots # {} /\ FreeFds # {}
       /\ r = "OK"
       /\ conns' = [conns EXCEPT ![Min(FreeSlots)].fd = Min(FreeFds)]
       /\ files' = WithFile(Min(FreeFds), Head(backlog))
       /\ backlog' = Tail(backlog)

\* shttp_sock_close of slot i up to its result; the kernel drops the file, and
\* with it the connection, even when close reports an error
Drop(i) ==
    /\ IsOpen(i)
    /\ files' = WithoutFile(conns[i].fd)
    /\ IF PeerOf(i) \in Peers
       THEN /\ link' = [link EXCEPT ![PeerOf(i)] = "away"]
            /\ data' = data \ {PeerOf(i)}
       ELSE UNCHANGED <<link, data>>

\* the assertions of shttp_sock_close: slot i is free, or the number in it is
\* that of a closed file, for which shutdown reports EBADF
Aborts(i, who) ==
    /\ ~IsOpen(i)
    /\ failed' = who
    /\ UNCHANGED <<conns, files, link, data>>

-----------------------------------------------------------------------------
(* shttp_init and shttp_deinit *)

InitBegins ==
    /\ pc = "down" /\ inits < MaxInits
    /\ inits' = inits + 1
    /\ conns' = [i \in Slots |-> [fd |-> -1, pollin |-> TRUE]]
    /\ backlog' = <<>>
    /\ UNCHANGED <<link, data, scan, cur, asker, answered, failed>>

\* the file of a socket that cannot be bound stays open
InitFails ==
    /\ InitBegins
    /\ \/ /\ status' = "SOCK_CREATE"
          /\ sock' = -1
          /\ UNCHANGED files
       \/ /\ status' \in {"SOCK_BIND", "SOCK_LISTEN"}
          /\ FreeFds # {}
          /\ sock' = Min(FreeFds)
          /\ files' = WithFile(Min(FreeFds), NoPeer)
    /\ UNCHANGED pc

InitListens ==
    /\ InitBegins
    /\ FreeFds # {}
    /\ sock' = Min(FreeFds)
    /\ files' = WithFile(Min(FreeFds), NoPeer)

SockInit == InitFails \/ (InitListens /\ pc' = "app" /\ status' = "OK")

\* close(-1) fails for a free slot, which ends the call unless it is forced;
\* connections that are open are left as they are.  A close of the listening
\* socket that reports an error leaves its number, and is tried again by the
\* next call, on a file that is closed.
SockDeinit(force) ==
    /\ pc \in {"down", "app"} /\ inits > 0
    /\ IF ~force /\ FreeSlots # {}
       THEN /\ status' = "CONN_FD_CLOSE"
            /\ UNCHANGED <<sock, kernel>>
       ELSE /\ \/ /\ sock # -1 /\ (sock \in DOMAIN files => CloseFails)
                  /\ status' = "SOCK_FD_CLOSE"
                  /\ UNCHANGED sock
               \/ /\ sock = -1 \/ sock \in DOMAIN files
                  /\ status' = "OK"
                  /\ sock' = -1
            /\ files' = WithoutFile(sock)
            /\ backlog' = <<>>
            /\ link' = [p \in Peers |-> IF p \in Range(backlog) THEN "away" ELSE link[p]]
            /\ data' = data \ Range(backlog)
    /\ pc' = "down"
    /\ cur' = -1
    /\ UNCHANGED <<conns, scan, asker, answered, inits, failed>>

-----------------------------------------------------------------------------
(* shttp_next: rounds of a sleep, an accept and a look at every slot *)

NextCall ==
    /\ pc = "app"
    /\ pc' = "accept"
    /\ round' = Rounds
    /\ cur' = -1 /\ asker' = NoPeer /\ answered' = NoPeer
    /\ UNCHANGED <<conns, sock, kernel, slot, inits, failed, status>>

\* shttp_next_nblk: no time, no rounds; and any call with an empty buffer
NextNblk ==
    /\ pc = "app"
    /\ status' \in {"TIMEOUT", "SLICE_END"}
    /\ cur' = -1 /\ asker' = NoPeer /\ answered' = NoPeer
    /\ UNCHANGED <<conns, sock, kernel, pc, scan, inits, failed>>

\* shttp_sock_next_nblk, which is in sock.h and which nothing in the library
\* calls: one look at every slot, without a sleep or an accept
SockNextNblk ==
    /\ pc = "app"
    /\ pc' = "scan"
    /\ slot' = 0 /\ round' = 1
    /\ cur' = -1 /\ asker' = NoPeer /\ answered' = NoPeer
    /\ UNCHANGED <<conns, sock, kernel, inits, failed, status>>

RoundBegin ==
    /\ pc = "accept"
    /\ \E r \in Statuses : AcceptNblk(r) /\ status' = r
    /\ pc' = "scan"
    /\ slot' = 0
    /\ UNCHANGED <<sock, link, data, round, cur, asker, answered, inits, failed>>

\* an error or a hang-up: the slot is to be closed
ScanHangUp ==
    /\ pc = "scan" /\ slot < ConnCount
    /\ HangUp(slot)
    /\ pc' = "hangup"
    /\ UNCHANGED <<conns, sock, kernel, scan, cur, asker, answered, inits, failed, status>>

\* the slot is closed and freed, and its events are cleared
ScanClose ==
    /\ pc = "hangup"
    /\ \/ /\ Drop(slot)
          /\ conns' = [conns EXCEPT ![slot] = [fd |-> -1, pollin |-> FALSE]]
          /\ slot' = slot + 1 /\ pc' = "scan"
          /\ UNCHANGED failed
       \/ Aborts(slot, "scan") /\ UNCHANGED <<slot, pc>>
    /\ UNCHANGED <<sock, backlog, round, cur, asker, answered, inits, status>>

\* data: shttp_sock_next returns the slot
ScanRequest ==
    /\ pc = "scan" /\ slot < ConnCount
    /\ ~HangUp(slot) /\ Readable(slot) /\ PeerOf(slot) \in data
    /\ data' = data \ {PeerOf(slot)}
    /\ pc' = "read" /\ cur' = slot /\ asker' = PeerOf(slot)
    /\ UNCHANGED <<conns, sock, files, backlog, link, scan, answered, inits, failed, status>>

\* shttp_msg_request accepts the request, or shttp_next fails and the program
\* forgets about it
MsgRequest ==
    /\ pc = "read" /\ pc' = "app"
    /\ \/ status' = "OK" /\ UNCHANGED <<cur, asker>>
       \/ status' = "INVALID" /\ cur' = -1 /\ asker' = NoPeer
    /\ UNCHANGED <<conns, sock, kernel, scan, answered, inits, failed>>

\* nothing to read: no event, or the end of what the peer sends
ScanNothing ==
    /\ pc = "scan" /\ slot < ConnCount
    /\ ~HangUp(slot)
    /\ ~(Readable(slot) /\ PeerOf(slot) \in data)
    /\ slot' = slot + 1
    /\ UNCHANGED <<conns, sock, kernel, pc, round, cur, asker, answered, inits, failed, status>>

RoundEnd ==
    /\ pc = "scan" /\ slot = ConnCount
    /\ round' = round - 1
    /\ IF round > 1
       THEN pc' = "accept" /\ UNCHANGED status
       ELSE pc' = "app" /\ status' = "TIMEOUT"
    /\ UNCHANGED <<conns, sock, kernel, slot, cur, asker, answered, inits, failed>>

-----------------------------------------------------------------------------
(* shttp_send and shttp_close, for the request the program is answering *)

Answering == pc = "app" /\ cur # -1

\* what a program may do with an invalid response is get it refused
SendRefused ==
    /\ Answering
    /\ \/ status' = "INVALID"
       \/ status' = "CONN_SEND" /\ (IsOpen(cur) => HangUp(cur))
    /\ UNCHANGED <<conns, sock, kernel, pc, scan, cur, asker, answered, inits, failed>>

\* mutant of Sent: the accept comes before the send
SentAfterAccept ==
    /\ Answering
    /\ \E r \in Statuses : AcceptNblk(r)
    /\ pc' = "sent"
    /\ UNCHANGED <<sock, link, data, scan, cur, asker, inits, failed, status>>
    /\ IsOpen(cur)' /\ answered' = PeerOf(cur)'

\* the response leaves
Sent ==
    /\ Answering
    /\ IsOpen(cur) /\ ~HangUp(cur)
    /\ answered' = PeerOf(cur)
    /\ pc' = "sent"
    /\ UNCHANGED <<conns, sock, kernel, scan, cur, asker, inits, failed, status>>

\* shttp_sock_send ends with an accept, whose result it drops
SendAccepts ==
    /\ pc = "sent"
    /\ \E r \in Statuses : AcceptNblk(r)
    /\ UNCHANGED <<sock, link, data, scan, cur, asker, answered, inits, failed>>

Send == SendAccepts /\ pc' = "app" /\ status' = "OK"

\* mutants of Close: the slot is left as it was, or reset to 0
CloseAs(fd) ==
    /\ Answering
    /\ Drop(cur) /\ status' = "OK"
    /\ conns' = [conns EXCEPT ![cur].fd = fd]
    /\ cur' = -1
    /\ UNCHANGED <<sock, backlog, pc, scan, asker, answered, inits, failed>>
CloseKeeps == CloseAs(conns[cur].fd)
CloseZero == CloseAs(0)

Close ==
    /\ Answering
    /\ \/ /\ Drop(cur)
          /\ \/ status' = "OK" /\ conns' = [conns EXCEPT ![cur].fd = -1]
             \/ CloseFails /\ status' = "CONN_FD_CLOSE" /\ UNCHANGED conns
          /\ cur' = -1
          /\ UNCHANGED failed
       \/ Aborts(cur, "program") /\ UNCHANGED <<cur, status>>
    /\ UNCHANGED <<sock, backlog, pc, scan, asker, answered, inits>>

-----------------------------------------------------------------------------
(* The peers *)

Connect(p) ==
    /\ pc # "down" /\ Len(backlog) < Backlog
    /\ link[p] = "away"
    /\ link' = [link EXCEPT ![p] = "open"]
    /\ backlog' = Append(backlog, p)
    /\ UNCHANGED <<files, data>>

Request(p) ==
    /\ link[p] = "open" /\ p \notin data
    /\ data' = data \cup {p}
    /\ UNCHANGED <<files, backlog, link>>

Finish(p) ==
    /\ link[p] = "open"
    /\ link' = [link EXCEPT ![p] = "fin"]
    /\ UNCHANGED <<files, backlog, data>>

Reset(p) ==
    /\ PeersReset
    /\ link[p] \in {"open", "fin"}
    /\ link' = [link EXCEPT ![p] = "reset"]
    /\ data' = data \ {p}
    /\ UNCHANGED <<files, backlog>>

Peer(p) ==
    /\ Connect(p) \/ Request(p) \/ Finish(p) \/ Reset(p)
    /\ UNCHANGED <<conns, sock, pc, scan, cur, asker, answered, inits, failed, status>>

-----------------------------------------------------------------------------

\* conns is a static array before shttp_init
Init ==
    /\ conns = [i \in Slots |-> [fd |-> -1, pollin |-> FALSE]]
    /\ sock = -1
    /\ files = << >>
    /\ backlog = <<>>
    /\ link = [p \in Peers |-> "away"]
    /\ data = {}
    /\ pc = "down"
    /\ slot = 0 /\ round = 0
    /\ cur = -1 /\ asker = NoPeer /\ answered = NoPeer
    /\ inits = 0
    /\ failed = "nobody"
    /\ status = "OK"

Scan ==
    \/ RoundBegin \/ ScanHangUp \/ ScanClose \/ ScanRequest \/ ScanNothing \/ RoundEnd
    \/ MsgRequest

Next ==
    /\ failed = "nobody"
    /\ \/ SockInit
       \/ \E force \in BOOLEAN : SockDeinit(force)
       \/ NextCall \/ NextNblk \/ SockNextNblk \/ Scan
       \/ SendRefused \/ Sent \/ Send \/ Close
       \/ \E p \in Peers : Peer(p)

Spec == Init /\ [][Next]_vars

\* The program calls shttp_next again and again, however many responses it sends
\* in between, as the loop of every example does, and the thread runs; nothing
\* is asked of the peers.
FairSpec == Spec /\ SF_vars(NextCall) /\ WF_vars(Scan \/ Send)

-----------------------------------------------------------------------------
(* Properties *)

\* The table and the kernel agree, through hang-ups, closes and accepts: every
\* file the library has opened is in exactly one slot or is the listening
\* socket, and every slot that is not free holds an open file.  Nothing leaks
\* and no slot answers for another's connection.  (A second shttp_init drops
\* what the first one left in the table.)
TableMatchesKernel ==
    inits <= 1 =>
        /\ \A i \in Slots : conns[i].fd # -1 => IsOpen(i) /\ conns[i].fd # sock
        /\ \A i, j \in Slots : i # j /\ conns[i].fd # -1 => conns[i].fd # conns[j].fd
        /\ \A f \in DOMAIN files : f = sock \/ \E i \in Slots : conns[i].fd = f

\* A response goes to the peer whose request the program was given, although
\* all that connects the two is the number of a slot.
ReplyToAsker == answered \in {asker, NoPeer}

\* Fairness among the slots: a request on a slot that still has POLLIN is read
\* in the end, unless lower slots are served again and again (every call looks
\* at slot 0 first and returns the first request it finds), the connection is
\* gone or the server is shut down.
Waiting(i) == conns[i].pollin /\ IsOpen(i) /\ PeerOf(i) \in data
RequestsRead ==
    \A i \in Slots :
        \/ Waiting(i) ~> (~Waiting(i) \/ pc = "down")
        \/ []<><<pc = "scan" /\ pc' = "read" /\ slot < i>>_vars
=============================================================================
