----------------------------- MODULE LegacyTcp -----------------------------
(***************************************************************************)
(* The older TCP server in TcpServer/: CTCPServer, whose thread listens,   *)
(* and CTCPCustom, an object and a thread for each client.                 *)
(*                                                                         *)
(* A client that connects is to replace the one before it: the listening   *)
(* thread raises m_ExitClientThread, sleeps for a second and accepts.  A   *)
(* client's thread looks at that flag in every round; otherwise it echoes  *)
(* what the client says and, while saving is on, waits for a message in    *)
(* the queue msqid2 and sends every Batch of them.  Messages are put there *)
(* while m_ClientEnable is set.  Both flags are shared by all threads, and *)
(* nobody waits for a thread's end: the server may be opened again while   *)
(* the listening thread of before is still running.                        *)
(* The capture thread that feeds the queue and reads the save switch is    *)
(* commented out in maintask.cpp; Produce and Toggle are what it does.     *)
(*                                                                         *)
(* Objects are numbered as they are created; a message is its number.      *)
(* Sockets are told apart by themselves, not by their descriptors: that a  *)
(* number is given to something else while a thread still uses it, and     *)
(* that Close before the first Open closes descriptor 0, is left out.      *)
(***************************************************************************)
EXTENDS Integers, Sequences

CONSTANTS
  MaxClients,   \* bound: connections, and so CTCPCustom objects
  Batch,        \* messages sent at a time (100)
  QueueCap,     \* messages the queue holds
  MaxMessages,  \* bound: messages produced and failures of msgrcv
  MaxErrors,    \* bound: of these, failures
  MaxBusy       \* bound: messages and failures where the server is closed

ASSUME LegacyTcpAssumption ==
  /\ MaxClients \in Nat /\ Batch \in Nat \ {0}
  /\ QueueCap \in Nat \ {0} /\ MaxMessages \in Nat /\ MaxErrors \in Nat
  /\ MaxBusy \in Nat

Client == 1 .. MaxClients

VARIABLES
  m_sockfd,            \* the listening socket: "open", or "none" when it is
                       \* closed, -1, or not listening
  m_ExitThreadFlag,    \* the listening thread is to end
  m_ExitClientThread,  \* a client's thread is to end
  m_ClientEnable,      \* there is a client
  lpc,                 \* where the listening thread is, "off" when there is none,
                       \* "dead" when the process has ended
  backlog,             \* clients that have connected and are not accepted
  objects,             \* objects created
  pc,                  \* where the thread of each object is
  socket,              \* m_socketfd of each: "none", "open", "left" (open, but
                       \* the client has hung up), "bad" (-1) or "closed"
  flag_save,           \* saving is on
  msqid2,              \* the queue
  produced,            \* messages that the queue has taken
  Msg3,                \* the last message each thread has received, 0 before it
  TxBuf,               \* the messages each thread has gathered
  sent,                \* history: the messages sent to each client
  errors,              \* history: failures of msgrcv
  late                 \* history: threads created after Close

flags == <<m_ExitThreadFlag, m_ExitClientThread, m_ClientEnable>>
listener == <<m_sockfd, lpc, backlog, objects, late>>
clients == <<pc, socket>>
queue == <<flag_save, msqid2, produced>>
stream == <<Msg3, TxBuf, sent, errors>>
vars == <<flags, listener, clients, queue, stream>>

(* Messages and failures of msgrcv, and how many there may be. *)
Busy == produced + errors
Bound == IF m_ExitThreadFlag THEN MaxBusy ELSE MaxMessages

Init ==
  /\ m_sockfd = "none"
  /\ m_ExitThreadFlag = FALSE /\ m_ExitClientThread = FALSE
  /\ m_ClientEnable = FALSE
  /\ lpc = "off" /\ backlog = 0 /\ objects = 0
  /\ pc = [c \in Client |-> "none"]
  /\ socket = [c \in Client |-> "none"]
  /\ flag_save = FALSE /\ msqid2 = <<>> /\ produced = 0
  /\ Msg3 = [c \in Client |-> 0] /\ TxBuf = [c \in Client |-> <<>>]
  /\ sent = [c \in Client |-> <<>>] /\ errors = 0
  /\ late = 0

-----------------------------------------------------------------------------
(* The caller. *)

(* CTCPServer::Open, which the caller repeats only after Close or when it  *)
(* has failed.  m_ExitThreadFlag is not reset.  The listening thread of    *)
(* before may still be on its way to its next test: then it goes on with   *)
(* the new socket, and the new thread ends at its own first test.          *)
OpenServer ==
  /\ m_sockfd # "open" /\ lpc # "dead"
  /\ \/ /\ m_sockfd' = "open"
        /\ lpc' = IF lpc \in {"off", "ended"} THEN "test" ELSE lpc
     \/ UNCHANGED <<m_sockfd, lpc>>
  /\ UNCHANGED <<flags, backlog, objects, late, clients, queue, stream>>

(* CTCPServer::Close, which may come at any time (but for the bound        *)
(* MaxBusy): the flag, then the socket.                                    *)
CloseFlag ==
  /\ lpc # "dead" /\ ~m_ExitThreadFlag /\ Busy <= MaxBusy
  /\ m_ExitThreadFlag' = TRUE
  /\ UNCHANGED <<m_ExitClientThread, m_ClientEnable, listener, clients, queue,
                 stream>>

CloseSocket ==
  /\ m_ExitThreadFlag /\ m_sockfd = "open"
  /\ m_sockfd' = "none"
  /\ backlog' = 0
  /\ UNCHANGED <<flags, lpc, objects, late, clients, queue, stream>>

-----------------------------------------------------------------------------
(* SocketListenThread. *)

(* A plausible mistake: the flag is not looked at. *)
TestNothing ==
  /\ lpc = "test"
  /\ lpc' = "select"
  /\ UNCHANGED <<flags, m_sockfd, backlog, objects, late, clients, queue, stream>>

Test ==
  /\ lpc = "test"
  /\ lpc' = IF m_ExitThreadFlag THEN "ended" ELSE "select"
  /\ UNCHANGED <<flags, m_sockfd, backlog, objects, late, clients, queue, stream>>

(* select waits for two seconds at most.  When there is a connection,      *)
(* m_ClientEnable is looked at.  A socket that is not listening, left by   *)
(* an Open that failed, seems readable; on a closed one select fails; on   *)
(* -1, or when the socket was closed during the wait, the time passes.     *)
Select ==
  /\ lpc = "select"
  /\ \/ /\ \/ m_sockfd = "open" /\ backlog > 0
           \/ m_sockfd = "none" /\ objects < MaxClients
        /\ lpc' = IF m_ClientEnable THEN "signal" ELSE "accept"
     \/ (backlog = 0 \/ m_ExitThreadFlag) /\ lpc' = "test"
     \/ m_sockfd = "none" /\ lpc' = "shut"
  /\ UNCHANGED <<flags, m_sockfd, backlog, objects, late, clients, queue, stream>>

(* select has failed: the socket is closed, be it by now a new one. *)
Shut ==
  /\ lpc = "shut"
  /\ m_sockfd' = "none"
  /\ backlog' = 0
  /\ lpc' = "ended"
  /\ UNCHANGED <<flags, objects, late, clients, queue, stream>>

(* The flag is raised; then comes sleep(1), during which anything happens. *)
Signal ==
  /\ lpc = "signal"
  /\ m_ExitClientThread' = TRUE
  /\ lpc' = "accept"
  /\ UNCHANGED <<m_ExitThreadFlag, m_ClientEnable, m_sockfd, backlog, objects,
                 late, clients, queue, stream>>

(* A new object.  accept waits for a connection, which may have gone with  *)
(* the socket it was made to.  The -1 of an accept on a socket that is     *)
(* closed or does not listen passes the test of m_socketfd.                *)
Accept ==
  /\ lpc = "accept"
  /\ m_sockfd = "open" => backlog > 0
  /\ objects' = objects + 1
  /\ IF m_sockfd = "open"
     THEN /\ socket' = [socket EXCEPT ![objects'] = "open"]
          /\ backlog' = backlog - 1
     ELSE /\ socket' = [socket EXCEPT ![objects'] = "bad"]
          /\ UNCHANGED backlog
  /\ lpc' = "create"
  /\ UNCHANGED <<flags, m_sockfd, late, pc, queue, stream>>

(* CTCPCustom::Open.  What follows pthread_create in it touches only the   *)
(* object (which the new thread may have deleted by then).                 *)
Create ==
  /\ lpc = "create"
  /\ \/ /\ pc' = [pc EXCEPT ![objects] = "start"]
        /\ late' = IF m_ExitThreadFlag THEN late + 1 ELSE late
        /\ UNCHANGED socket
     \/ /\ socket' = [socket EXCEPT ![objects] = "closed"]
        /\ UNCHANGED <<pc, late>>
  /\ lpc' = "test"
  /\ UNCHANGED <<flags, m_sockfd, backlog, objects, queue, stream>>

Listen == Test \/ Select \/ Shut \/ Signal \/ Accept \/ Create

-----------------------------------------------------------------------------
(* SocketDataThread of object c. *)

Start(c) ==
  /\ pc[c] = "start"
  /\ m_ClientEnable' = TRUE
  /\ pc' = [pc EXCEPT ![c] = "top"]
  /\ UNCHANGED <<m_ExitThreadFlag, m_ExitClientThread, listener, socket,
                 queue, stream>>

Top(c) ==
  /\ pc[c] = "top"
  /\ pc' = [pc EXCEPT ![c] = IF m_ExitClientThread THEN "obey" ELSE "poll"]
  /\ UNCHANGED <<flags, listener, socket, queue, stream>>

(* A plausible mistake: the flag is left up. *)
ObeyAndKeep(c) ==
  /\ pc[c] = "obey"
  /\ socket' = [socket EXCEPT ![c] = "closed"]
  /\ pc' = [pc EXCEPT ![c] = "leave"]
  /\ UNCHANGED <<flags, listener, queue, stream>>

(* The flag is taken by whoever sees it first, be it the new client. *)
Obey(c) ==
  /\ pc[c] = "obey"
  /\ m_ExitClientThread' = FALSE
  /\ socket' = [socket EXCEPT ![c] = "closed"]
  /\ pc' = [pc EXCEPT ![c] = "leave"]
  /\ UNCHANGED <<m_ExitThreadFlag, m_ClientEnable, listener, queue, stream>>

(* select without waiting: nothing, or something the client has said and   *)
(* that is echoed.  While saving is on the queue comes next; when it is    *)
(* off, what was gathered is dropped.  (Whether a socket of -1 seems       *)
(* readable is open, FD_SET of it being undefined; recv would fail.)       *)
Poll(c) ==
  /\ pc[c] = "poll"
  /\ socket[c] # "left"
  /\ IF flag_save
     THEN pc' = [pc EXCEPT ![c] = "take"] /\ UNCHANGED TxBuf
     ELSE pc' = [pc EXCEPT ![c] = "top"] /\ TxBuf' = [TxBuf EXCEPT ![c] = <<>>]
  /\ UNCHANGED <<flags, listener, socket, queue, Msg3, sent, errors>>


(* recv returns 0 or less. *)
HangUp(c) ==
  /\ pc[c] = "poll" /\ socket[c] \in {"bad", "left"}
  /\ socket' = [socket EXCEPT ![c] = "closed"]
  /\ pc' = [pc EXCEPT ![c] = "leave"]
  /\ UNCHANGED <<flags, listener, queue, stream>>

(* What a client said before it left is echoed without MSG_NOSIGNAL: when  *)
(* the connection is broken by then, SIGPIPE ends the process.  Only the   *)
(* queue is left.                                                          *)
BrokenPipe(c) ==
  /\ pc[c] = "poll" /\ socket[c] = "left"
  /\ lpc' = "dead" /\ m_sockfd' = "none" /\ backlog' = 0
  /\ m_ClientEnable' = FALSE /\ m_ExitClientThread' = FALSE
  /\ pc' = [d \in Client |-> IF pc[d] = "none" THEN "none" ELSE "ended"]
  /\ socket' = [d \in Client |-> IF socket[d] = "none" THEN "none" ELSE "closed"]
  /\ Msg3' = [d \in Client |-> 0] /\ TxBuf' = [d \in Client |-> <<>>]
  /\ UNCHANGED <<m_ExitThreadFlag, objects, late, queue, sent, errors>>

(* Message m joins what c has gathered; the queue becomes q.  A full batch *)
(* is sent, as much of it as the socket takes; a client that has left gets *)
(* none of it.                                                             *)
TakeAs(c, m, q) ==
  /\ pc[c] = "take"
  /\ msqid2' = q
  /\ Msg3' = [Msg3 EXCEPT ![c] = m]
  /\ LET gathered == Append(TxBuf[c], m)
     IN  IF Len(gathered) < Batch
         THEN TxBuf' = [TxBuf EXCEPT ![c] = gathered] /\ UNCHANGED sent
         ELSE /\ TxBuf' = [TxBuf EXCEPT ![c] = <<>>]
              /\ \E n \in IF socket[c] = "open" THEN 0 .. Batch ELSE {0} :
                   sent' = [sent EXCEPT ![c] = @ \o SubSeq(gathered, 1, n)]
  /\ pc' = [pc EXCEPT ![c] = "top"]
  /\ UNCHANGED <<flags, listener, socket, flag_save, produced>>

(* A plausible mistake: the message is only looked at. *)
Peek(c) ==
  /\ msqid2 # <<>>
  /\ TakeAs(c, Head(msqid2), msqid2)
  /\ UNCHANGED errors

(* msgrcv waits until there is a message. *)
Take(c) ==
  /\ msqid2 # <<>>
  /\ TakeAs(c, Head(msqid2), Tail(msqid2))
  /\ UNCHANGED errors

(* msgrcv fails, which is not looked at: the message of before, or nothing *)
(* anybody has sent, is gathered once more.                                *)
TakeFails(c) ==
  /\ errors < MaxErrors /\ Busy < Bound
  /\ TakeAs(c, Msg3[c], msqid2)
  /\ errors' = errors + 1

(* A plausible mistake: the flag is not cleared. *)
LeaveEnabled(c) ==
  /\ pc[c] = "leave"
  /\ pc' = [pc EXCEPT ![c] = "ended"]
  /\ UNCHANGED <<flags, listener, socket, queue, stream>>

(* The flag is cleared, for all threads, and the object deleted; what the  *)
(* thread had on its stack goes with it.                                   *)
Leave(c) ==
  /\ pc[c] = "leave"
  /\ m_ClientEnable' = FALSE
  /\ pc' = [pc EXCEPT ![c] = "ended"]
  /\ Msg3' = [Msg3 EXCEPT ![c] = 0] /\ TxBuf' = [TxBuf EXCEPT ![c] = <<>>]
  /\ UNCHANGED <<m_ExitThreadFlag, m_ExitClientThread, listener, socket,
                 queue, sent, errors>>

Serve(c) ==
  \/ Start(c) \/ Top(c) \/ Obey(c) \/ Poll(c) \/ HangUp(c) \/ Take(c)
  \/ Leave(c)

-----------------------------------------------------------------------------
(* Clients, the save switch, and the capture thread. *)

Connect ==
  /\ m_sockfd = "open"
  /\ objects + backlog < MaxClients
  /\ backlog' = backlog + 1
  /\ UNCHANGED <<flags, m_sockfd, lpc, objects, late, clients, queue,
                 stream>>

Depart(c) ==
  /\ socket[c] = "open"
  /\ socket' = [socket EXCEPT ![c] = "left"]
  /\ UNCHANGED <<flags, listener, pc, queue, stream>>

Toggle ==
  /\ lpc # "dead"
  /\ flag_save' = ~flag_save
  /\ UNCHANGED <<flags, listener, clients, msqid2, produced, stream>>

(* A message for the client there is.  One that a full queue refuses gets  *)
(* no number: nothing changes.                                             *)
Produce ==
  /\ m_ClientEnable /\ Busy < Bound /\ Len(msqid2) < QueueCap
  /\ produced' = produced + 1
  /\ msqid2' = Append(msqid2, produced')
  /\ UNCHANGED <<flags, listener, clients, flag_save, stream>>

Next ==
  \/ OpenServer \/ CloseFlag \/ CloseSocket
  \/ Listen
  \/ \E c \in Client : Serve(c) \/ TakeFails(c) \/ BrokenPipe(c) \/ Depart(c)
  \/ Connect \/ Toggle \/ Produce

Spec == Init /\ [][Next]_vars

(* No thread of the server is kept from running; a client's thread waits   *)
(* in msgrcv only, where Serve is not enabled.                             *)
FairSpec == Spec /\ WF_vars(Listen) /\ \A c \in Client : WF_vars(Serve(c))

-----------------------------------------------------------------------------
(* Properties. *)

Serving == {"top", "obey", "poll", "take", "leave"}

TypeOK ==
  /\ m_sockfd \in {"open", "none"}
  /\ \A f \in {m_ExitThreadFlag, m_ExitClientThread, m_ClientEnable, flag_save} :
       f \in BOOLEAN
  /\ lpc \in {"off", "test", "select", "shut", "signal", "accept", "create",
              "ended", "dead"}
  /\ backlog \in Nat /\ objects \in Nat /\ objects + backlog <= MaxClients
  /\ pc \in [Client -> {"none", "start", "ended"} \cup Serving]
  /\ socket \in [Client -> {"none", "open", "left", "bad", "closed"}]
  /\ msqid2 \in Seq(Nat) /\ Len(msqid2) <= QueueCap /\ produced \in Nat
  /\ Msg3 \in [Client -> Nat]
  /\ TxBuf \in [Client -> Seq(Nat)] /\ sent \in [Client -> Seq(Nat)]
  /\ late \in Nat /\ errors \in Nat

(* Messages are put into the queue only while some client's thread is      *)
(* between setting m_ClientEnable and clearing it, although every thread   *)
(* sets and clears it for all.  This is less than tcpserver.h says of the  *)
(* flag, that non-zero means an active client: the thread may wait for a   *)
(* message long after its client has gone, or have closed its socket, or   *)
(* never have had one.  (Nor need it be set while there is a client: see   *)
(* the README.)                                                            *)
EnableSound == m_ClientEnable => \E c \in Client : pc[c] \in Serving

(* However many threads take from the queue at once, no message is sent to *)
(* two clients, and each client gets its messages in the order in which    *)
(* they were produced, and none twice unless msgrcv has failed.  (0 is     *)
(* what a thread sends whose first msgrcv has failed.)                     *)
OnceInOrder ==
  \A c, d \in Client :
    \A i \in DOMAIN sent[c], j \in DOMAIN sent[d] :
      /\ c # d => sent[c][i] # sent[d][j] \/ sent[c][i] = 0
      /\ c = d /\ i < j => \/ sent[c][i] < sent[c][j]
                           \/ sent[c][i] = sent[c][j] /\ errors > 0

(* After Close at most one more client's thread is created: the one for    *)
(* which the listening thread was on its way to accept, be it by then from *)
(* a socket opened since.  However often the server is opened again, there *)
(* is no other.                                                            *)
ClosedForGood == late <= 1

(* pthread_create has failed for a client's thread. *)
NotCreated == \E c \in Client : pc[c] = "none" /\ socket[c] = "closed"

(* Once the accept that follows a request to end has returned, the request *)
(* is taken: if the old client's thread is waiting for a message or has    *)
(* left by itself, by the new client's.  Only a new thread that cannot be  *)
(* created leaves it pending.  (The accept itself may wait for ever, when  *)
(* the connection it is for has been closed with the socket.)              *)
RequestTaken ==
  (m_ExitClientThread /\ lpc # "accept") ~> (~m_ExitClientThread \/ NotCreated)

=============================================================================
