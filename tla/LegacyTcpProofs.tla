-------------------------- MODULE LegacyTcpProofs --------------------------
(* Proofs about the older TCP server, for any number of clients, batch and *)
(* queue size, and any number of messages.                                 *)
EXTENDS LegacyTcp, Functions, SequenceTheorems, TLAPS

(* Once select has returned there is an object left for what accept        *)
(* returns.  Only an open socket has connections.  The threads that exist  *)
(* are those of the objects created.                                       *)
Shape ==
  /\ lpc \in {"signal", "accept"} => objects < MaxClients
  /\ m_sockfd # "open" => backlog = 0
  /\ lpc = "create" => objects \in Client
  /\ \A c \in Client : c > objects \/ (lpc = "create" /\ c = objects) => pc[c] = "none"

TypeInv == TypeOK /\ Shape

(* Before Close no thread is counted as late; afterwards the listening     *)
(* thread ends before it could create a second one.                        *)
LateInv ==
  /\ ~m_ExitThreadFlag => late = 0
  /\ lpc \in {"select", "signal", "accept", "create"} => late = 0
  /\ late <= 1

-----------------------------------------------------------------------------
(* Sequences of numbers that rise, which is how the proofs say "in order": *)
(* strictly, and so none twice, where k is 0, and not strictly where k is  *)
(* 1.  What the operators on queues preserve.                              *)

Rising(k, s) == \A i, j \in 1 .. Len(s) : i < j => s[i] < s[j] + k

(* The same between every number of S and every number of T. *)
Below(k, S, T) == \A x \in S, y \in T : x < y + k

(* The members of a sequence are its values at its indices. *)
LEMMA Members ==
  ASSUME NEW s \in Seq(Nat)
  PROVE  /\ \A i \in 1 .. Len(s) : s[i] \in Range(s) /\ s[i] \in Nat
         /\ \A x \in Range(s) : \E i \in 1 .. Len(s) : x = s[i]
         /\ Range(s) \subseteq Nat
         /\ Len(s) \in Nat
<1>1. s \in [1 .. Len(s) -> Nat] /\ Len(s) \in Nat
  BY LenProperties
<1> QED
  BY <1>1 DEF Range

LEMMA EmptyRising ==
  /\ <<>> \in Seq(Nat) /\ Len(<<>>) = 0 /\ Range(<<>>) = {}
  /\ \A k : Rising(k, <<>>)
<1>1. <<>> \in Seq(Nat) /\ Len(<<>>) = 0
  OBVIOUS
<1>2. Range(<<>>) = {}
  <2> DEFINE e == <<>>
  <2>1. e \in Seq(Nat) /\ Len(e) = 0
    BY <1>1
  <2> HIDE DEF e
  <2>2. \A x \in Range(e) : \E i \in 1 .. Len(e) : x = e[i]
    BY <2>1, Members
  <2>3. 1 .. Len(e) = {}
    BY <2>1
  <2>4. Range(e) = {}
    BY <2>2, <2>3
  <2> QED
    BY <2>4 DEF e
<1> QED
  BY <1>1, <1>2 DEF Rising

(* What joins a queue at its end. *)
LEMMA AppendRising ==
  ASSUME NEW k \in Nat, NEW s \in Seq(Nat), NEW x \in Nat
  PROVE  /\ Append(s, x) \in Seq(Nat) /\ Len(Append(s, x)) = Len(s) + 1
         /\ Range(Append(s, x)) = Range(s) \cup {x}
         /\ Rising(k, s) /\ Below(k, Range(s), {x}) => Rising(k, Append(s, x))
<1> DEFINE t == Append(s, x)
<1>1. /\ t \in Seq(Nat) /\ Len(t) = Len(s) + 1 /\ Len(s) \in Nat
      /\ \A i \in 1 .. Len(s) : t[i] = s[i]
      /\ t[Len(s) + 1] = x
  BY AppendProperties, LenProperties
<1> HIDE DEF t
<1>2. \A i \in 1 .. Len(t) : i \in 1 .. Len(s) \/ i = Len(s) + 1
  BY <1>1
<1>3. Range(t) = Range(s) \cup {x}
  <2>1. ASSUME NEW y \in Range(t)
        PROVE  y \in Range(s) \cup {x}
    <3>1. PICK i \in 1 .. Len(t) : y = t[i]
      BY <1>1, Members
    <3>2. CASE i \in 1 .. Len(s)
      BY <1>1, <3>1, <3>2, Members
    <3>3. CASE i = Len(s) + 1
      BY <1>1, <3>1, <3>3
    <3> QED
      BY <1>2, <3>2, <3>3
  <2>2. \A y \in Range(s) : y \in Range(t)
    <3> SUFFICES ASSUME NEW i \in 1 .. Len(s)
                 PROVE  s[i] \in Range(t)
      BY Members
    <3>1. i \in 1 .. Len(t) /\ t[i] = s[i]
      BY <1>1
    <3> QED
      BY <1>1, <3>1, Members
  <2>3. x \in Range(t)
    <3>1. Len(s) + 1 \in 1 .. Len(t)
      BY <1>1
    <3> QED
      BY <1>1, <3>1, Members
  <2> QED
    BY <2>1, <2>2, <2>3
<1>4. ASSUME Rising(k, s), Below(k, Range(s), {x})
      PROVE  Rising(k, t)
  <2> SUFFICES ASSUME NEW i \in 1 .. Len(t), NEW j \in 1 .. Len(t), i < j
               PROVE  t[i] < t[j] + k
    BY DEF Rising
  <2>1. i \in 1 .. Len(s)
    BY <1>1
  <2>2. CASE j \in 1 .. Len(s)
    BY <1>1, <1>4, <2>1, <2>2 DEF Rising
  <2>3. CASE j = Len(s) + 1
    <3>1. s[i] < x + k
      BY <1>4, <2>1, Members DEF Below
    <3> QED
      BY <1>1, <2>1, <2>3, <3>1
  <2> QED
    BY <1>2, <2>2, <2>3
<1> QED
  BY <1>1, <1>3, <1>4 DEF t

(* What leaves a queue at its head. *)
LEMMA TailRising ==
  ASSUME NEW k \in Nat, NEW s \in Seq(Nat), s # <<>>
  PROVE  /\ Tail(s) \in Seq(Nat) /\ Len(Tail(s)) = Len(s) - 1 /\ Len(s) > 0
         /\ Head(s) \in Range(s) /\ Head(s) \in Nat /\ Range(Tail(s)) \subseteq Range(s)
         /\ Rising(k, s) => Rising(k, Tail(s)) /\ Below(k, {Head(s)}, Range(Tail(s)))
<1> DEFINE t == Tail(s)
<1>1. /\ t \in Seq(Nat) /\ Len(t) = Len(s) - 1 /\ Len(s) \in Nat /\ Len(s) > 0
      /\ \A i \in 1 .. Len(t) : t[i] = s[i + 1]
  BY HeadTailProperties, LenProperties, EmptySeq
<1>2. Head(s) = s[1] /\ 1 \in 1 .. Len(s)
  BY <1>1
<1> HIDE DEF t
<1>3. \A i \in 1 .. Len(t) : i + 1 \in 1 .. Len(s) /\ t[i] = s[i + 1]
  BY <1>1
<1>4. Head(s) \in Range(s) /\ Head(s) \in Nat
  BY <1>2, Members
<1>5. ASSUME NEW x \in Range(t)
      PROVE  x \in Range(s)
  <2>1. PICK i \in 1 .. Len(t) : x = t[i]
    BY <1>1, Members
  <2> QED
    BY <1>3, <2>1, Members
<1>6. ASSUME Rising(k, s)
      PROVE  Rising(k, t) /\ Below(k, {Head(s)}, Range(t))
  <2>1. Rising(k, t)
    <3> SUFFICES ASSUME NEW i \in 1 .. Len(t), NEW j \in 1 .. Len(t), i < j
                 PROVE  t[i] < t[j] + k
      BY DEF Rising
    <3>1. i + 1 < j + 1
      OBVIOUS
    <3> QED
      BY <1>3, <1>6, <3>1 DEF Rising
  <2>2. \A i \in 1 .. Len(t) : Head(s) < t[i] + k
    <3> SUFFICES ASSUME NEW i \in 1 .. Len(t)
                 PROVE  s[1] < t[i] + k
      BY <1>2
    <3>1. 1 < i + 1
      OBVIOUS
    <3> QED
      BY <1>2, <1>3, <1>6, <3>1 DEF Rising
  <2> QED
    BY <1>1, <2>1, <2>2, Members DEF Below
<1> QED
  BY <1>1, <1>4, <1>5, <1>6 DEF t

(* The beginning of a sequence. *)
LEMMA PrefixRising ==
  ASSUME NEW k \in Nat, NEW s \in Seq(Nat), NEW n \in 0 .. Len(s)
  PROVE  /\ SubSeq(s, 1, n) \in Seq(Nat) /\ Len(SubSeq(s, 1, n)) = n
         /\ Range(SubSeq(s, 1, n)) \subseteq Range(s)
         /\ Rising(k, s) => Rising(k, SubSeq(s, 1, n))
<1> DEFINE t == SubSeq(s, 1, n)
<1>1. Len(s) \in Nat /\ n \in Int /\ \A i \in 1 .. n : s[i] \in Nat
  BY LenProperties
<1>2. /\ t \in Seq(Nat) /\ Len(t) = IF 1 <= n THEN n - 1 + 1 ELSE 0
      /\ \A i \in 1 .. n - 1 + 1 : t[i] = s[1 + i - 1]
  BY <1>1, SubSeqProperties
<1> HIDE DEF t
<1>3. Len(t) = n /\ \A i \in 1 .. Len(t) : t[i] = s[i] /\ i \in 1 .. Len(s)
  <2>1. Len(t) = n
    BY <1>1, <1>2
  <2>2. \A i \in 1 .. n : i \in 1 .. n - 1 + 1 /\ 1 + i - 1 = i /\ i \in 1 .. Len(s)
    BY <1>1
  <2> QED
    BY <1>2, <2>1, <2>2
<1>4. ASSUME NEW x \in Range(t)
      PROVE  x \in Range(s)
  <2>1. PICK i \in 1 .. Len(t) : x = t[i]
    BY <1>2, Members
  <2> QED
    BY <1>3, <2>1, Members
<1>5. Rising(k, s) => Rising(k, t)
  BY <1>3 DEF Rising
<1> QED
  BY <1>2, <1>3, <1>4, <1>5 DEF t

(* One sequence behind another. *)
LEMMA ConcatRising ==
  ASSUME NEW k \in Nat, NEW s \in Seq(Nat), NEW t \in Seq(Nat)
  PROVE  /\ s \o t \in Seq(Nat) /\ Len(s \o t) = Len(s) + Len(t)
         /\ Range(s \o t) = Range(s) \cup Range(t)
         /\ Rising(k, s) /\ Rising(k, t) /\ Below(k, Range(s), Range(t))
            => Rising(k, s \o t)
<1> DEFINE u == s \o t
<1>1. /\ u \in Seq(Nat) /\ Len(u) = Len(s) + Len(t)
      /\ Len(s) \in Nat /\ Len(t) \in Nat
      /\ \A i \in 1 .. Len(s) + Len(t) :
           u[i] = IF i <= Len(s) THEN s[i] ELSE t[i - Len(s)]
  BY ConcatProperties, LenProperties
<1>2. Range(u) = Range(s) \cup Range(t)
  BY RangeConcatenation
<1> HIDE DEF u
<1>3. \A i \in 1 .. Len(u) :
        /\ i \in 1 .. Len(s) => u[i] = s[i]
        /\ i \notin 1 .. Len(s) => ~(i <= Len(s))
        /\ i \notin 1 .. Len(s) => i - Len(s) \in 1 .. Len(t) /\ u[i] = t[i - Len(s)]
  BY <1>1
<1>4. ASSUME Rising(k, s), Rising(k, t), Below(k, Range(s), Range(t))
      PROVE  Rising(k, u)
  <2> SUFFICES ASSUME NEW i \in 1 .. Len(u), NEW j \in 1 .. Len(u), i < j
               PROVE  u[i] < u[j] + k
    BY DEF Rising
  <2>1. CASE i \in 1 .. Len(s) /\ j \in 1 .. Len(s)
    <3>1. u[i] = s[i] /\ u[j] = s[j]
      BY <1>1, <1>3, <2>1
    <3> QED
      BY <1>4, <2>1, <3>1 DEF Rising
  <2>2. CASE i \in 1 .. Len(s) /\ j \notin 1 .. Len(s)
    <3>1. s[i] \in Range(s) /\ t[j - Len(s)] \in Range(t)
      BY <1>3, <2>2, Members
    <3>2. s[i] < t[j - Len(s)] + k
      BY <1>4, <3>1 DEF Below
    <3>3. u[i] = s[i] /\ u[j] = t[j - Len(s)]
      BY <1>3, <2>2
    <3> QED
      BY <3>2, <3>3
  <2>3. CASE i \notin 1 .. Len(s)
    <3>1. i - Len(s) < j - Len(s) /\ j \notin 1 .. Len(s)
      BY <1>1, <2>3
    <3> QED
      BY <1>3, <1>4, <2>3, <3>1 DEF Rising
  <2> QED
    BY <2>1, <2>2, <2>3
<1> QED
  BY <1>1, <1>2, <1>4 DEF u

(* What rises strictly rises. *)
LEMMA RisingWeaker ==
  ASSUME NEW s \in Seq(Nat), NEW k \in Nat, NEW m \in Nat, k <= m, Rising(k, s)
  PROVE  Rising(m, s)
<1> SUFFICES ASSUME NEW i \in 1 .. Len(s), NEW j \in 1 .. Len(s), i < j
             PROVE  s[i] < s[j] + m
  BY DEF Rising
<1>1. s[i] < s[j] + k /\ s[i] \in Nat /\ s[j] \in Nat
  BY Members DEF Rising
<1> QED
  BY <1>1

LEMMA BelowWeaker ==
  ASSUME NEW S \in SUBSET Nat, NEW T \in SUBSET Nat, NEW k \in Nat, NEW m \in Nat,
         k <= m, Below(k, S, T)
  PROVE  Below(m, S, T)
<1> SUFFICES ASSUME NEW x \in S, NEW y \in T
             PROVE  x < y + m
  BY DEF Below
<1>1. x < y + k /\ x \in Nat /\ y \in Nat
  BY DEF Below
<1> QED
  BY <1>1

-----------------------------------------------------------------------------
(* Types. *)

LEMMA TypeInit == Init => TypeInv
<1> SUFFICES ASSUME Init
             PROVE  TypeInv
  OBVIOUS
<1> USE LegacyTcpAssumption
<1>1. /\ m_sockfd = "none" /\ lpc = "off"
      /\ backlog = 0 /\ objects = 0 /\ late = 0 /\ produced = 0 /\ msqid2 = <<>>
      /\ pc = [c \in Client |-> "none"]
      /\ socket = [c \in Client |-> "none"] /\ errors = 0
      /\ Msg3 = [c \in Client |-> 0]
      /\ TxBuf = [c \in Client |-> <<>>] /\ sent = [c \in Client |-> <<>>]
  BY DEF Init
<1>2. \A f \in {m_ExitThreadFlag, m_ExitClientThread, m_ClientEnable, flag_save} :
        f \in BOOLEAN
  BY DEF Init
<1>3. /\ pc \in [Client -> {"none", "start", "ended"} \cup Serving]
      /\ socket \in [Client -> {"none", "open", "left", "bad", "closed"}]
  BY <1>1
<1>4. <<>> \in Seq(Nat) /\ Len(<<>>) = 0
  BY EmptyRising
<1>5. /\ Msg3 \in [Client -> Nat]
      /\ TxBuf \in [Client -> Seq(Nat)] /\ sent \in [Client -> Seq(Nat)]
  BY <1>1, <1>4
<1>6. TypeOK
  BY <1>1, <1>2, <1>3, <1>4, <1>5 DEF TypeOK
<1>7. Shape
  BY <1>1 DEF Shape
<1> QED
  BY <1>6, <1>7 DEF TypeInv

(* The Booleans, and what only the listening thread and the caller touch.  *)
FlagsOK ==
  /\ m_ExitThreadFlag \in BOOLEAN /\ m_ExitClientThread \in BOOLEAN
  /\ m_ClientEnable \in BOOLEAN /\ flag_save \in BOOLEAN
ListenerOK ==
  /\ m_sockfd \in {"open", "none"}
  /\ lpc \in {"off", "test", "select", "shut", "signal", "accept", "create",
              "ended", "dead"}
  /\ backlog \in Nat /\ objects \in Nat /\ objects + backlog <= MaxClients
  /\ late \in Nat
ClientsOK ==
  /\ pc \in [Client -> {"none", "start", "ended"} \cup Serving]
  /\ socket \in [Client -> {"none", "open", "left", "bad", "closed"}]
QueueOK ==
  /\ msqid2 \in Seq(Nat) /\ Len(msqid2) <= QueueCap /\ produced \in Nat
  /\ Msg3 \in [Client -> Nat] /\ errors \in Nat
  /\ TxBuf \in [Client -> Seq(Nat)] /\ sent \in [Client -> Seq(Nat)]

LEMMA TypeParts ==
  /\ TypeOK <=> FlagsOK /\ ListenerOK /\ ClientsOK /\ QueueOK
  /\ TypeOK' <=> FlagsOK' /\ ListenerOK' /\ ClientsOK' /\ QueueOK'
<1>1. FlagsOK <=> \A f \in {m_ExitThreadFlag, m_ExitClientThread, m_ClientEnable,
                            flag_save} : f \in BOOLEAN
  BY DEF FlagsOK
<1>2. FlagsOK' <=> (\A f \in {m_ExitThreadFlag, m_ExitClientThread, m_ClientEnable,
                              flag_save} : f \in BOOLEAN)'
  BY DEF FlagsOK
<1> QED
  BY <1>1, <1>2 DEF TypeOK, ListenerOK, ClientsOK, QueueOK

LEMMA FlagsNext == FlagsOK /\ [Next]_vars => FlagsOK'
<1> SUFFICES ASSUME FlagsOK, [Next]_vars
             PROVE  FlagsOK'
  OBVIOUS
<1> USE DEF FlagsOK, flags, listener, clients, queue, stream
<1>1. CASE OpenServer \/ CloseFlag \/ CloseSocket
  BY <1>1 DEF OpenServer, CloseFlag, CloseSocket
<1>2. CASE Listen
  BY <1>2 DEF Listen, Test, Select, Shut, Signal, Accept, Create
<1>3. ASSUME NEW c \in Client, Serve(c) \/ TakeFails(c)
      PROVE  FlagsOK'
  BY <1>3 DEF Serve, Start, Top, Obey, Poll, HangUp, Take, TakeFails, TakeAs, Leave
<1>4. ASSUME NEW c \in Client, Depart(c) \/ BrokenPipe(c)
      PROVE  FlagsOK'
  BY <1>4 DEF Depart, BrokenPipe
<1>5. CASE Connect \/ Toggle \/ Produce
  BY <1>5 DEF Connect, Toggle, Produce
<1>6. CASE UNCHANGED vars
  BY <1>6 DEF vars
<1> QED
  BY <1>1, <1>2, <1>3, <1>4, <1>5, <1>6 DEF Next

(* Steps of the clients' threads and of the outside leave the listener as  *)
(* it is, but for the backlog.                                             *)
LEMMA ListenerNext ==
  ListenerOK /\ ClientsOK /\ Shape /\ [Next]_vars => ListenerOK' /\ ClientsOK' /\ Shape'
<1> SUFFICES ASSUME ListenerOK, ClientsOK, Shape, [Next]_vars
             PROVE  ListenerOK' /\ ClientsOK' /\ Shape'
  OBVIOUS
<1> USE LegacyTcpAssumption DEF ListenerOK, ClientsOK
<1> USE DEF listener, clients
<1>1. CASE OpenServer
  BY <1>1 DEF OpenServer, Shape
<1>2. CASE CloseFlag
  BY <1>2 DEF CloseFlag, Shape
<1>3. CASE CloseSocket
  BY <1>3 DEF CloseSocket, Shape
<1>4. CASE Test
  BY <1>4 DEF Test, Shape
<1>5. CASE Select
  <2>1. lpc' \in {"signal", "accept"} => objects < MaxClients
    BY <1>5 DEF Select, Shape
  <2> QED
    BY <1>5, <2>1 DEF Select, Shape
<1>14. CASE Shut
  BY <1>14 DEF Shut, Shape
<1>6. CASE Signal
  BY <1>6 DEF Signal, Shape
<1>7. CASE Accept
  <2>1. /\ objects' = objects + 1 /\ lpc' = "create" /\ lpc = "accept"
        /\ UNCHANGED <<m_sockfd, late, pc>>
        /\ objects < MaxClients
        /\ IF m_sockfd = "open" THEN backlog > 0 /\ backlog' = backlog - 1
                                ELSE backlog = 0 /\ backlog' = backlog
    BY <1>7 DEF Accept, Shape
  <2>2. objects' \in Client
    BY <2>1 DEF Client
  <2>3. socket' \in [Client -> {"none", "open", "left", "bad", "closed"}]
    BY <1>7 DEF Accept
  <2>4. \A c \in Client : c > objects' \/ c = objects' => pc'[c] = "none"
    BY <2>1 DEF Shape, Client
  <2>5. ListenerOK' /\ ClientsOK'
    BY <2>1, <2>3
  <2> QED
    BY <2>1, <2>2, <2>4, <2>5 DEF Shape
<1>8. CASE Create
  <2>1. /\ lpc = "create" /\ lpc' = "test" /\ objects \in Client
        /\ UNCHANGED <<m_sockfd, backlog, objects>>
    BY <1>8 DEF Create, Shape
  <2>2. ClientsOK'
    BY <1>8, <2>1 DEF Create
  <2>3. late' \in Nat
    BY <1>8 DEF Create
  <2>4. \A c \in Client : c > objects => pc'[c] = "none"
    <3>1. pc' = pc \/ pc' = [pc EXCEPT ![objects] = "start"]
      BY <1>8 DEF Create
    <3> QED
      BY <2>1, <3>1 DEF Shape, Client
  <2>5. ListenerOK'
    BY <2>1, <2>3
  <2> QED
    BY <2>1, <2>2, <2>4, <2>5 DEF Shape
<1>9. ASSUME NEW c \in Client, Serve(c) \/ TakeFails(c)
      PROVE  ListenerOK' /\ ClientsOK' /\ Shape'
  <2>1. UNCHANGED listener
    BY <1>9 DEF Serve, Start, Top, Obey, Poll, HangUp, Take, TakeFails, TakeAs, Leave
  <2>2. /\ pc[c] # "none"
        /\ \E p \in {"ended"} \cup Serving : pc' = [pc EXCEPT ![c] = p]
    BY <1>9 DEF Serve, Start, Top, Obey, Poll, HangUp, Take, TakeFails, TakeAs, Leave,
                Serving
  <2>3. socket' = socket \/ socket' = [socket EXCEPT ![c] = "closed"]
    BY <1>9 DEF Serve, Start, Top, Obey, Poll, HangUp, Take, TakeFails, TakeAs, Leave
  <2>4. ClientsOK'
    BY <2>1, <2>2, <2>3
  <2>5. \A d \in Client : pc[d] = "none" => pc'[d] = "none"
    BY <2>2
  <2> QED
    BY <2>1, <2>4, <2>5 DEF Shape
<1>10. ASSUME NEW c \in Client, Depart(c)
       PROVE  ListenerOK' /\ ClientsOK' /\ Shape'
  BY <1>10 DEF Depart, Shape
<1>15. ASSUME NEW c \in Client, BrokenPipe(c)
       PROVE  ListenerOK' /\ ClientsOK' /\ Shape'
  <2>1. /\ lpc' = "dead" /\ m_sockfd' = "none" /\ backlog' = 0
        /\ UNCHANGED <<objects, late>>
        /\ pc' = [d \in Client |-> IF pc[d] = "none" THEN "none" ELSE "ended"]
        /\ socket' = [d \in Client |-> IF socket[d] = "none" THEN "none" ELSE "closed"]
    BY <1>15 DEF BrokenPipe
  <2>2. ListenerOK' /\ ClientsOK'
    BY <2>1
  <2>3. \A d \in Client : pc[d] = "none" => pc'[d] = "none"
    BY <2>1
  <2> QED
    BY <2>1, <2>2, <2>3 DEF Shape
<1>11. CASE Connect
  BY <1>11 DEF Connect, Shape
<1>12. CASE Toggle \/ Produce
  BY <1>12 DEF Toggle, Produce, Shape
<1>13. CASE UNCHANGED vars
  BY <1>13 DEF vars, Shape
<1> QED
  BY <1>1, <1>2, <1>3, <1>4, <1>5, <1>6, <1>7, <1>8, <1>9, <1>10, <1>11, <1>12, <1>13,
     <1>14, <1>15 DEF Next, Listen

(* What a message that is taken, or taken once more, does to the queue and *)
(* to what the threads have gathered and sent.                             *)
Gathers(c, m, q) ==
  /\ msqid2' = q /\ produced' = produced
  /\ Msg3' = [Msg3 EXCEPT ![c] = m]
  /\ \/ TxBuf' = [TxBuf EXCEPT ![c] = Append(TxBuf[c], m)] /\ sent' = sent
     \/ /\ TxBuf' = [TxBuf EXCEPT ![c] = <<>>]
        /\ ~(Len(Append(TxBuf[c], m)) < Batch)
        /\ \E n \in 0 .. Batch :
             sent' = [sent EXCEPT ![c] = sent[c] \o SubSeq(Append(TxBuf[c], m), 1, n)]

LEMMA TakeGathers ==
  ASSUME NEW c \in Client, NEW m, NEW q, TakeAs(c, m, q)
  PROVE  Gathers(c, m, q)
<1>1. \A b : (IF b THEN 0 .. Batch ELSE {0}) \subseteq 0 .. Batch
  BY LegacyTcpAssumption
<1> QED
  BY <1>1 DEF TakeAs, Gathers

LEMMA QueueNext == QueueOK /\ [Next]_vars => QueueOK'
<1> SUFFICES ASSUME QueueOK, [Next]_vars
             PROVE  QueueOK'
  OBVIOUS
<1> USE DEF QueueOK
<1> USE DEF flags, listener, clients, queue, stream
<1>1. CASE Produce
  <2>1. /\ produced' = produced + 1 /\ UNCHANGED stream
        /\ Len(msqid2) < QueueCap /\ msqid2' = Append(msqid2, produced')
    BY <1>1 DEF Produce
  <2>2. produced' \in Nat
    BY <2>1
  <2>3. /\ Append(msqid2, produced') \in Seq(Nat)
        /\ Len(Append(msqid2, produced')) = Len(msqid2) + 1
    BY <2>2, AppendRising
  <2>4. Len(msqid2) \in Nat
    BY Members
  <2> QED
    BY <2>1, <2>2, <2>3, <2>4, LegacyTcpAssumption
<1>2. ASSUME NEW c \in Client, NEW m \in Nat, NEW q \in Seq(Nat), Len(q) <= QueueCap,
             Gathers(c, m, q), errors' \in Nat
      PROVE  QueueOK'
  <2> DEFINE gathered == Append(TxBuf[c], m)
  <2>1. /\ msqid2' = q /\ produced' = produced /\ Msg3' = [Msg3 EXCEPT ![c] = m]
        /\ \/ TxBuf' = [TxBuf EXCEPT ![c] = gathered] /\ sent' = sent
           \/ /\ TxBuf' = [TxBuf EXCEPT ![c] = <<>>]
              /\ ~(Len(gathered) < Batch)
              /\ \E n \in 0 .. Batch :
                   sent' = [sent EXCEPT ![c] = sent[c] \o SubSeq(gathered, 1, n)]
    BY <1>2 DEF Gathers
  <2>2. gathered \in Seq(Nat) /\ Len(gathered) \in Nat
    <3>1. gathered \in Seq(Nat)
      BY AppendRising
    <3> QED
      BY <3>1, Members
  <2> HIDE DEF gathered
  <2>3. <<>> \in Seq(Nat)
    BY EmptyRising
  <2>4. TxBuf' \in [Client -> Seq(Nat)]
    BY <2>1, <2>2, <2>3
  <2>5. ASSUME NEW n \in 0 .. Batch, ~(Len(gathered) < Batch)
        PROVE  sent[c] \o SubSeq(gathered, 1, n) \in Seq(Nat)
    <3>1. n \in 0 .. Len(gathered)
      BY <2>2, <2>5, LegacyTcpAssumption
    <3>2. SubSeq(gathered, 1, n) \in Seq(Nat)
      BY <2>2, <3>1, PrefixRising
    <3> QED
      BY <3>2, ConcatRising
  <2>6. sent' \in [Client -> Seq(Nat)]
    BY <2>1, <2>5
  <2>7. Msg3' \in [Client -> Nat]
    BY <2>1
  <2> QED
    BY <1>2, <2>1, <2>4, <2>6, <2>7
<1>3. ASSUME NEW c \in Client, Take(c)
      PROVE  QueueOK'
  <2>1. /\ msqid2 # <<>> /\ Gathers(c, Head(msqid2), Tail(msqid2)) /\ errors' = errors
    BY <1>3, TakeGathers DEF Take
  <2>2. Len(msqid2) \in Nat
    BY Members
  <2>3. /\ Tail(msqid2) \in Seq(Nat) /\ Len(Tail(msqid2)) <= QueueCap
        /\ Head(msqid2) \in Nat
    BY <2>1, <2>2, TailRising, LegacyTcpAssumption
  <2> QED
    BY <1>2, <2>1, <2>3
<1>4. ASSUME NEW c \in Client, TakeFails(c)
      PROVE  QueueOK'
  <2>1. Gathers(c, Msg3[c], msqid2) /\ errors' = errors + 1
    BY <1>4, TakeGathers DEF TakeFails
  <2> QED
    BY <1>2, <2>1
<1>5. ASSUME NEW c \in Client, Start(c) \/ Top(c) \/ Obey(c) \/ HangUp(c) \/ Depart(c)
      PROVE  QueueOK'
  BY <1>5 DEF Start, Top, Obey, HangUp, Depart
<1>6. ASSUME NEW c \in Client, Poll(c) \/ Leave(c)
      PROVE  QueueOK'
  <2>1. /\ UNCHANGED <<msqid2, produced, sent, errors>>
        /\ (TxBuf' = TxBuf \/ TxBuf' = [TxBuf EXCEPT ![c] = <<>>])
        /\ (Msg3' = Msg3 \/ Msg3' = [Msg3 EXCEPT ![c] = 0])
    BY <1>6 DEF Poll, Leave
  <2>2. <<>> \in Seq(Nat)
    BY EmptyRising
  <2>3. TxBuf' \in [Client -> Seq(Nat)]
    BY <2>1, <2>2
  <2>4. Msg3' \in [Client -> Nat]
    <3>1. 0 \in Nat
      OBVIOUS
    <3> QED
      BY <2>1, <3>1
  <2> QED
    BY <2>1, <2>3, <2>4
<1>7. ASSUME NEW c \in Client, BrokenPipe(c)
      PROVE  QueueOK'
  <2>1. /\ UNCHANGED <<msqid2, produced, sent, errors>>
        /\ TxBuf' = [d \in Client |-> <<>>] /\ Msg3' = [d \in Client |-> 0]
    BY <1>7 DEF BrokenPipe
  <2>2. <<>> \in Seq(Nat)
    BY EmptyRising
  <2> QED
    BY <2>1, <2>2
<1>8. CASE OpenServer \/ CloseFlag \/ CloseSocket \/ Listen \/ Connect \/ Toggle
  BY <1>8 DEF OpenServer, CloseFlag, CloseSocket, Listen, Test, Select, Shut, Signal,
              Accept, Create, Connect, Toggle
<1>9. CASE UNCHANGED vars
  BY <1>9 DEF vars
<1> QED
  BY <1>1, <1>3, <1>4, <1>5, <1>6, <1>7, <1>8, <1>9 DEF Next, Serve

LEMMA TypeInvariant == Spec => []TypeInv
<1>1. Init => TypeInv
  BY TypeInit
<1>2. TypeInv /\ [Next]_vars => TypeInv'
  BY TypeParts, FlagsNext, ListenerNext, QueueNext DEF TypeInv
<1> QED
  BY <1>1, <1>2, PTL DEF Spec

(* The types of the flags, the threads and the queue; the queue and the    *)
(* number of connections never exceed their limits.                        *)
THEOREM TypeCorrect == Spec => []TypeOK
<1>1. TypeInv => TypeOK
  BY DEF TypeInv
<1> QED
  BY <1>1, TypeInvariant, PTL

-----------------------------------------------------------------------------
(* The flags. *)

LEMMA EnableNext == TypeInv /\ EnableSound /\ [Next]_vars => EnableSound'
<1> SUFFICES ASSUME TypeInv, EnableSound, [Next]_vars, m_ClientEnable'
             PROVE  \E c \in Client : pc'[c] \in Serving
  BY DEF EnableSound
<1> USE DEF flags, listener, clients, queue, stream
<1>1. pc \in [Client -> {"none", "start", "ended"} \cup Serving]
  BY DEF TypeInv, TypeOK
<1>2. CASE Create
  <2>1. /\ objects \in Client /\ pc[objects] = "none"
        /\ m_ClientEnable' = m_ClientEnable
        /\ (pc' = pc \/ pc' = [pc EXCEPT ![objects] = "start"])
    BY <1>2 DEF Create, TypeInv, Shape
  <2>2. PICK c \in Client : pc[c] \in Serving
    BY <2>1 DEF EnableSound
  <2>3. pc'[c] = pc[c]
    BY <1>1, <2>1, <2>2 DEF Serving
  <2> QED
    BY <2>2, <2>3
<1>3. ASSUME NEW d \in Client, Start(d) \/ Top(d) \/ Obey(d) \/ Poll(d) \/ HangUp(d)
                               \/ Take(d) \/ TakeFails(d)
      PROVE  \E c \in Client : pc'[c] \in Serving
  <2>1. \E p \in Serving : pc' = [pc EXCEPT ![d] = p]
    BY <1>3 DEF Start, Top, Obey, Poll, HangUp, Take, TakeFails, TakeAs, Serving
  <2>2. pc'[d] \in Serving
    BY <1>1, <2>1
  <2> QED
    BY <2>2
<1>4. ASSUME NEW d \in Client, Leave(d) \/ BrokenPipe(d)
      PROVE  FALSE
  BY <1>4 DEF Leave, BrokenPipe
<1>5. ASSUME UNCHANGED <<pc, m_ClientEnable>>
      PROVE  \E c \in Client : pc'[c] \in Serving
  BY <1>5 DEF EnableSound
<1>6. CASE OpenServer \/ CloseFlag \/ CloseSocket \/ Test \/ Select \/ Shut \/ Signal
           \/ Accept \/ Connect \/ Toggle \/ Produce \/ UNCHANGED vars
  BY <1>5, <1>6 DEF OpenServer, CloseFlag, CloseSocket, Test, Select, Shut, Signal,
                    Accept, Connect, Toggle, Produce, vars
<1>7. ASSUME NEW d \in Client, Depart(d)
      PROVE  \E c \in Client : pc'[c] \in Serving
  BY <1>5, <1>7 DEF Depart
<1> QED
  BY <1>2, <1>3, <1>4, <1>6, <1>7 DEF Next, Listen, Serve

(* While m_ClientEnable is set there is a client's thread, which need not  *)
(* have a client: although every thread sets and clears the flag for all,  *)
(* it is never left set by the last of them.                               *)
THEOREM EnablesForAClient == Spec => []EnableSound
<1>1. Init => EnableSound
  BY DEF Init, EnableSound
<1>2. TypeInv /\ EnableSound /\ [Next]_vars => EnableSound'
  BY EnableNext
<1> QED
  BY <1>1, <1>2, TypeInvariant, PTL DEF Spec

LEMMA LateNext == TypeInv /\ LateInv /\ [Next]_vars => LateInv'
<1> SUFFICES ASSUME TypeInv, LateInv, [Next]_vars
             PROVE  LateInv'
  OBVIOUS
<1> USE DEF flags, listener, LateInv
<1>1. late \in Nat /\ m_ExitThreadFlag \in BOOLEAN
  BY DEF TypeInv, TypeOK
<1>2. CASE OpenServer \/ CloseFlag \/ CloseSocket
  BY <1>1, <1>2 DEF OpenServer, CloseFlag, CloseSocket
<1>3. CASE Test
  BY <1>1, <1>3 DEF Test
<1>4. CASE Select \/ Shut \/ Signal \/ Accept
  BY <1>1, <1>4 DEF Select, Shut, Signal, Accept
<1>5. CASE Create
  BY <1>1, <1>5 DEF Create
<1>6. ASSUME UNCHANGED <<m_ExitThreadFlag, lpc, late>>
      PROVE  LateInv'
  BY <1>6
<1>7. ASSUME NEW c \in Client, Serve(c) \/ TakeFails(c) \/ Depart(c)
      PROVE  LateInv'
  BY <1>6, <1>7 DEF Serve, Start, Top, Obey, Poll, HangUp, Take, TakeFails, TakeAs, Leave,
                    Depart
<1>9. ASSUME NEW c \in Client, BrokenPipe(c)
      PROVE  LateInv'
  BY <1>9 DEF BrokenPipe
<1>8. CASE Connect \/ Toggle \/ Produce \/ UNCHANGED vars
  BY <1>6, <1>8 DEF Connect, Toggle, Produce, vars
<1> QED
  BY <1>2, <1>3, <1>4, <1>5, <1>7, <1>8, <1>9 DEF Next, Listen

(* Close, whenever it is called, is followed by at most one more client's  *)
(* thread, however often and however soon the server is opened again.      *)
THEOREM ClosesForGood == Spec => []ClosedForGood
<1>1. Init => LateInv
  BY DEF Init, LateInv
<1>2. TypeInv /\ LateInv /\ [Next]_vars => LateInv'
  BY LateNext
<1>3. LateInv => ClosedForGood
  BY DEF LateInv, ClosedForGood
<1> QED
  BY <1>1, <1>2, <1>3, TypeInvariant, PTL DEF Spec

-----------------------------------------------------------------------------
(* The messages. *)

(* What c has sent, gathered and last received. *)
Mine(c) == Range(sent[c]) \cup Range(TxBuf[c]) \cup {Msg3[c]}

(* Once msgrcv has failed a message may come twice in a row. *)
Again == IF errors = 0 THEN 0 ELSE 1

(* What c has sent and gathered is in order, and as long as its thread     *)
(* runs nothing of it is newer than the message it has last received.      *)
(* Before its thread has been created nothing has been sent.               *)
InOrder(c) ==
  /\ Rising(Again, sent[c]) /\ Rising(Again, TxBuf[c])
  /\ Below(Again, Range(sent[c]), Range(TxBuf[c]))
  /\ pc[c] # "ended" => Below(1, Mine(c), {Msg3[c]})
  /\ pc[c] = "none" => sent[c] = <<>>

(* Everybody's messages are older than those in the queue, and nobody has  *)
(* one of another's, but for the 0 of those who have not received any.     *)
OrderInv ==
  /\ Rising(0, msqid2) /\ Below(0, Range(msqid2), {produced + 1})
  /\ Below(0, {0}, Range(msqid2))
  /\ \A c \in Client :
       /\ InOrder(c)
       /\ Below(0, Mine(c), Range(msqid2)) /\ Below(0, Mine(c), {produced + 1})
  /\ \A c, d \in Client : c # d => Mine(c) \cap Mine(d) \subseteq {0}

LEMMA OrderInit == Init => OrderInv
<1> SUFFICES ASSUME Init
             PROVE  OrderInv
  OBVIOUS
<1>1. /\ msqid2 = <<>> /\ produced = 0
      /\ \A c \in Client : sent[c] = <<>> /\ TxBuf[c] = <<>> /\ Msg3[c] = 0
  BY DEF Init
<1>2. \A c \in Client : Mine(c) = {0}
  BY <1>1, EmptyRising DEF Mine
<1> QED
  BY <1>1, <1>2, EmptyRising DEF OrderInv, InOrder, Below

(* Whose messages are numbers. *)
LEMMA MineNat == QueueOK => \A c \in Client : Mine(c) \subseteq Nat
  BY Members DEF QueueOK, Mine

LEMMA ProduceKeeps == QueueOK /\ OrderInv /\ Produce => OrderInv'
<1> SUFFICES ASSUME QueueOK, OrderInv, Produce
             PROVE  OrderInv'
  OBVIOUS
<1>1. /\ produced' = produced + 1 /\ UNCHANGED <<Msg3, TxBuf, sent, errors, pc>>
      /\ msqid2' = Append(msqid2, produced')
  BY DEF Produce, stream, clients
<1>2. msqid2 \in Seq(Nat) /\ produced \in Nat /\ produced' \in Nat
  BY <1>1 DEF QueueOK
<1>3. /\ Rising(0, msqid2) /\ Below(0, Range(msqid2), {produced'})
      /\ Range(msqid2) \subseteq Nat
  BY <1>1, <1>2, Members DEF OrderInv
<1>4. Rising(0, msqid2') /\ Range(msqid2') \subseteq Range(msqid2) \cup {produced'}
  BY <1>1, <1>2, <1>3, AppendRising
<1>5. Below(0, Range(msqid2'), {produced' + 1})
  <2>1. \A x \in Range(msqid2) : x \in Nat /\ x < produced'
    BY <1>2, <1>3 DEF Below
  <2> QED
    BY <1>2, <1>4, <2>1 DEF Below
<1>6. \A c \in Client : /\ Mine(c)' = Mine(c) /\ Mine(c) \subseteq Nat
                        /\ InOrder(c)' <=> InOrder(c)
  BY <1>1, MineNat DEF Mine, InOrder, Again
<1>7. Below(0, {0}, Range(msqid2'))
  <2>1. \A x \in Range(msqid2) : 0 < x
    BY <1>3 DEF OrderInv, Below
  <2>2. 0 < produced'
    BY <1>1, <1>2
  <2> QED
    BY <1>2, <1>3, <1>4, <2>1, <2>2 DEF Below
<1>8. ASSUME NEW c \in Client
      PROVE  Below(0, Mine(c), Range(msqid2')) /\ Below(0, Mine(c), {produced' + 1})
  <2>1. \A x \in Mine(c) : x \in Nat /\ x < produced'
    BY <1>1, <1>2, <1>6 DEF OrderInv, Below
  <2>2. \A x \in Mine(c), y \in Range(msqid2) : x < y
    BY <1>3, <1>6 DEF OrderInv, Below
  <2>3. \A x \in Mine(c) : x < produced' + 1
    BY <1>2, <2>1
  <2> QED
    BY <1>2, <1>3, <1>4, <2>1, <2>2, <2>3 DEF Below
<1>9. \A c \in Client : /\ InOrder(c)' /\ Below(0, Mine(c)', Range(msqid2'))
                        /\ Below(0, Mine(c)', {produced' + 1})
  BY <1>6, <1>8 DEF OrderInv
<1> QED
  BY <1>4, <1>5, <1>6, <1>7, <1>9 DEF OrderInv

(* A message goes to c: the oldest of the queue, or, when msgrcv fails,    *)
(* the one of before once more.                                            *)
LEMMA GatherKeeps ==
  ASSUME QueueOK, OrderInv, NEW c \in Client, NEW m \in Nat, NEW q \in Seq(Nat),
         NEW k \in {0, 1}, Gathers(c, m, q), k = Again', Again <= k,
         pc[c] = "take", pc' = [pc EXCEPT ![c] = "top"],
         Rising(0, q), Range(q) \subseteq Range(msqid2), Below(0, {m}, Range(q)),
         Below(0, {m}, {produced + 1}), Below(k, Mine(c), {m}),
         Below(1, Mine(c), {m}),
         \A d \in Client : d # c => m \notin Mine(d) \/ m = 0
  PROVE  OrderInv'
<1> DEFINE gathered == Append(TxBuf[c], m)
<1>1. /\ msqid2' = q /\ produced' = produced /\ Msg3' = [Msg3 EXCEPT ![c] = m]
      /\ \/ TxBuf' = [TxBuf EXCEPT ![c] = gathered] /\ sent' = sent
         \/ /\ TxBuf' = [TxBuf EXCEPT ![c] = <<>>]
            /\ ~(Len(gathered) < Batch)
            /\ \E n \in 0 .. Batch :
                 sent' = [sent EXCEPT ![c] = sent[c] \o SubSeq(gathered, 1, n)]
  BY DEF Gathers
<1>2. /\ msqid2 \in Seq(Nat) /\ TxBuf[c] \in Seq(Nat) /\ sent[c] \in Seq(Nat)
      /\ TxBuf \in [Client -> Seq(Nat)] /\ sent \in [Client -> Seq(Nat)]
      /\ Msg3 \in [Client -> Nat] /\ k \in Nat /\ Again \in Nat /\ 0 \in Nat
  BY DEF QueueOK, Again
<1>3. \A d \in Client : /\ Rising(k, sent[d]) /\ Rising(k, TxBuf[d])
                        /\ Below(k, Range(sent[d]), Range(TxBuf[d]))
  <2> SUFFICES ASSUME NEW d \in Client
               PROVE  /\ Rising(k, sent[d]) /\ Rising(k, TxBuf[d])
                      /\ Below(k, Range(sent[d]), Range(TxBuf[d]))
    OBVIOUS
  <2>1. /\ sent[d] \in Seq(Nat) /\ TxBuf[d] \in Seq(Nat)
        /\ Rising(Again, sent[d]) /\ Rising(Again, TxBuf[d])
        /\ Below(Again, Range(sent[d]), Range(TxBuf[d]))
    BY <1>2 DEF OrderInv, InOrder
  <2>2. Rising(k, sent[d]) /\ Rising(k, TxBuf[d])
    BY <1>2, <2>1, RisingWeaker
  <2>3. Range(sent[d]) \in SUBSET Nat /\ Range(TxBuf[d]) \in SUBSET Nat
    BY <2>1, Members
  <2> QED
    BY <1>2, <2>1, <2>2, <2>3, BelowWeaker
<1>4. Below(k, Range(TxBuf[c]), {m}) /\ Below(k, Range(sent[c]), {m})
  BY DEF Mine, Below
<1>5. /\ gathered \in Seq(Nat) /\ Rising(k, gathered)
      /\ Range(gathered) = Range(TxBuf[c]) \cup {m} /\ Len(gathered) \in Nat
  BY <1>2, <1>3, <1>4, AppendRising, Members
<1>6. Below(k, Range(sent[c]), Range(gathered))
  BY <1>3, <1>4, <1>5 DEF Below
<1> HIDE DEF gathered
<1>7. /\ Rising(k, sent'[c]) /\ Rising(k, TxBuf'[c])
      /\ Below(k, Range(sent'[c]), Range(TxBuf'[c]))
      /\ Range(sent'[c]) \cup Range(TxBuf'[c]) \subseteq Mine(c) \cup {m}
  <2>1. CASE TxBuf' = [TxBuf EXCEPT ![c] = gathered] /\ sent' = sent
    <3>1. TxBuf'[c] = gathered /\ sent'[c] = sent[c]
      BY <1>2, <2>1
    <3> QED
      BY <1>3, <1>5, <1>6, <3>1 DEF Mine
  <2>2. ASSUME TxBuf' = [TxBuf EXCEPT ![c] = <<>>], ~(Len(gathered) < Batch),
               NEW n \in 0 .. Batch,
               sent' = [sent EXCEPT ![c] = sent[c] \o SubSeq(gathered, 1, n)]
        PROVE  /\ Rising(k, sent'[c]) /\ Rising(k, TxBuf'[c])
               /\ Below(k, Range(sent'[c]), Range(TxBuf'[c]))
               /\ Range(sent'[c]) \cup Range(TxBuf'[c]) \subseteq Mine(c) \cup {m}
    <3> DEFINE g == SubSeq(gathered, 1, n)
    <3>1. n \in 0 .. Len(gathered)
      BY <1>5, <2>2, LegacyTcpAssumption
    <3>2. g \in Seq(Nat) /\ Rising(k, g) /\ Range(g) \subseteq Range(gathered)
      BY <1>2, <1>5, <3>1, PrefixRising
    <3>3. TxBuf'[c] = <<>> /\ sent'[c] = sent[c] \o g
      BY <1>2, <2>2
    <3> HIDE DEF g
    <3>4. Below(k, Range(sent[c]), Range(g))
      BY <1>6, <3>2 DEF Below
    <3>5. Rising(k, sent[c] \o g) /\ Range(sent[c] \o g) = Range(sent[c]) \cup Range(g)
      BY <1>2, <1>3, <3>2, <3>4, ConcatRising
    <3> QED
      BY <1>5, <3>2, <3>3, <3>5, EmptyRising DEF Mine, Below
  <2> QED
    BY <1>1, <2>1, <2>2
<1>8. Msg3'[c] = m /\ Mine(c)' \subseteq Mine(c) \cup {m}
  BY <1>1, <1>2, <1>7 DEF Mine
<1>9. \A d \in Client : d # c => /\ sent'[d] = sent[d] /\ TxBuf'[d] = TxBuf[d]
                                 /\ Msg3'[d] = Msg3[d] /\ pc'[d] = pc[d]
                                 /\ Mine(d)' = Mine(d)
  <2>1. \A d \in Client : d # c => /\ sent'[d] = sent[d] /\ TxBuf'[d] = TxBuf[d]
                                   /\ Msg3'[d] = Msg3[d] /\ pc'[d] = pc[d]
    BY <1>1, <1>2
  <2> QED
    BY <2>1 DEF Mine
<1>10. \A d \in Client : InOrder(d)'
  <2>1. InOrder(c)'
    <3>1. Below(1, Mine(c)', {m})
      BY <1>8 DEF Below
    <3> QED
      BY <1>1, <1>2, <1>7, <1>8, <3>1 DEF InOrder
  <2>2. \A d \in Client : d # c => InOrder(d)'
    BY <1>3, <1>9 DEF OrderInv, InOrder
  <2> QED
    BY <2>1, <2>2
<1>11. \A d \in Client : Below(0, Mine(d), Range(q)) /\ Below(0, Mine(d), {produced + 1})
  BY DEF OrderInv, Below
<1>12. \A d \in Client : /\ Below(0, Mine(d)', Range(q))
                         /\ Below(0, Mine(d)', {produced + 1})
  <2>1. Below(0, Mine(c)', Range(q)) /\ Below(0, Mine(c)', {produced + 1})
    BY <1>8, <1>11 DEF Below
  <2>2. \A d \in Client : d # c => /\ Below(0, Mine(d)', Range(q))
                                 /\ Below(0, Mine(d)', {produced + 1})
    BY <1>9, <1>11
  <2> QED
    BY <2>1, <2>2
<1>13. \A d, e \in Client : d # e => Mine(d)' \cap Mine(e)' \subseteq {0}
  BY <1>8, <1>9 DEF OrderInv
<1>14. Below(0, Range(q), {produced + 1}) /\ Below(0, {0}, Range(q))
  BY DEF OrderInv, Below
<1> QED
  BY <1>1, <1>10, <1>12, <1>13, <1>14 DEF OrderInv

LEMMA TakeKeeps ==
  ASSUME QueueOK, OrderInv, NEW c \in Client, Take(c)
  PROVE  OrderInv'
<1> DEFINE h == Head(msqid2)
           q == Tail(msqid2)
<1>1. /\ msqid2 # <<>> /\ Gathers(c, h, q) /\ Again' = Again
      /\ pc' = [pc EXCEPT ![c] = "top"] /\ pc[c] = "take"
  BY TakeGathers DEF Take, TakeAs, Again
<1>2. msqid2 \in Seq(Nat) /\ Again \in {0, 1} /\ 0 \in Nat
  BY DEF QueueOK, Again
<1>3. /\ h \in Range(msqid2) /\ h \in Nat /\ q \in Seq(Nat) /\ Rising(0, q)
      /\ Range(q) \subseteq Range(msqid2) /\ Below(0, {h}, Range(q))
  BY <1>1, <1>2, TailRising DEF OrderInv
<1> HIDE DEF h, q
<1>4. \A d \in Client : Mine(d) \in SUBSET Nat /\ Below(0, Mine(d), {h})
  BY <1>3, MineNat DEF OrderInv, Below
<1>5. Below(Again, Mine(c), {h}) /\ Below(1, Mine(c), {h})
  <2>1. /\ Mine(c) \in SUBSET Nat /\ {h} \in SUBSET Nat /\ Below(0, Mine(c), {h})
        /\ 0 \in Nat
    BY <1>2, <1>3, <1>4
  <2>2. \A k \in {0, 1} : k \in Nat /\ 0 <= k
    OBVIOUS
  <2>3. \A k \in {0, 1} : Below(k, Mine(c), {h})
    BY <2>1, <2>2, BelowWeaker
  <2> QED
    BY <1>2, <2>3
<1>6. \A d \in Client : h \notin Mine(d)
  <2> SUFFICES ASSUME NEW d \in Client, h \in Mine(d)
               PROVE  FALSE
    OBVIOUS
  <2>1. h < h + 0
    BY <1>4 DEF Below
  <2> QED
    BY <1>3, <2>1
<1>7. Below(0, {h}, {produced + 1})
  BY <1>3 DEF OrderInv, Below
<1> QED
  <2>1. PICK k \in {0, 1} : k = Again
    BY <1>2
  <2>2. k = Again' /\ Again <= k /\ Below(k, Mine(c), {h})
    BY <1>1, <1>2, <1>5, <2>1
  <2> QED
    BY <1>1, <1>3, <1>5, <1>6, <1>7, <2>2, GatherKeeps

LEMMA FailureKeeps ==
  ASSUME QueueOK, OrderInv, NEW c \in Client, TakeFails(c)
  PROVE  OrderInv'
<1>1. /\ Gathers(c, Msg3[c], msqid2) /\ errors' = errors + 1
      /\ pc' = [pc EXCEPT ![c] = "top"] /\ pc[c] = "take"
  BY TakeGathers DEF TakeFails, TakeAs
<1>2. /\ msqid2 \in Seq(Nat) /\ Msg3[c] \in Nat /\ Msg3[c] \in Mine(c)
      /\ Again \in {0, 1} /\ Again' = 1 /\ Again <= 1
  BY <1>1 DEF QueueOK, Again, Mine
<1>3. Below(1, Mine(c), {Msg3[c]})
  BY <1>1 DEF OrderInv, InOrder
<1>4. \A d \in Client : d # c => Msg3[c] \notin Mine(d) \/ Msg3[c] = 0
  BY <1>2 DEF OrderInv
<1>5. /\ Rising(0, msqid2) /\ Below(0, {Msg3[c]}, Range(msqid2))
      /\ Below(0, {Msg3[c]}, {produced + 1})
  BY <1>2 DEF OrderInv, Below
<1> QED
  BY <1>1, <1>2, <1>3, <1>4, <1>5, GatherKeeps

(* What is forgotten changes no order. *)
LEMMA ForgetKeeps ==
  ASSUME QueueOK, OrderInv, UNCHANGED <<msqid2, produced, sent, errors>>,
         \A d \in Client :
           /\ TxBuf'[d] \in {TxBuf[d], <<>>}
           /\ pc'[d] = "none" => pc[d] = "none"
           /\ \/ Msg3'[d] = Msg3[d] /\ (pc[d] = "ended" => pc'[d] = "ended")
              \/ /\ TxBuf'[d] = <<>> /\ Msg3'[d] = 0
                 /\ (pc'[d] = "ended" \/ sent[d] = <<>>)
  PROVE  OrderInv'
<1>1. \A d \in Client : Mine(d) \subseteq Nat
  BY MineNat
<1>2. \A d \in Client : Range(TxBuf'[d]) \subseteq Range(TxBuf[d])
  BY EmptyRising
<1>3. \A d \in Client : Mine(d)' \subseteq Mine(d) \cup {0}
  BY <1>2 DEF Mine
<1>4. ASSUME NEW d \in Client
      PROVE  InOrder(d)'
  <2>1. Rising(Again, sent[d]) /\ Rising(Again, TxBuf'[d])
    BY EmptyRising DEF OrderInv, InOrder
  <2>2. Below(Again, Range(sent[d]), Range(TxBuf'[d]))
    BY <1>2 DEF OrderInv, InOrder, Below
  <2>3. pc'[d] # "ended" => Below(1, Mine(d)', {Msg3'[d]})
    <3>1. CASE Msg3'[d] = Msg3[d] /\ (pc[d] = "ended" => pc'[d] = "ended")
      <4>1. Mine(d)' \subseteq Mine(d)
        BY <1>2, <3>1 DEF Mine
      <4> QED
        BY <3>1, <4>1 DEF OrderInv, InOrder, Below
    <3>2. CASE TxBuf'[d] = <<>> /\ Msg3'[d] = 0 /\ sent[d] = <<>>
      <4>1. Mine(d)' = {0}
        BY <3>2, EmptyRising DEF Mine
      <4> QED
        BY <3>2, <4>1 DEF Below
    <3> QED
      BY <3>1, <3>2
  <2>4. pc'[d] = "none" => sent[d] = <<>>
    BY DEF OrderInv, InOrder
  <2> QED
    BY <2>1, <2>2, <2>3, <2>4 DEF InOrder, Again
<1>5. \A d \in Client : /\ Below(0, Mine(d)', Range(msqid2))
                        /\ Below(0, Mine(d)', {produced + 1})
  <2>1. 0 < produced + 1 + 0
    BY DEF QueueOK
  <2> QED
    BY <1>3, <2>1 DEF OrderInv, Below
<1>6. \A d, e \in Client : d # e => Mine(d)' \cap Mine(e)' \subseteq {0}
  BY <1>3 DEF OrderInv
<1> QED
  BY <1>4, <1>5, <1>6 DEF OrderInv

LEMMA OrderNext == TypeInv /\ OrderInv /\ [Next]_vars => OrderInv'
<1> SUFFICES ASSUME TypeInv, OrderInv, [Next]_vars
             PROVE  OrderInv'
  OBVIOUS
<1> USE DEF flags, listener, clients, queue, stream
<1>1. /\ QueueOK /\ pc \in [Client -> {"none", "start", "ended"} \cup Serving]
      /\ TxBuf \in [Client -> Seq(Nat)] /\ Msg3 \in [Client -> Nat]
  BY TypeParts DEF TypeInv, ClientsOK, QueueOK
<1>2. ASSUME UNCHANGED <<msqid2, produced, stream>>,
             \A d \in Client : /\ pc[d] = "ended" => pc'[d] = "ended"
                               /\ pc'[d] = "none" => pc[d] = "none"
      PROVE  OrderInv'
  <2>1. UNCHANGED <<sent, errors, TxBuf, Msg3>>
    BY <1>2
  <2> QED
    BY <1>1, <1>2, <2>1, ForgetKeeps
<1>3. ASSUME NEW c \in Client, Poll(c)
      PROVE  OrderInv'
  <2>1. /\ UNCHANGED <<msqid2, produced, sent, errors, Msg3>>
        /\ (TxBuf' = TxBuf \/ TxBuf' = [TxBuf EXCEPT ![c] = <<>>])
        /\ pc[c] = "poll" /\ \E p \in {"take", "top"} : pc' = [pc EXCEPT ![c] = p]
    BY <1>3 DEF Poll
  <2>2. \A d \in Client : /\ (TxBuf'[d] = TxBuf[d] \/ TxBuf'[d] = <<>>)
                          /\ pc[d] = "ended" => pc'[d] = "ended"
                          /\ pc'[d] = "none" => pc[d] = "none"
    BY <1>1, <2>1
  <2> QED
    BY <1>1, <2>1, <2>2, ForgetKeeps
<1>4. ASSUME NEW c \in Client, Leave(c)
      PROVE  OrderInv'
  <2>1. /\ UNCHANGED <<msqid2, produced, sent, errors>>
        /\ pc' = [pc EXCEPT ![c] = "ended"]
        /\ Msg3' = [Msg3 EXCEPT ![c] = 0] /\ TxBuf' = [TxBuf EXCEPT ![c] = <<>>]
    BY <1>4 DEF Leave
  <2>2. /\ TxBuf'[c] = <<>> /\ Msg3'[c] = 0 /\ pc'[c] = "ended"
        /\ \A d \in Client : d # c => /\ TxBuf'[d] = TxBuf[d] /\ Msg3'[d] = Msg3[d]
                                      /\ pc'[d] = pc[d]
    BY <1>1, <2>1
  <2> QED
    BY <1>1, <2>1, <2>2, ForgetKeeps
<1>5. ASSUME NEW c \in Client, BrokenPipe(c)
      PROVE  OrderInv'
  <2>1. /\ UNCHANGED <<msqid2, produced, sent, errors>>
        /\ pc' = [d \in Client |-> IF pc[d] = "none" THEN "none" ELSE "ended"]
        /\ Msg3' = [d \in Client |-> 0] /\ TxBuf' = [d \in Client |-> <<>>]
    BY <1>5 DEF BrokenPipe
  <2>2. \A d \in Client : /\ TxBuf'[d] = <<>> /\ Msg3'[d] = 0
                          /\ pc'[d] = "none" => pc[d] = "none"
                          /\ (pc'[d] = "ended" \/ sent[d] = <<>>)
    BY <2>1 DEF OrderInv, InOrder
  <2> QED
    BY <1>1, <2>1, <2>2, ForgetKeeps
<1>6. ASSUME NEW c \in Client, Start(c) \/ Top(c) \/ Obey(c) \/ HangUp(c) \/ Depart(c)
      PROVE  OrderInv'
  <2>1. UNCHANGED <<msqid2, produced, stream>>
    BY <1>6 DEF Start, Top, Obey, HangUp, Depart
  <2>2. \A d \in Client : /\ pc[d] = "ended" => pc'[d] = "ended"
                          /\ pc'[d] = "none" => pc[d] = "none"
    BY <1>1, <1>6 DEF Start, Top, Obey, HangUp, Depart
  <2> QED
    BY <1>2, <2>1, <2>2
<1>7. CASE Create
  <2>1. /\ UNCHANGED <<msqid2, produced, stream>>
        /\ pc' = pc \/ pc' = [pc EXCEPT ![objects] = "start"]
        /\ objects \in Client /\ pc[objects] = "none"
    BY <1>7 DEF Create, TypeInv, Shape
  <2>2. \A d \in Client : /\ pc[d] = "ended" => pc'[d] = "ended"
                          /\ pc'[d] = "none" => pc[d] = "none"
    BY <1>1, <2>1
  <2> QED
    BY <1>2, <2>1, <2>2
<1>8. CASE OpenServer \/ CloseFlag \/ CloseSocket \/ Test \/ Select \/ Shut \/ Signal
           \/ Accept \/ Connect \/ Toggle \/ UNCHANGED vars
  <2>1. UNCHANGED <<msqid2, produced, stream, pc>>
    BY <1>8 DEF OpenServer, CloseFlag, CloseSocket, Test, Select, Shut, Signal, Accept,
                Connect, Toggle, vars
  <2> QED
    BY <1>2, <2>1
<1> QED
  BY <1>1, <1>3, <1>4, <1>5, <1>6, <1>7, <1>8, ProduceKeeps, TakeKeeps, FailureKeeps
     DEF Next, Serve, Listen

(* Whichever threads take from the queue, and however they come and go, no *)
(* message is sent to two clients and none out of order; and as long as    *)
(* msgrcv does not fail, none twice.                                       *)
THEOREM SendsOnceInOrder == Spec => []OnceInOrder
<1>1. Init => OrderInv
  BY OrderInit
<1>2. TypeInv /\ OrderInv /\ [Next]_vars => OrderInv'
  BY OrderNext
<1>3. TypeInv /\ OrderInv => OnceInOrder
  <2> SUFFICES ASSUME TypeInv, OrderInv, NEW c \in Client, NEW d \in Client,
                      NEW i \in DOMAIN sent[c], NEW j \in DOMAIN sent[d]
               PROVE  /\ c # d => sent[c][i] # sent[d][j] \/ sent[c][i] = 0
                      /\ c = d /\ i < j => \/ sent[c][i] < sent[c][j]
                                           \/ sent[c][i] = sent[c][j] /\ errors > 0
    BY DEF OnceInOrder
  <2>1. sent[c] \in Seq(Nat) /\ sent[d] \in Seq(Nat) /\ errors \in Nat
    BY DEF TypeInv, TypeOK
  <2>2. i \in 1 .. Len(sent[c]) /\ j \in 1 .. Len(sent[d])
    BY <2>1, LenProperties
  <2>3. /\ sent[c][i] \in Mine(c) /\ sent[d][j] \in Mine(d)
        /\ sent[c][i] \in Nat /\ sent[d][j] \in Nat
    BY <2>1, <2>2, Members DEF Mine
  <2>4. c # d => sent[c][i] # sent[d][j] \/ sent[c][i] = 0
    BY <2>3 DEF OrderInv
  <2>5. ASSUME c = d, i < j
        PROVE  \/ sent[c][i] < sent[c][j]
               \/ sent[c][i] = sent[c][j] /\ errors > 0
    <3>1. sent[c][i] < sent[c][j] + Again
      BY <2>2, <2>5 DEF OrderInv, InOrder, Rising
    <3>2. CASE errors = 0
      BY <2>3, <2>5, <3>1, <3>2 DEF Again
    <3>3. CASE errors # 0
      BY <2>1, <2>3, <2>5, <3>1, <3>3 DEF Again
    <3> QED
      BY <3>2, <3>3
  <2> QED
    BY <2>4, <2>5
<1> QED
  BY <1>1, <1>2, <1>3, TypeInvariant, PTL DEF Spec
=============================================================================
