--------------------------- MODULE RecorderProofs ---------------------------
(* Proofs about the recorder, for any size of block and queue, any limits  *)
(* on files, and any number of frames, kills, reboots and failed writes.   *)
EXTENDS Recorder, SequenceTheorems, FiniteSetTheorems, TLAPS

(* Where the thread has no file.  A file that is written to is the newest. *)
Shape ==
  /\ ~held => cur = 0
  /\ pc \in {"start", "rotate", "name", "clean", "open", "stopped"} => ~held
  /\ cur \in {0, created}

TypeInv == TypeOK /\ Shape

-----------------------------------------------------------------------------
(* Sequences of numbers that rise, which is how the proofs say "in order,  *)
(* and none twice": what the operators on queues preserve.                 *)

Rising(s) == \A i, j \in 1 .. Len(s) : i < j => s[i] < s[j]

(* Every number of S is less than every number of T. *)
Below(S, T) == \A x \in S, y \in T : x < y

(* The members of a sequence are its values at its indices. *)
LEMMA Members ==
  ASSUME NEW s \in Seq(Nat)
  PROVE  /\ \A i \in 1 .. Len(s) : s[i] \in Range(s) /\ s[i] \in Nat
         /\ \A x \in Range(s) : \E i \in 1 .. Len(s) : x = s[i]
         /\ Range(s) \subseteq Nat
         /\ Len(s) \in Nat
<1>1. s \in [1 .. Len(s) -> Nat] /\ Len(s) \in Nat
  BY LenProperties
<1> QED
  BY <1>1 DEF Range

LEMMA EmptyRising ==
  /\ <<>> \in Seq(Nat) /\ Len(<<>>) = 0 /\ Range(<<>>) = {} /\ Rising(<<>>)
<1>1. <<>> \in Seq(Nat) /\ Len(<<>>) = 0
  OBVIOUS
<1>2. Range(<<>>) = {}
  <2> DEFINE e == <<>>
  <2>1. e \in Seq(Nat) /\ Len(e) = 0
    BY <1>1
  <2> HIDE DEF e
  <2>2. \A x \in Range(e) : \E i \in 1 .. Len(e) : x = e[i]
    BY <2>1, Members
  <2>3. 1 .. Len(e) = {}
    BY <2>1
  <2>4. Range(e) = {}
    BY <2>2, <2>3
  <2> QED
    BY <2>4 DEF e
<1> QED
  BY <1>1, <1>2 DEF Rising

(* What joins a queue at its end. *)
LEMMA AppendRising ==
  ASSUME NEW s \in Seq(Nat), NEW x \in Nat
  PROVE  /\ Append(s, x) \in Seq(Nat) /\ Len(Append(s, x)) = Len(s) + 1
         /\ Range(Append(s, x)) = Range(s) \cup {x}
         /\ Rising(s) /\ Below(Range(s), {x}) => Rising(Append(s, x))
<1> DEFINE t == Append(s, x)
<1>1. /\ t \in Seq(Nat) /\ Len(t) = Len(s) + 1 /\ Len(s) \in Nat
      /\ \A i \in 1 .. Len(s) : t[i] = s[i]
      /\ t[Len(s) + 1] = x
  BY AppendProperties, LenProperties
<1> HIDE DEF t
<1>2. \A i \in 1 .. Len(t) : i \in 1 .. Len(s) \/ i = Len(s) + 1
  BY <1>1
<1>3. Range(t) = Range(s) \cup {x}
  <2>1. ASSUME NEW y \in Range(t)
        PROVE  y \in Range(s) \cup {x}
    <3>1. PICK i \in 1 .. Len(t) : y = t[i]
      BY <1>1, Members
    <3>2. CASE i \in 1 .. Len(s)
      BY <1>1, <3>1, <3>2, Members
    <3>3. CASE i = Len(s) + 1
      BY <1>1, <3>1, <3>3
    <3> QED
      BY <1>2, <3>2, <3>3
  <2>2. \A y \in Range(s) : y \in Range(t)
    <3> SUFFICES ASSUME NEW i \in 1 .. Len(s)
                 PROVE  s[i] \in Range(t)
      BY Members
    <3>1. i \in 1 .. Len(t) /\ t[i] = s[i]
      BY <1>1
    <3> QED
      BY <1>1, <3>1, Members
  <2>3. x \in Range(t)
    <3>1. Len(s) + 1 \in 1 .. Len(t)
      BY <1>1
    <3> QED
      BY <1>1, <3>1, Members
  <2> QED
    BY <2>1, <2>2, <2>3
<1>4. ASSUME Rising(s), Below(Range(s), {x})
      PROVE  Rising(t)
  <2> SUFFICES ASSUME NEW i \in 1 .. Len(t), NEW j \in 1 .. Len(t), i < j
               PROVE  t[i] < t[j]
    BY DEF Rising
  <2>1. i \in 1 .. Len(s)
    BY <1>1
  <2>2. CASE j \in 1 .. Len(s)
    BY <1>1, <1>4, <2>1, <2>2 DEF Rising
  <2>3. CASE j = Len(s) + 1
    <3>1. s[i] < x
      BY <1>4, <2>1, Members DEF Below
    <3> QED
      BY <1>1, <2>1, <2>3, <3>1
  <2> QED
    BY <1>2, <2>2, <2>3
<1> QED
  BY <1>1, <1>3, <1>4 DEF t

(* What leaves a queue at its head. *)
LEMMA TailRising ==
  ASSUME NEW s \in Seq(Nat), s # <<>>
  PROVE  /\ Tail(s) \in Seq(Nat) /\ Len(Tail(s)) = Len(s) - 1 /\ Len(s) > 0
         /\ Head(s) \in Range(s) /\ Head(s) \in Nat /\ Range(Tail(s)) \subseteq Range(s)
         /\ Range(s) \subseteq {Head(s)} \cup Range(Tail(s))
         /\ Rising(s) => Rising(Tail(s)) /\ Below({Head(s)}, Range(Tail(s)))
<1> DEFINE t == Tail(s)
<1>1. /\ t \in Seq(Nat) /\ Len(t) = Len(s) - 1 /\ Len(s) \in Nat /\ Len(s) > 0
      /\ \A i \in 1 .. Len(t) : t[i] = s[i + 1]
  BY HeadTailProperties, LenProperties, EmptySeq
<1>2. Head(s) = s[1] /\ 1 \in 1 .. Len(s)
  BY <1>1
<1> HIDE DEF t
<1>3. \A i \in 1 .. Len(t) : i + 1 \in 1 .. Len(s) /\ t[i] = s[i + 1]
  BY <1>1
<1>4. Head(s) \in Range(s) /\ Head(s) \in Nat
  BY <1>2, Members
<1>5. ASSUME NEW x \in Range(t)
      PROVE  x \in Range(s)
  <2>1. PICK i \in 1 .. Len(t) : x = t[i]
    BY <1>1, Members
  <2> QED
    BY <1>3, <2>1, Members
<1>7. ASSUME NEW x \in Range(s)
      PROVE  x = Head(s) \/ x \in Range(t)
  <2>1. PICK i \in 1 .. Len(s) : x = s[i]
    BY Members
  <2>2. i = 1 \/ (i - 1 \in 1 .. Len(t) /\ (i - 1) + 1 = i)
    BY <1>1
  <2> QED
    BY <1>1, <1>2, <1>3, <2>1, <2>2, Members
<1>6. ASSUME Rising(s)
      PROVE  Rising(t) /\ Below({Head(s)}, Range(t))
  <2>1. Rising(t)
    <3> SUFFICES ASSUME NEW i \in 1 .. Len(t), NEW j \in 1 .. Len(t), i < j
                 PROVE  t[i] < t[j]
      BY DEF Rising
    <3>1. i + 1 < j + 1
      OBVIOUS
    <3> QED
      BY <1>3, <1>6, <3>1 DEF Rising
  <2>2. \A i \in 1 .. Len(t) : Head(s) < t[i]
    <3> SUFFICES ASSUME NEW i \in 1 .. Len(t)
                 PROVE  s[1] < t[i]
      BY <1>2
    <3>1. 1 < i + 1
      OBVIOUS
    <3> QED
      BY <1>2, <1>3, <1>6, <3>1 DEF Rising
  <2> QED
    BY <1>1, <2>1, <2>2, Members DEF Below
<1> QED
  BY <1>1, <1>4, <1>5, <1>6, <1>7 DEF t

(* The beginning of a sequence. *)
LEMMA PrefixRising ==
  ASSUME NEW s \in Seq(Nat), NEW n \in 0 .. Len(s)
  PROVE  /\ SubSeq(s, 1, n) \in Seq(Nat) /\ Len(SubSeq(s, 1, n)) = n
         /\ Range(SubSeq(s, 1, n)) \subseteq Range(s)
         /\ Rising(s) => Rising(SubSeq(s, 1, n))
<1> DEFINE t == SubSeq(s, 1, n)
<1>1. Len(s) \in Nat /\ n \in Int /\ \A i \in 1 .. n : s[i] \in Nat
  BY LenProperties
<1>2. /\ t \in Seq(Nat) /\ Len(t) = IF 1 <= n THEN n - 1 + 1 ELSE 0
      /\ \A i \in 1 .. n - 1 + 1 : t[i] = s[1 + i - 1]
  BY <1>1, SubSeqProperties
<1> HIDE DEF t
<1>3. Len(t) = n /\ \A i \in 1 .. Len(t) : t[i] = s[i] /\ i \in 1 .. Len(s)
  <2>1. Len(t) = n
    BY <1>1, <1>2
  <2>2. \A i \in 1 .. n : i \in 1 .. n - 1 + 1 /\ 1 + i - 1 = i /\ i \in 1 .. Len(s)
    BY <1>1
  <2> QED
    BY <1>2, <2>1, <2>2
<1>4. ASSUME NEW x \in Range(t)
      PROVE  x \in Range(s)
  <2>1. PICK i \in 1 .. Len(t) : x = t[i]
    BY <1>2, Members
  <2> QED
    BY <1>3, <2>1, Members
<1>5. Rising(s) => Rising(t)
  BY <1>3 DEF Rising
<1> QED
  BY <1>2, <1>3, <1>4, <1>5 DEF t

(* One sequence behind another. *)
LEMMA ConcatRising ==
  ASSUME NEW s \in Seq(Nat), NEW t \in Seq(Nat)
  PROVE  /\ s \o t \in Seq(Nat) /\ Len(s \o t) = Len(s) + Len(t)
         /\ Range(s \o t) = Range(s) \cup Range(t)
         /\ Rising(s) /\ Rising(t) /\ Below(Range(s), Range(t)) => Rising(s \o t)
<1> DEFINE u == s \o t
<1>1. /\ u \in Seq(Nat) /\ Len(u) = Len(s) + Len(t)
      /\ Len(s) \in Nat /\ Len(t) \in Nat
      /\ \A i \in 1 .. Len(s) + Len(t) :
           u[i] = IF i <= Len(s) THEN s[i] ELSE t[i - Len(s)]
  BY ConcatProperties, LenProperties
<1>2. Range(u) = Range(s) \cup Range(t)
  BY RangeConcatenation
<1> HIDE DEF u
<1>3. \A i \in 1 .. Len(u) : \/ i \in 1 .. Len(s) /\ u[i] = s[i]
                             \/ ~(i <= Len(s)) /\ i - Len(s) \in 1 .. Len(t)
                                /\ u[i] = t[i - Len(s)]
  BY <1>1
<1>4. ASSUME Rising(s), Rising(t), Below(Range(s), Range(t))
      PROVE  Rising(u)
  <2> SUFFICES ASSUME NEW i \in 1 .. Len(u), NEW j \in 1 .. Len(u), i < j
               PROVE  u[i] < u[j]
    BY DEF Rising
  <2>1. CASE i \in 1 .. Len(s) /\ j \in 1 .. Len(s)
    <3>1. u[i] = s[i] /\ u[j] = s[j]
      BY <1>1, <1>3, <2>1
    <3> QED
      BY <1>4, <2>1, <3>1 DEF Rising
  <2>2. CASE i \in 1 .. Len(s) /\ ~(j \in 1 .. Len(s))
    <3>1. s[i] \in Range(s) /\ t[j - Len(s)] \in Range(t)
      BY <1>3, <2>2, Members
    <3> QED
      BY <1>3, <1>4, <2>2, <3>1 DEF Below
  <2>3. CASE ~(i \in 1 .. Len(s))
    <3>1. i - Len(s) < j - Len(s) /\ ~(j \in 1 .. Len(s))
      BY <1>1, <2>3
    <3> QED
      BY <1>3, <1>4, <2>3, <3>1 DEF Rising
  <2> QED
    BY <2>1, <2>2, <2>3
<1> QED
  BY <1>1, <1>2, <1>4 DEF u

-----------------------------------------------------------------------------
(* Types. *)

FileRecord == [name : Nat, at : Nat, frames : Seq(Nat), ragged : BOOLEAN]

FlagsOK == card \in BOOLEAN /\ err \in BOOLEAN /\ held \in BOOLEAN
CountsOK ==
  /\ produced \in Nat
  /\ clock \in Nat /\ clockSet \in {"no", "forward", "back"}
  /\ kills \in Nat /\ reboots \in Nat /\ badOpens \in Nat /\ badWrites \in Nat
ThreadOK ==
  /\ pc \in {"start", "top", "rotate", "name", "clean", "open", "recv", "write",
             "stopped"}
  /\ last \in Nat /\ name \in Nat
PipeOK ==
  /\ queue \in Seq(Nat) /\ Len(queue) <= QueueCap
  /\ block \in Seq(Nat) /\ Len(block) <= Block /\ (pc = "write" <=> Len(block) = Block)
  /\ log \in Seq(Nat)
SetsOK == taken \subseteq 0 .. produced - 1 /\ removed \subseteq Nat
FilesOK ==
  /\ created \in Nat
  /\ DOMAIN files \subseteq 1 .. created
  /\ \A i \in DOMAIN files : files[i] \in FileRecord
  /\ cur \in {0} \cup DOMAIN files

LEMMA TypeParts ==
  /\ TypeOK <=> FlagsOK /\ CountsOK /\ ThreadOK /\ PipeOK /\ SetsOK /\ FilesOK
  /\ TypeOK' <=> FlagsOK' /\ CountsOK' /\ ThreadOK' /\ PipeOK' /\ SetsOK' /\ FilesOK'
<1>1. (\A n \in {kills, reboots, badOpens, badWrites} : n \in Nat)
        <=> kills \in Nat /\ reboots \in Nat /\ badOpens \in Nat /\ badWrites \in Nat
  OBVIOUS
<1>2. (\A n \in {kills, reboots, badOpens, badWrites} : n \in Nat)'
        <=> kills' \in Nat /\ reboots' \in Nat /\ badOpens' \in Nat /\ badWrites' \in Nat
  OBVIOUS
<1> QED
  BY <1>1, <1>2 DEF TypeOK, FlagsOK, CountsOK, ThreadOK, PipeOK, SetsOK, FilesOK, FileRecord

LEMMA TypeInit == Init => TypeInv
<1> SUFFICES ASSUME Init
             PROVE  TypeInv
  OBVIOUS
<1>1. CountsOK /\ ThreadOK /\ SetsOK
  BY DEF Init, CountsOK, ThreadOK, SetsOK
<1>5. FlagsOK
  BY DEF Init, FlagsOK
<1>2. PipeOK
  BY EmptyRising, RecorderAssumption DEF Init, PipeOK
<1>3. DOMAIN files = {}
  BY EmptyRising, LenProperties DEF Init
<1>4. FilesOK /\ Shape
  BY <1>3 DEF Init, FilesOK, Shape
<1> QED
  BY <1>1, <1>2, <1>4, <1>5, TypeParts DEF TypeInv

LEMMA FlagsNext == FlagsOK /\ [Next]_vars => FlagsOK'
<1> SUFFICES ASSUME FlagsOK, [Next]_vars
             PROVE  FlagsOK'
  OBVIOUS
<1> USE DEF FlagsOK, thread, disk, failures
<1>1. CASE Produce \/ Tick \/ SetClock
  BY <1>1 DEF Produce, Tick, SetClock
<1>2. CASE StartSave \/ Top \/ Rotate \/ NameFile \/ DeleteFile
  BY <1>2 DEF StartSave, Top, Rotate, NameFile, DeleteFile, CleanUp
<1>3. CASE Open \/ OpenFails \/ Receive
  BY <1>3 DEF Open, OpenFails, Receive
<1>4. CASE Write \/ WriteShort \/ WriteAstray \/ WriteNowhere
  BY <1>4 DEF Write, WriteShort, WriteAstray, WriteNowhere
<1>5. CASE Kill \/ Reboot
  BY <1>5 DEF Kill, Reboot, Restart
<1>6. CASE UNCHANGED vars
  BY <1>6 DEF vars
<1> QED
  BY <1>1, <1>2, <1>3, <1>4, <1>5, <1>6 DEF Next, Save

LEMMA CountsNext == CountsOK /\ [Next]_vars => CountsOK'
<1> SUFFICES ASSUME CountsOK, [Next]_vars
             PROVE  CountsOK'
  OBVIOUS
<1> USE DEF CountsOK, thread, disk, failures
<1>1. CASE Produce
  BY <1>1 DEF Produce
<1>2. CASE Tick \/ SetClock
  BY <1>2, RecorderAssumption DEF Tick, SetClock
<1>3. CASE Save
  <2>1. CASE StartSave \/ Top \/ Rotate \/ NameFile \/ DeleteFile
    BY <2>1 DEF StartSave, Top, Rotate, NameFile, DeleteFile, CleanUp
  <2>2. CASE Open \/ OpenFails \/ Receive
    BY <2>2 DEF Open, OpenFails, Receive
  <2>3. CASE Write
    BY <2>3 DEF Write, AppendToFile
  <2>4. CASE WriteShort \/ WriteAstray \/ WriteNowhere
    <3>1. badWrites' = badWrites + 1 /\ UNCHANGED <<kills, reboots, badOpens>>
      BY <2>4 DEF WriteShort, WriteAstray, WriteNowhere
    <3>2. UNCHANGED <<produced, last, name, created, clock, clockSet>>
      BY <2>4 DEF WriteShort, WriteAstray, WriteNowhere
    <3> QED
      BY <3>1, <3>2
  <2> QED
    BY <1>3, <2>1, <2>2, <2>3, <2>4 DEF Save
<1>4. CASE Kill
  BY <1>4 DEF Kill, Restart
<1>5. CASE Reboot
  BY <1>5 DEF Reboot, Restart
<1>6. CASE UNCHANGED vars
  BY <1>6 DEF vars
<1> QED
  BY <1>1, <1>2, <1>3, <1>4, <1>5, <1>6 DEF Next

LEMMA ThreadNext == CountsOK /\ ThreadOK /\ [Next]_vars => ThreadOK'
<1> SUFFICES ASSUME CountsOK, ThreadOK, [Next]_vars
             PROVE  ThreadOK'
  OBVIOUS
<1> USE DEF CountsOK, ThreadOK, thread, disk, failures
<1>1. CASE Produce \/ Tick \/ SetClock
  BY <1>1 DEF Produce, Tick, SetClock
<1>2. CASE StartSave \/ Top \/ Rotate \/ NameFile \/ DeleteFile
  BY <1>2 DEF StartSave, Top, Rotate, NameFile, DeleteFile, CleanUp
<1>3. CASE Open
  BY <1>3 DEF Open
<1>4. CASE OpenFails \/ Receive
  BY <1>4 DEF OpenFails, Receive
<1>5. CASE Write \/ WriteShort \/ WriteAstray \/ WriteNowhere
  BY <1>5 DEF Write, WriteShort, AppendToFile, WriteAstray, WriteNowhere
<1>6. CASE Kill
  BY <1>6 DEF Kill, Restart
<1>7. CASE Reboot
  BY <1>7 DEF Reboot, Restart
<1>8. CASE UNCHANGED vars
  BY <1>8 DEF vars
<1> QED
  BY <1>1, <1>2, <1>3, <1>4, <1>5, <1>6, <1>7, <1>8 DEF Next, Save

(* What a block of n frames that are written leaves. *)
LEMMA WritePrefix ==
  ASSUME PipeOK, pc = "write", NEW n \in 0 .. Block
  PROVE  /\ SubSeq(block, 1, n) \in Seq(Nat) /\ Len(SubSeq(block, 1, n)) = n
         /\ Len(block) = Block
         /\ log \o SubSeq(block, 1, n) \in Seq(Nat)
         /\ Len(log \o SubSeq(block, 1, n)) = Len(log) + n
         /\ Range(SubSeq(block, 1, n)) \subseteq Range(block)
         /\ Rising(block) => Rising(SubSeq(block, 1, n))
<1>1. block \in Seq(Nat) /\ log \in Seq(Nat) /\ Len(block) = Block /\ n \in 0 .. Len(block)
  BY DEF PipeOK
<1>2. /\ SubSeq(block, 1, n) \in Seq(Nat) /\ Len(SubSeq(block, 1, n)) = n
      /\ Range(SubSeq(block, 1, n)) \subseteq Range(block)
      /\ Rising(block) => Rising(SubSeq(block, 1, n))
  BY <1>1, PrefixRising
<1> QED
  BY <1>1, <1>2, ConcatRising

(* A block is written, n frames of it to their place. *)
Appends(n) == \E r \in BOOLEAN : AppendToFile(n, r)

(* The steps, as far as the frames under way and those recorded go: one    *)
(* comes in, goes on to the thread, a block goes out to the current file,  *)
(* astray or nowhere, and what is under way is lost.                       *)
ComesIn ==
  /\ queue' = Append(queue, produced) /\ produced' = produced + 1
  /\ Len(queue) < QueueCap /\ taken' = taken \cup {produced}
  /\ UNCHANGED <<block, log, pc, files, created, cur, kills, reboots, badWrites, removed>>
GoesOn ==
  /\ queue # <<>> /\ queue' = Tail(queue) /\ block' = Append(block, Head(queue))
  /\ pc = "recv" /\ pc' = (IF Len(block') = Block THEN "write" ELSE "recv")
  /\ UNCHANGED <<produced, taken, log, files, created, cur, kills, reboots, badWrites,
                 removed>>
GoesOut(n) ==
  /\ pc = "write" /\ pc' # "write" /\ cur # 0 /\ block' = <<>>
  /\ Appends(n) /\ log' = log \o SubSeq(block, 1, n)
  /\ \/ n = Block /\ badWrites' = badWrites
     \/ badWrites' = badWrites + 1
  /\ UNCHANGED <<produced, taken, queue, created, cur, kills, reboots, removed>>
GoesAstray ==
  /\ pc = "write" /\ pc' # "write" /\ cur # 0 /\ block' = <<>>
  /\ badWrites' = badWrites + 1 /\ files' = [files EXCEPT ![cur].at = clock]
  /\ UNCHANGED <<produced, taken, queue, log, created, cur, kills, reboots, removed>>
GoesNowhere ==
  /\ pc = "write" /\ pc' # "write" /\ block' = <<>> /\ badWrites' = badWrites + 1
  /\ UNCHANGED <<produced, taken, queue, log, files, created, cur, kills, reboots, removed>>
GoesDown ==
  /\ Kill /\ kills' = kills + 1 /\ block' = <<>> /\ pc' # "write" /\ cur' = 0
  /\ UNCHANGED <<produced, taken, queue, log, files, created, badWrites, reboots, removed>>
AllGoesDown ==
  /\ Reboot /\ reboots' = reboots + 1 /\ block' = <<>> /\ queue' = <<>> /\ pc' # "write"
  /\ cur' = 0 /\ removed' = removed \cup (OnCard \ OnCard')
  /\ UNCHANGED <<produced, taken, log, created, badWrites, kills>>
(* The frames stay; so do the files, but for those that Open and           *)
(* DeleteFile add and remove.                                              *)
Stays ==
  /\ UNCHANGED <<taken, queue, block, log, kills, reboots, badWrites>>
  /\ produced' \in {produced, produced + 1}
  /\ pc' = "write" <=> pc = "write"
  /\ \/ UNCHANGED <<files, created, removed>> /\ cur' \in {cur, 0}
     \/ /\ Open \/ DeleteFile
        /\ UNCHANGED produced /\ removed' = removed \cup (OnCard \ OnCard')

Flow ==
  \/ ComesIn \/ GoesOn \/ GoesAstray \/ GoesNowhere \/ GoesDown \/ AllGoesDown
  \/ Stays
  \/ \E n \in 0 .. Block : GoesOut(n)

LEMMA FlowNext == TypeInv /\ [Next]_vars => Flow
<1> SUFFICES ASSUME TypeInv, [Next]_vars
             PROVE  Flow
  OBVIOUS
<1> USE DEF Flow, ComesIn, GoesOn, GoesOut, GoesAstray, GoesNowhere, GoesDown, AllGoesDown,
            Stays
<1> USE DEF thread, disk, failures
<1>0. Len(queue) \in Nat /\ Len(queue) <= QueueCap /\ Block \in Nat /\ QueueCap \in Nat
  BY LenProperties, RecorderAssumption DEF TypeInv, TypeOK
<1>1. CASE Produce
  BY <1>0, <1>1 DEF Produce
<1>2. CASE Tick \/ SetClock
  BY <1>2 DEF Tick, SetClock
<1>3. CASE StartSave \/ Top \/ Rotate \/ NameFile
  BY <1>3 DEF StartSave, Top, Rotate, NameFile
<1>4. CASE DeleteFile
  BY <1>4 DEF DeleteFile, CleanUp
<1>12. CASE Open
  BY <1>12 DEF Open
<1>13. CASE OpenFails
  BY <1>13 DEF OpenFails
<1>5. CASE Receive
  BY <1>5 DEF Receive
<1>6. CASE Write
  <2>1. Block \in 0 .. Block
    BY <1>0
  <2> QED
    BY <1>6, <2>1 DEF Write, Appends, AppendToFile
<1>7. CASE WriteShort
  <2>1. PICK n \in 0 .. Block - 1, r \in BOOLEAN : AppendToFile(n, r)
    BY <1>7 DEF WriteShort
  <2>2. n \in 0 .. Block
    BY <1>0
  <2> QED
    BY <1>7, <2>1, <2>2 DEF WriteShort, Appends, AppendToFile
<1>14. CASE WriteAstray
  BY <1>14 DEF WriteAstray
<1>8. CASE WriteNowhere
  BY <1>8 DEF WriteNowhere
<1>9. CASE Kill
  BY <1>9 DEF Kill, Restart
<1>10. CASE Reboot
  BY <1>10 DEF Reboot, Restart
<1>11. CASE UNCHANGED vars
  BY <1>11 DEF vars
<1> QED
  BY <1>1, <1>2, <1>3, <1>4, <1>5, <1>6, <1>7, <1>8, <1>9, <1>10, <1>11, <1>12, <1>13,
     <1>14 DEF Next, Save

LEMMA PipeNext == TypeInv /\ [Next]_vars => PipeOK'
<1> SUFFICES ASSUME TypeInv, Flow
             PROVE  PipeOK'
  BY FlowNext
<1>1. /\ queue \in Seq(Nat) /\ Len(queue) <= QueueCap /\ Len(queue) \in Nat
      /\ block \in Seq(Nat) /\ Len(block) <= Block /\ Len(block) \in Nat
      /\ (pc = "write" <=> Len(block) = Block) /\ log \in Seq(Nat) /\ produced \in Nat
  BY LenProperties DEF TypeInv, TypeOK
<1>2. <<>> \in Seq(Nat) /\ Len(<<>>) = 0 /\ Block # 0 /\ 0 <= Block /\ 0 <= QueueCap
  BY EmptyRising, RecorderAssumption
<1>3. Append(queue, produced) \in Seq(Nat) /\ Len(Append(queue, produced)) = Len(queue) + 1
  BY <1>1, AppendRising
<1>4. ASSUME queue # <<>>, pc = "recv"
      PROVE  /\ Tail(queue) \in Seq(Nat) /\ Len(Tail(queue)) <= QueueCap
             /\ Append(block, Head(queue)) \in Seq(Nat)
             /\ Len(Append(block, Head(queue))) <= Block
  <2>1. /\ Tail(queue) \in Seq(Nat) /\ Len(Tail(queue)) = Len(queue) - 1
        /\ Head(queue) \in Nat
    BY <1>1, <1>4, TailRising
  <2>2. /\ Append(block, Head(queue)) \in Seq(Nat)
        /\ Len(Append(block, Head(queue))) = Len(block) + 1
    BY <1>1, <2>1, AppendRising
  <2> QED
    BY <1>1, <1>4, <2>1, <2>2, RecorderAssumption
<1>5. ASSUME NEW n \in 0 .. Block, pc = "write", log' = log \o SubSeq(block, 1, n)
      PROVE  log' \in Seq(Nat)
  BY <1>1, <1>5, WritePrefix DEF PipeOK
<1>6. CASE ComesIn
  BY <1>1, <1>3, <1>6, RecorderAssumption DEF PipeOK, ComesIn
<1>7. CASE GoesOn
  BY <1>1, <1>4, <1>7 DEF PipeOK, GoesOn
<1>8. ASSUME block' = <<>>, pc' # "write", queue' \in {queue, <<>>}, log' \in Seq(Nat)
      PROVE  PipeOK'
  BY <1>1, <1>2, <1>8 DEF PipeOK
<1>9. CASE GoesAstray \/ GoesNowhere \/ GoesDown \/ AllGoesDown
  BY <1>1, <1>8, <1>9 DEF GoesAstray, GoesNowhere, GoesDown, AllGoesDown
<1>10. ASSUME NEW n \in 0 .. Block, GoesOut(n)
       PROVE  PipeOK'
  BY <1>5, <1>8, <1>10 DEF GoesOut
<1>11. CASE Stays
  BY <1>1, <1>11 DEF PipeOK, Stays
<1> QED
  BY <1>6, <1>7, <1>9, <1>10, <1>11 DEF Flow

(* A block of n frames is put at the end of the current file. *)
LEMMA WrittenFiles ==
  ASSUME TypeInv, pc = "write", cur # 0, NEW n \in 0 .. Block, Appends(n)
  PROVE  /\ DOMAIN files' = DOMAIN files /\ cur \in DOMAIN files /\ cur = created
         /\ \A i \in DOMAIN files : i # cur => files'[i] = files[i]
         /\ files'[cur] \in FileRecord
         /\ files'[cur].name = files[cur].name /\ files'[cur].at = clock
         /\ files'[cur].frames = files[cur].frames \o SubSeq(block, 1, n)
<1> DEFINE longer == files[cur].frames \o SubSeq(block, 1, n)
<1>1. /\ cur \in DOMAIN files /\ cur = created /\ files[cur] \in FileRecord /\ PipeOK
      /\ clock \in Nat
  BY TypeParts DEF TypeInv, Shape, FilesOK, CountsOK
<1>2. PICK r \in BOOLEAN : AppendToFile(n, r)
  BY DEF Appends
<1>3. files' = [files EXCEPT ![cur] = [name |-> files[cur].name, at |-> clock,
                                       frames |-> longer, ragged |-> r]]
  BY <1>2 DEF AppendToFile
<1>4. files[cur].frames \in Seq(Nat) /\ SubSeq(block, 1, n) \in Seq(Nat)
  BY <1>1, WritePrefix DEF FileRecord
<1>5. longer \in Seq(Nat) /\ files[cur].name \in Nat
  BY <1>1, <1>4, ConcatRising DEF FileRecord
<1> HIDE DEF longer
<1>6. files'[cur] = [name |-> files[cur].name, at |-> clock, frames |-> longer, ragged |-> r]
  BY <1>1, <1>3
<1>7. /\ files'[cur] \in FileRecord /\ files'[cur].name = files[cur].name
      /\ files'[cur].at = clock /\ files'[cur].frames = longer
  BY <1>1, <1>5, <1>6 DEF FileRecord
<1> QED
  BY <1>1, <1>3, <1>7 DEF longer

(* A block that goes astray changes no more than the time of the file. *)
LEMMA StampedFiles ==
  ASSUME TypeInv, GoesAstray
  PROVE  /\ DOMAIN files' = DOMAIN files /\ cur \in DOMAIN files /\ cur = created
         /\ \A i \in DOMAIN files :
              /\ i # cur => files'[i] = files[i]
              /\ files'[i].name = files[i].name /\ files'[i].frames = files[i].frames
              /\ files'[i] \in FileRecord
         /\ files'[cur].at = clock
<1>1. /\ cur \in DOMAIN files /\ cur = created /\ clock \in Nat
      /\ \A i \in DOMAIN files : files[i] \in FileRecord
  BY TypeParts DEF TypeInv, Shape, FilesOK, CountsOK, GoesAstray
<1>2. files' = [files EXCEPT ![cur].at = clock]
  BY DEF GoesAstray
<1>3. /\ DOMAIN files' = DOMAIN files
      /\ \A i \in DOMAIN files : i # cur => files'[i] = files[i]
      /\ files'[cur] = [files[cur] EXCEPT !.at = clock]
  BY <1>1, <1>2
<1>4. /\ files'[cur].name = files[cur].name /\ files'[cur].frames = files[cur].frames
      /\ files'[cur].at = clock /\ files'[cur] \in FileRecord
  BY <1>1, <1>3 DEF FileRecord
<1> QED
  BY <1>1, <1>3, <1>4

(* The machine may go down with the end of any file. *)
LEMMA CutFiles ==
  ASSUME TypeInv, Reboot
  PROVE  /\ DOMAIN files' = DOMAIN files
         /\ \A i \in DOMAIN files :
              /\ files'[i].name = files[i].name /\ files'[i].at = files[i].at
              /\ files'[i] \in FileRecord
              /\ Range(files'[i].frames) \subseteq Range(files[i].frames)
              /\ Rising(files[i].frames) => Rising(files'[i].frames)
<1>1. PICK kept \in [DOMAIN files -> 0 .. produced] :
        /\ \A i \in DOMAIN files : kept[i] <= Len(files[i].frames)
        /\ files' = [i \in DOMAIN files |->
                       [files[i] EXCEPT !.frames = SubSeq(files[i].frames, 1, kept[i])]]
  BY DEF Reboot
<1>2. DOMAIN files' = DOMAIN files
  BY <1>1
<1>3. ASSUME NEW i \in DOMAIN files
      PROVE  /\ files'[i].name = files[i].name /\ files'[i].at = files[i].at
             /\ files'[i] \in FileRecord
             /\ Range(files'[i].frames) \subseteq Range(files[i].frames)
             /\ Rising(files[i].frames) => Rising(files'[i].frames)
  <2> DEFINE cut == SubSeq(files[i].frames, 1, kept[i])
  <2>1. files[i] \in FileRecord /\ produced \in Nat
    BY TypeParts DEF TypeInv, FilesOK, CountsOK
  <2>2. files[i].frames \in Seq(Nat) /\ Len(files[i].frames) \in Nat
    BY <2>1, LenProperties DEF FileRecord
  <2>3. kept[i] \in 0 .. Len(files[i].frames)
    BY <1>1, <2>1, <2>2
  <2>4. /\ cut \in Seq(Nat) /\ Range(cut) \subseteq Range(files[i].frames)
        /\ Rising(files[i].frames) => Rising(cut)
    BY <2>2, <2>3, PrefixRising
  <2>5. files'[i] = [files[i] EXCEPT !.frames = cut]
    BY <1>1
  <2> HIDE DEF cut
  <2>6. /\ files'[i].name = files[i].name /\ files'[i].at = files[i].at
        /\ files'[i].frames = cut /\ files'[i] \in FileRecord
    BY <2>1, <2>4, <2>5 DEF FileRecord
  <2> QED
    BY <2>4, <2>6
<1> QED
  BY <1>2, <1>3

(* A new file is added behind all others; one of the same name may go. *)
LEMMA OpenedFiles ==
  ASSUME TypeInv, Open
  PROVE  /\ created' = created + 1 /\ created' \notin DOMAIN files
         /\ DOMAIN files' = {j \in DOMAIN files : files[j].name # name} \cup {created'}
         /\ \A i \in DOMAIN files' : i # created' => i \in DOMAIN files /\ files'[i] = files[i]
         /\ files'[created'] = [name |-> name, at |-> clock, frames |-> <<>>, ragged |-> FALSE]
         /\ cur' = created'
<1>1. created \in Nat /\ DOMAIN files \subseteq 1 .. created /\ created' = created + 1
  BY TypeParts DEF TypeInv, FilesOK, Open
<1>2. created' \notin DOMAIN files
  BY <1>1
<1> QED
  BY <1>1, <1>2 DEF Open

(* What is kept of the files is as it was. *)
LEMMA KeptFiles ==
  ASSUME TypeInv, DeleteFile
  PROVE  /\ DOMAIN files' \subseteq DOMAIN files
         /\ \A i \in DOMAIN files' : files'[i] = files[i]
         /\ cur = 0 /\ cur' = cur /\ created' = created
<1>1. cur = 0
  BY DEF DeleteFile, CleanUp, TypeInv, Shape
<1>2. PICK S \in SUBSET DOMAIN files : files' = Keep(DOMAIN files \ S)
  BY DEF DeleteFile, CleanUp
<1> QED
  BY <1>1, <1>2 DEF DeleteFile, CleanUp, Keep

LEMMA FilesNext == TypeInv /\ [Next]_vars => FilesOK' /\ Shape'
<1> SUFFICES ASSUME TypeInv, [Next]_vars
             PROVE  FilesOK' /\ Shape'
  OBVIOUS
<1> USE DEF thread, disk, failures
<1>1. FilesOK /\ Shape /\ ThreadOK /\ FlagsOK /\ CountsOK
  BY TypeParts DEF TypeInv
<1>2. ASSUME UNCHANGED <<files, created, cur, pc, held>>
      PROVE  FilesOK' /\ Shape'
  BY <1>1, <1>2 DEF FilesOK, Shape
<1>3. CASE Produce \/ Tick \/ SetClock \/ UNCHANGED vars
  BY <1>2, <1>3 DEF Produce, Tick, SetClock, vars
<1>4. ASSUME UNCHANGED <<files, created>>, cur' \in {cur, 0},
             held' => held, ~held' => cur' = 0,
             pc' \in {"start", "rotate", "name", "clean", "open", "stopped"} => ~held'
      PROVE  FilesOK' /\ Shape'
  BY <1>1, <1>4 DEF FilesOK, Shape
<1>5. CASE StartSave \/ Rotate \/ NameFile
  BY <1>1, <1>4, <1>5 DEF StartSave, Rotate, NameFile, Shape
<1>6. CASE Top
  BY <1>1, <1>4, <1>6 DEF Top, Shape, FlagsOK
<1>7. CASE Receive \/ WriteNowhere
  BY <1>1, <1>4, <1>7 DEF Receive, WriteNowhere, Shape
<1>8. CASE DeleteFile
  <2>1. held' = held /\ pc' = "open" /\ pc = "clean"
    BY <1>8 DEF DeleteFile, CleanUp
  <2> QED
    BY <1>1, <1>8, <2>1, KeptFiles DEF FilesOK, Shape
<1>9. CASE Open
  <2>1. [name |-> name, at |-> clock, frames |-> <<>>, ragged |-> FALSE] \in FileRecord
    BY <1>1, EmptyRising DEF FileRecord, ThreadOK, CountsOK
  <2>2. held' = TRUE /\ pc' = "recv"
    BY <1>9 DEF Open
  <2>3. \A i \in DOMAIN files' : files'[i] \in FileRecord
    BY <1>1, <1>9, <2>1, OpenedFiles DEF FilesOK
  <2>4. DOMAIN files' \subseteq 1 .. created' /\ created' \in Nat
    BY <1>1, <1>9, OpenedFiles DEF FilesOK
  <2> QED
    BY <1>9, <2>2, <2>3, <2>4, OpenedFiles DEF FilesOK, Shape
<1>10. CASE OpenFails
  BY <1>1, <1>10 DEF OpenFails, FilesOK, Shape
<1>11. ASSUME NEW n \in 0 .. Block, Appends(n), pc = "write", cur # 0,
              UNCHANGED <<created, cur, held>>
       PROVE  FilesOK' /\ Shape'
  <2>1. pc' = "top"
    BY <1>11 DEF Appends, AppendToFile
  <2> QED
    BY <1>1, <1>11, <2>1, WrittenFiles DEF FilesOK, Shape
<1>12. CASE Write
  <2>1. PICK r \in BOOLEAN : r = FALSE
    OBVIOUS
  <2>2. AppendToFile(Block, r)
    BY <1>12, <2>1 DEF Write, AppendToFile
  <2>3. Appends(Block) /\ Block \in 0 .. Block
    BY <2>2, RecorderAssumption DEF Appends
  <2> QED
    BY <1>11, <1>12, <2>3 DEF Write
<1>13. CASE WriteShort
  <2>1. PICK n \in 0 .. Block - 1, r \in BOOLEAN : AppendToFile(n, r)
    BY <1>13 DEF WriteShort
  <2>2. n \in 0 .. Block /\ Appends(n)
    BY <2>1, RecorderAssumption DEF Appends
  <2> QED
    BY <1>11, <1>13, <2>2 DEF WriteShort
<1>16. CASE WriteAstray
  <2>1. GoesAstray
    BY <1>16 DEF WriteAstray, GoesAstray
  <2>2. UNCHANGED <<created, cur, held>> /\ pc' = "top" /\ pc = "write"
    BY <1>16 DEF WriteAstray
  <2> QED
    BY <1>1, <2>1, <2>2, StampedFiles DEF FilesOK, Shape
<1>14. CASE Kill
  BY <1>1, <1>14 DEF Kill, Restart, FilesOK, Shape
<1>15. CASE Reboot
  <2>1. held' = FALSE /\ cur' = 0 /\ created' = created /\ pc' = "start"
    BY <1>15 DEF Reboot, Restart
  <2> QED
    BY <1>1, <1>15, <2>1, CutFiles DEF FilesOK, Shape
<1> QED
  BY <1>3, <1>5, <1>6, <1>7, <1>8, <1>9, <1>10, <1>12, <1>13, <1>14, <1>15,
     <1>16 DEF Next, Save

LEMMA SetsNext == TypeInv /\ [Next]_vars => SetsOK'
<1> SUFFICES ASSUME TypeInv, Flow
             PROVE  SetsOK'
  BY FlowNext
<1>1. SetsOK /\ produced \in Nat
  BY TypeParts DEF TypeInv, CountsOK
<1>2. OnCard \subseteq Nat
  <2>1. \A i \in DOMAIN files : Range(files[i].frames) \subseteq Nat
    BY Members, TypeParts DEF TypeInv, FilesOK, FileRecord
  <2> QED
    BY <2>1 DEF OnCard
<1>3. ASSUME NEW S, removed' = removed \cup (OnCard \ S)
      PROVE  removed' \subseteq Nat
  BY <1>1, <1>2, <1>3 DEF SetsOK
<1>4. /\ taken' = taken \/ (taken' = taken \cup {produced} /\ produced' = produced + 1)
      /\ produced' \in {produced, produced + 1}
  BY <1>1 DEF Flow, ComesIn, GoesOn, GoesOut, GoesAstray, GoesNowhere, GoesDown, AllGoesDown,
              Stays
<1>5. removed' = removed \/ removed' = removed \cup (OnCard \ OnCard')
  BY DEF Flow, ComesIn, GoesOn, GoesOut, GoesAstray, GoesNowhere, GoesDown, AllGoesDown, Stays
<1>6. taken' \subseteq 0 .. produced' - 1
  <2> SUFFICES ASSUME NEW x \in taken'
               PROVE  x \in 0 .. produced' - 1
    OBVIOUS
  <2>1. CASE x \in taken
    <3>1. x \in 0 .. produced - 1
      BY <1>1, <2>1 DEF SetsOK
    <3>2. produced' \in Nat /\ produced <= produced'
      BY <1>1, <1>4
    <3>3. \A p, q \in Nat : p <= q => 0 .. p - 1 \subseteq 0 .. q - 1
      OBVIOUS
    <3> QED
      BY <1>1, <3>1, <3>2, <3>3
  <2>2. CASE x = produced /\ produced' = produced + 1
    BY <1>1, <2>2
  <2> QED
    BY <1>4, <2>1, <2>2
<1> QED
  BY <1>1, <1>3, <1>5, <1>6 DEF SetsOK

LEMMA TypeInvariant == Spec => []TypeInv
<1>1. Init => TypeInv
  BY TypeInit
<1>2. TypeInv /\ [Next]_vars => TypeInv'
  BY TypeParts, FlagsNext, CountsNext, ThreadNext, PipeNext, SetsNext, FilesNext DEF TypeInv
<1> QED
  BY <1>1, <1>2, PTL DEF Spec

(* The types of the recorder's state; a block and the queue never exceed   *)
(* their sizes, and a file that is written to is on the card.              *)
THEOREM TypeCorrect == Spec => []TypeOK
<1>1. TypeInv => TypeOK
  BY DEF TypeInv
<1> QED
  BY <1>1, TypeInvariant, PTL

-----------------------------------------------------------------------------
(* What is lost. *)

(* A sequence has no more members than it is long. *)
LEMMA MembersFinite ==
  ASSUME NEW s \in Seq(Nat)
  PROVE  IsFiniteSet(Range(s)) /\ Cardinality(Range(s)) <= Len(s)
<1>1. Len(s) \in Nat /\ s \in [1 .. Len(s) -> Range(s)]
      /\ \A x \in Range(s) : \E i \in 1 .. Len(s) : s[i] = x
  BY LenProperties, Members
<1>2. s \in Surjection(1 .. Len(s), Range(s))
  BY <1>1 DEF Surjection
<1>3. IsFiniteSet(1 .. Len(s)) /\ Cardinality(1 .. Len(s)) = Len(s)
  BY <1>1, FS_Interval
<1> QED
  BY <1>2, <1>3, FS_Surjection

(* The frames that the queue has taken and that are nowhere to be found. *)
Missing == taken \ (OnCard \cup removed \cup Range(block) \cup Range(queue))

(* As many as may be. *)
Allowed == Block * (kills + badWrites) + (Block + QueueCap) * reboots

LEMMA MissingFinite ==
  ASSUME SetsOK, produced \in Nat
  PROVE  IsFiniteSet(Missing) /\ Cardinality(Missing) \in Nat
<1>1. IsFiniteSet(0 .. produced - 1)
  BY FS_Interval
<1>2. Missing \subseteq 0 .. produced - 1
  BY DEF SetsOK, Missing
<1> QED
  BY <1>1, <1>2, FS_Subset, FS_CardinalityType

(* A block that is written puts its first n frames on the card; nothing    *)
(* else on it changes.                                                     *)
LEMMA WrittenCard ==
  ASSUME TypeInv, NEW n \in 0 .. Block, GoesOut(n)
  PROVE  OnCard \cup Range(SubSeq(block, 1, n)) \subseteq OnCard'
<1> DEFINE b == SubSeq(block, 1, n)
<1>1. /\ DOMAIN files' = DOMAIN files /\ cur \in DOMAIN files
      /\ \A i \in DOMAIN files : i # cur => files'[i] = files[i]
      /\ files'[cur].frames = files[cur].frames \o b
  BY WrittenFiles DEF GoesOut
<1>2. files[cur].frames \in Seq(Nat) /\ b \in Seq(Nat)
  BY <1>1, WritePrefix, TypeParts DEF GoesOut, TypeInv, FilesOK, FileRecord
<1> HIDE DEF b
<1>3. Range(files'[cur].frames) = Range(files[cur].frames) \cup Range(b)
  BY <1>1, <1>2, ConcatRising
<1>4. \A i \in DOMAIN files : Range(files[i].frames) \subseteq Range(files'[i].frames)
  BY <1>1, <1>3
<1>5. \A i \in DOMAIN files' : Range(files'[i].frames) \subseteq OnCard'
  BY DEF OnCard
<1>6. OnCard \subseteq OnCard'
  <2> SUFFICES ASSUME NEW x \in OnCard
               PROVE  x \in OnCard'
    OBVIOUS
  <2>1. PICK i \in DOMAIN files : x \in Range(files[i].frames)
    BY DEF OnCard
  <2> QED
    BY <1>1, <1>4, <1>5, <2>1
<1> QED
  BY <1>1, <1>3, <1>5, <1>6 DEF b

(* A step loses nothing, or no more than the block, and counts it, or the  *)
(* block and the queue, and counts them.                                   *)
LEMMA MissingNext ==
  ASSUME TypeInv, Flow
  PROVE  \/ Missing' \subseteq Missing /\ Allowed' = Allowed
         \/ Missing' \subseteq Missing \cup Range(block) /\ Allowed' = Allowed + Block
         \/ /\ Missing' \subseteq Missing \cup Range(block) \cup Range(queue)
            /\ Allowed' = Allowed + (Block + QueueCap)
<1>1. /\ queue \in Seq(Nat) /\ block \in Seq(Nat) /\ PipeOK
      /\ produced \in Nat /\ kills \in Nat /\ badWrites \in Nat /\ reboots \in Nat
  BY TypeParts DEF TypeInv, PipeOK, CountsOK
<1>2. Block \in Nat /\ QueueCap \in Nat
  BY RecorderAssumption
<1>3. /\ Allowed \in Nat
      /\ \A k \in Nat : /\ Block * k \in Nat /\ (Block + QueueCap) * k \in Nat
                        /\ Block * (k + 1) = Block * k + Block
                        /\ (Block + QueueCap) * (k + 1)
                             = (Block + QueueCap) * k + (Block + QueueCap)
  BY <1>1, <1>2 DEF Allowed
<1>4. ASSUME UNCHANGED <<kills, badWrites, reboots>>
      PROVE  Allowed' = Allowed
  BY <1>4 DEF Allowed
<1>5. ASSUME kills' + badWrites' = (kills + badWrites) + 1, UNCHANGED reboots
      PROVE  Allowed' = Allowed + Block
  <2>1. kills + badWrites \in Nat
    BY <1>1
  <2>2. Block * (kills' + badWrites') = Block * (kills + badWrites) + Block
    BY <1>3, <1>5, <2>1
  <2>3. \A x, y, z \in Nat : (x + y) + z = (x + z) + y
    OBVIOUS
  <2> QED
    BY <1>1, <1>2, <1>3, <1>5, <2>1, <2>2, <2>3 DEF Allowed
<1>6. Range(<<>>) = {}
  BY EmptyRising
<1>7. files' = files => OnCard' = OnCard
  BY DEF OnCard
<1>8. CASE ComesIn
  <2>1. Range(queue') = Range(queue) \cup {produced}
    BY <1>1, <1>8, AppendRising DEF ComesIn
  <2> QED
    BY <1>4, <1>7, <1>8, <2>1 DEF Missing, ComesIn
<1>9. CASE GoesOn
  <2>1. Range(queue) \subseteq {Head(queue)} \cup Range(queue') /\ Head(queue) \in Nat
    BY <1>1, <1>9, TailRising DEF GoesOn
  <2>2. Range(block') = Range(block) \cup {Head(queue)}
    BY <1>1, <1>9, <2>1, AppendRising DEF GoesOn
  <2> QED
    BY <1>4, <1>7, <1>9, <2>1, <2>2 DEF Missing, GoesOn
<1>10. ASSUME NEW n \in 0 .. Block, GoesOut(n)
       PROVE  \/ Missing' \subseteq Missing /\ Allowed' = Allowed
              \/ Missing' \subseteq Missing \cup Range(block) /\ Allowed' = Allowed + Block
  <2>1. OnCard \cup Range(SubSeq(block, 1, n)) \subseteq OnCard'
    BY <1>10, WrittenCard
  <2>2. UNCHANGED <<taken, queue, removed, kills, reboots>>
    BY <1>10 DEF GoesOut
  <2>3. CASE n = Block /\ badWrites' = badWrites
    <3>1. SubSeq(block, 1, n) = block
      BY <1>1, <1>10, <2>3, SubSeqFull DEF PipeOK, GoesOut
    <3> QED
      BY <1>4, <2>1, <2>2, <2>3, <3>1 DEF Missing
  <2>4. CASE badWrites' = badWrites + 1
    <3>1. Missing' \subseteq Missing \cup Range(block)
      BY <2>1, <2>2 DEF Missing
    <3>2. kills' + badWrites' = (kills + badWrites) + 1
      BY <1>1, <2>2, <2>4
    <3> QED
      BY <1>5, <2>2, <3>1, <3>2
  <2> QED
    BY <1>10, <2>3, <2>4 DEF GoesOut
<1>11. CASE GoesAstray \/ GoesNowhere \/ GoesDown
  <2>1. OnCard' = OnCard
    <3>1. CASE GoesAstray
      BY <3>1, StampedFiles DEF OnCard
    <3>2. CASE GoesNowhere \/ GoesDown
      BY <1>7, <3>2 DEF GoesNowhere, GoesDown
    <3> QED
      BY <1>11, <3>1, <3>2
  <2>2. UNCHANGED <<taken, queue, removed, reboots>>
    BY <1>11 DEF GoesAstray, GoesNowhere, GoesDown
  <2>3. Missing' \subseteq Missing \cup Range(block)
    BY <2>1, <2>2 DEF Missing
  <2>4. kills' + badWrites' = (kills + badWrites) + 1
    <3>1. \/ kills' = kills + 1 /\ badWrites' = badWrites
          \/ kills' = kills /\ badWrites' = badWrites + 1
      BY <1>11 DEF GoesAstray, GoesNowhere, GoesDown
    <3> QED
      BY <1>1, <3>1
  <2> QED
    BY <1>5, <2>2, <2>3, <2>4
<1>12. CASE AllGoesDown
  <2>1. UNCHANGED <<taken, kills, badWrites>> /\ reboots' = reboots + 1
        /\ removed' = removed \cup (OnCard \ OnCard')
    BY <1>12 DEF AllGoesDown
  <2>2. Missing' \subseteq Missing \cup Range(block) \cup Range(queue)
    BY <2>1 DEF Missing
  <2>3. Allowed' = Allowed + (Block + QueueCap)
    <3>1. (Block + QueueCap) * reboots' = (Block + QueueCap) * reboots + (Block + QueueCap)
      BY <1>1, <1>3, <2>1
    <3>2. Block * (kills' + badWrites') = Block * (kills + badWrites)
      BY <2>1
    <3>3. kills + badWrites \in Nat
      BY <1>1
    <3>4. \A x, y, z \in Nat : x + (y + z) = (x + y) + z
      OBVIOUS
    <3> QED
      BY <1>1, <1>2, <1>3, <3>1, <3>2, <3>3, <3>4 DEF Allowed
  <2> QED
    BY <2>2, <2>3
<1>13. CASE Stays
  <2>1. UNCHANGED <<taken, queue, block, kills, badWrites, reboots>>
        /\ \/ files' = files /\ removed' = removed
           \/ removed' = removed \cup (OnCard \ OnCard')
    BY <1>13 DEF Stays
  <2>2. OnCard \cup removed \subseteq OnCard' \cup removed'
    BY <1>7, <2>1
  <2> QED
    BY <1>4, <2>1, <2>2 DEF Missing
<1> QED
  BY <1>8, <1>9, <1>10, <1>11, <1>12, <1>13 DEF Flow

LEMMA LossNext == TypeInv /\ LossBounded /\ [Next]_vars => LossBounded'
<1> SUFFICES ASSUME TypeInv, LossBounded, [Next]_vars
             PROVE  LossBounded'
  OBVIOUS
<1>1. SetsOK /\ SetsOK' /\ produced \in Nat /\ produced' \in Nat
  BY TypeParts, SetsNext, CountsNext DEF TypeInv, CountsOK
<1>2. IsFiniteSet(Missing) /\ Cardinality(Missing) \in Nat
  BY <1>1, MissingFinite
<1>3. IsFiniteSet(Missing') /\ Cardinality(Missing') \in Nat
  <2>1. IsFiniteSet(0 .. produced' - 1)
    BY <1>1, FS_Interval
  <2>2. Missing' \subseteq 0 .. produced' - 1
    BY <1>1 DEF SetsOK, Missing
  <2> QED
    BY <2>1, <2>2, FS_Subset, FS_CardinalityType
<1>4. Cardinality(Missing) <= Allowed
  BY DEF LossBounded, Missing, Allowed
<1>5. /\ IsFiniteSet(Range(block)) /\ Cardinality(Range(block)) <= Block
      /\ IsFiniteSet(Range(queue)) /\ Cardinality(Range(queue)) <= QueueCap
      /\ Cardinality(Range(block)) \in Nat /\ Cardinality(Range(queue)) \in Nat
      /\ Block \in Nat /\ QueueCap \in Nat
  <2>1. /\ block \in Seq(Nat) /\ Len(block) <= Block /\ Len(block) \in Nat
        /\ queue \in Seq(Nat) /\ Len(queue) <= QueueCap /\ Len(queue) \in Nat
    BY LenProperties DEF TypeInv, TypeOK
  <2>2. /\ IsFiniteSet(Range(block)) /\ Cardinality(Range(block)) <= Len(block)
        /\ IsFiniteSet(Range(queue)) /\ Cardinality(Range(queue)) <= Len(queue)
    BY <2>1, MembersFinite
  <2>3. Cardinality(Range(block)) \in Nat /\ Cardinality(Range(queue)) \in Nat
    BY <2>2, FS_CardinalityType
  <2> QED
    BY <2>1, <2>2, <2>3, RecorderAssumption
<1>6. Allowed \in Nat
  <2>1. Block \in Nat /\ kills + badWrites \in Nat /\ reboots \in Nat /\ Block + QueueCap \in Nat
    BY RecorderAssumption, TypeParts DEF TypeInv, CountsOK
  <2>2. \A x, y \in Nat : x * y \in Nat
    OBVIOUS
  <2> QED
    BY <2>1, <2>2 DEF Allowed
(* What is added to a finite set adds at most its size. *)
<1>7. ASSUME NEW S, NEW T, NEW E, IsFiniteSet(S), IsFiniteSet(E), T \subseteq S \cup E
      PROVE  /\ IsFiniteSet(T) /\ Cardinality(T) \in Nat
             /\ Cardinality(T) <= Cardinality(S) + Cardinality(E)
  <2>1. /\ IsFiniteSet(S \cup E)
        /\ Cardinality(S \cup E) = Cardinality(S) + Cardinality(E) - Cardinality(S \cap E)
    BY <1>7, FS_Union
  <2>2. /\ Cardinality(S) \in Nat /\ Cardinality(E) \in Nat /\ Cardinality(S \cap E) \in Nat
        /\ Cardinality(S \cup E) \in Nat
    <3>1. IsFiniteSet(S \cap E)
      BY <1>7, FS_Subset
    <3> QED
      BY <1>7, <2>1, <3>1, FS_CardinalityType
  <2>3. IsFiniteSet(T) /\ Cardinality(T) <= Cardinality(S \cup E)
    BY <1>7, <2>1, FS_Subset
  <2>4. Cardinality(T) \in Nat
    BY <2>3, FS_CardinalityType
  <2> QED
    BY <2>1, <2>2, <2>3, <2>4
<1>8. Cardinality(Missing') <= Allowed'
  <2>1. CASE Missing' \subseteq Missing /\ Allowed' = Allowed
    <3>1. Cardinality(Missing') <= Cardinality(Missing)
      BY <1>2, <2>1, FS_Subset
    <3> QED
      BY <1>2, <1>3, <1>4, <1>6, <2>1, <3>1
  <2>2. CASE Missing' \subseteq Missing \cup Range(block) /\ Allowed' = Allowed + Block
    <3>1. Cardinality(Missing') <= Cardinality(Missing) + Cardinality(Range(block))
      BY <1>2, <1>5, <1>7, <2>2
    <3> QED
      BY <1>2, <1>3, <1>4, <1>5, <1>6, <2>2, <3>1
  <2>3. CASE /\ Missing' \subseteq Missing \cup Range(block) \cup Range(queue)
             /\ Allowed' = Allowed + (Block + QueueCap)
    <3> DEFINE both == Range(block) \cup Range(queue)
    <3>1. IsFiniteSet(both) /\ Cardinality(both) \in Nat
          /\ Cardinality(both) <= Cardinality(Range(block)) + Cardinality(Range(queue))
      BY <1>5, <1>7, FS_Union
    <3>2. Missing' \subseteq Missing \cup both
      BY <2>3
    <3> HIDE DEF both
    <3>3. Cardinality(Missing') <= Cardinality(Missing) + Cardinality(both)
      BY <1>2, <1>7, <3>1, <3>2
    <3> QED
      BY <1>2, <1>3, <1>4, <1>5, <1>6, <2>3, <3>1, <3>3
  <2> QED
    BY <2>1, <2>2, <2>3, FlowNext, MissingNext
<1> QED
  BY <1>8 DEF LossBounded, Missing, Allowed

(* Of the frames that the queue has taken all are on the card, under way,  *)
(* or were on the card and left it with a file or with the machine, but    *)
(* for a block for each kill and each failed write, and a block and a full *)
(* queue for each reboot.                                                  *)
THEOREM LosesLittle == Spec => []LossBounded
<1>1. Init => LossBounded
  <2> SUFFICES ASSUME Init
               PROVE  LossBounded
    OBVIOUS
  <2>1. taken = {} /\ kills = 0 /\ badWrites = 0 /\ reboots = 0
    BY DEF Init
  <2>2. Missing = {}
    BY <2>1 DEF Missing
  <2>3. Cardinality(Missing) = 0
    BY <2>2, FS_EmptySet
  <2>4. Block * (kills + badWrites) + (Block + QueueCap) * reboots = 0
    BY <2>1, RecorderAssumption
  <2> QED
    BY <2>3, <2>4 DEF LossBounded, Missing
<1>2. TypeInv /\ LossBounded /\ [Next]_vars => LossBounded'
  BY LossNext
<1> QED
  BY <1>1, <1>2, TypeInvariant, PTL DEF Spec

-----------------------------------------------------------------------------
(* What is on the card. *)

Frames(i) == files[i].frames

(* The frames to come: those under way, and the next one.                  *)
Ahead == Range(block) \cup Range(queue) \cup {produced}

PipeOrder ==
  /\ Rising(block) /\ Rising(queue) /\ Below(Range(block), Range(queue))
  /\ Below(Range(block) \cup Range(queue), {produced})

(* Each file is older than what is to come, and than those created later.  *)
CardOrder ==
  /\ \A i \in DOMAIN files : Rising(Frames(i)) /\ Below(Range(Frames(i)), Ahead)
  /\ \A i, j \in DOMAIN files : i < j => Below(Range(Frames(i)), Range(Frames(j)))

LEMMA PipeTypes ==
  ASSUME TypeInv
  PROVE  /\ queue \in Seq(Nat) /\ block \in Seq(Nat) /\ produced \in Nat
         /\ Range(queue) \subseteq Nat /\ Range(block) \subseteq Nat /\ Ahead \subseteq Nat
<1>1. queue \in Seq(Nat) /\ block \in Seq(Nat) /\ produced \in Nat
  BY TypeParts DEF TypeInv, PipeOK, CountsOK
<1> QED
  BY <1>1, Members DEF Ahead

(* Only the number of a new frame is new among those to come. *)
LEMMA AheadNext ==
  ASSUME TypeInv, PipeOrder, Flow
  PROVE  PipeOrder' /\ Ahead' \subseteq Ahead \cup {produced + 1}
<1>1. /\ queue \in Seq(Nat) /\ block \in Seq(Nat) /\ produced \in Nat
      /\ Range(queue) \subseteq Nat /\ Range(block) \subseteq Nat
  BY PipeTypes
<1>2. /\ Rising(block) /\ Rising(queue)
      /\ \A x \in Range(block), y \in Range(queue) : x < y
      /\ \A x \in Range(block) \cup Range(queue) : x < produced
  BY DEF PipeOrder, Below
<1>3. Range(<<>>) = {} /\ Rising(<<>>)
  BY EmptyRising
<1>4. CASE ComesIn
  <2>1. Rising(queue') /\ Range(queue') = Range(queue) \cup {produced}
    <3>1. Below(Range(queue), {produced})
      BY <1>2 DEF Below
    <3> QED
      BY <1>1, <1>2, <1>4, <3>1, AppendRising DEF ComesIn
  <2>2. block' = block /\ produced' = produced + 1
    BY <1>4 DEF ComesIn
  <2>3. \A x \in Range(block) \cup Range(queue') : x < produced'
    BY <1>1, <1>2, <2>1, <2>2
  <2> QED
    BY <1>2, <2>1, <2>2, <2>3 DEF PipeOrder, Below, Ahead
<1>5. CASE GoesOn
  <2> DEFINE h == Head(queue)
  <2>1. /\ h \in Range(queue) /\ h \in Nat /\ Range(queue') \subseteq Range(queue)
        /\ Rising(queue') /\ Below({h}, Range(queue'))
    BY <1>1, <1>2, <1>5, TailRising DEF GoesOn
  <2>2. block' = Append(block, h) /\ produced' = produced
    BY <1>5 DEF GoesOn
  <2> HIDE DEF h
  <2>3. Below(Range(block), {h})
    BY <1>2, <2>1 DEF Below
  <2>4. Rising(block') /\ Range(block') = Range(block) \cup {h}
    BY <1>1, <1>2, <2>1, <2>2, <2>3, AppendRising
  <2> QED
    BY <1>2, <2>1, <2>2, <2>4 DEF PipeOrder, Below, Ahead
<1>6. ASSUME UNCHANGED produced, block' = <<>>, queue' \in {queue, <<>>}
      PROVE  PipeOrder' /\ Ahead' \subseteq Ahead \cup {produced + 1}
  BY <1>2, <1>3, <1>6 DEF PipeOrder, Below, Ahead
<1>7. CASE GoesAstray \/ GoesNowhere \/ GoesDown \/ AllGoesDown
  BY <1>6, <1>7 DEF GoesAstray, GoesNowhere, GoesDown, AllGoesDown
<1>8. ASSUME NEW n \in 0 .. Block, GoesOut(n)
      PROVE  PipeOrder' /\ Ahead' \subseteq Ahead \cup {produced + 1}
  BY <1>6, <1>8 DEF GoesOut
<1>9. CASE Stays
  <2>1. block' = block /\ queue' = queue /\ produced' \in {produced, produced + 1}
    BY <1>9 DEF Stays
  <2>2. \A x \in Range(block) \cup Range(queue) : x < produced'
    BY <1>1, <1>2, <2>1
  <2> QED
    BY <1>2, <2>1, <2>2 DEF PipeOrder, Below, Ahead
<1> QED
  BY <1>4, <1>5, <1>7, <1>8, <1>9 DEF Flow

(* Files may go, lose frames, and come empty. *)
LEMMA CardShrinks ==
  ASSUME TypeInv, CardOrder, Ahead' \subseteq Ahead \cup {produced + 1},
         \A i \in DOMAIN files' :
           \/ Frames(i)' = <<>>
           \/ /\ i \in DOMAIN files /\ Rising(Frames(i)')
              /\ Range(Frames(i)') \subseteq Range(Frames(i))
  PROVE  CardOrder'
<1>1. \A i \in DOMAIN files : /\ Range(Frames(i)) \subseteq Nat
                              /\ Below(Range(Frames(i)), {produced + 1})
  <2> SUFFICES ASSUME NEW i \in DOMAIN files
               PROVE  /\ Range(Frames(i)) \subseteq Nat
                      /\ \A x \in Range(Frames(i)) : x < produced + 1
    BY DEF Below
  <2>1. Frames(i) \in Seq(Nat)
    BY TypeParts DEF TypeInv, FilesOK, FileRecord, Frames
  <2>2. \A x \in Range(Frames(i)) : x \in Nat /\ x < produced
    BY <2>1, Members DEF CardOrder, Ahead, Below
  <2> QED
    BY <2>2, PipeTypes
<1>2. Range(<<>>) = {} /\ Rising(<<>>)
  BY EmptyRising
<1>3. \A i \in DOMAIN files' : Rising(Frames(i)')
  BY <1>2
<1>4. \A i \in DOMAIN files' :
        \/ Range(Frames(i)') = {}
        \/ i \in DOMAIN files /\ Range(Frames(i)') \subseteq Range(Frames(i))
  BY <1>2
<1>5. \A i \in DOMAIN files' : Below(Range(Frames(i)'), Ahead')
  BY <1>1, <1>4 DEF CardOrder, Below
<1>6. \A i, j \in DOMAIN files' : i < j => Below(Range(Frames(i)'), Range(Frames(j)'))
  BY <1>4 DEF CardOrder, Below
<1> QED
  BY <1>3, <1>5, <1>6 DEF CardOrder

LEMMA CardNext == TypeInv /\ PipeOrder /\ CardOrder /\ Flow => CardOrder'
<1> SUFFICES ASSUME TypeInv, PipeOrder, CardOrder, Flow
             PROVE  CardOrder'
  OBVIOUS
<1>1. Ahead' \subseteq Ahead \cup {produced + 1}
  BY AheadNext
<1>2. ASSUME files' = files
      PROVE  CardOrder'
  BY <1>1, <1>2, CardShrinks DEF Frames, CardOrder
<1>3. CASE ComesIn \/ GoesOn \/ GoesNowhere \/ GoesDown
  BY <1>2, <1>3 DEF ComesIn, GoesOn, GoesNowhere, GoesDown
<1>4. CASE AllGoesDown
  <2>1. \A i \in DOMAIN files' : /\ i \in DOMAIN files /\ Rising(Frames(i)')
                                 /\ Range(Frames(i)') \subseteq Range(Frames(i))
    BY <1>4, CutFiles DEF AllGoesDown, CardOrder, Frames
  <2> QED
    BY <1>1, <2>1, CardShrinks
<1>7. CASE GoesAstray
  BY <1>1, <1>7, StampedFiles, CardShrinks DEF CardOrder, Frames
<1>5. CASE Stays
  <2>1. CASE files' = files
    BY <1>2, <2>1
  <2>2. CASE Open
    BY <1>1, <2>2, OpenedFiles, CardShrinks DEF Frames, CardOrder
  <2>3. CASE DeleteFile
    BY <1>1, <2>3, KeptFiles, CardShrinks DEF Frames, CardOrder
  <2> QED
    BY <1>5, <2>1, <2>2, <2>3 DEF Stays
<1>6. ASSUME NEW n \in 0 .. Block, GoesOut(n)
      PROVE  CardOrder'
  <2> DEFINE b == SubSeq(block, 1, n)
  <2>0. PICK c \in DOMAIN files : c = cur
    BY <1>6, WrittenFiles DEF GoesOut
  <2>1. /\ DOMAIN files' = DOMAIN files
        /\ \A i \in DOMAIN files : i <= c /\ i \in Nat
        /\ \A i \in DOMAIN files : i # c => Frames(i)' = Frames(i)
        /\ Frames(c)' = Frames(c) \o b
    <3>1. DOMAIN files \subseteq 1 .. created /\ created \in Nat
      BY TypeParts DEF TypeInv, FilesOK
    <3>2. /\ DOMAIN files' = DOMAIN files /\ c = created
          /\ \A i \in DOMAIN files : i # c => files'[i] = files[i]
          /\ files'[c].frames = files[c].frames \o b
      BY <1>6, <2>0, WrittenFiles DEF GoesOut
    <3> QED
      BY <3>1, <3>2 DEF Frames
  <2>2. b \in Seq(Nat) /\ Range(b) \subseteq Range(block) /\ Rising(b)
    BY <1>6, WritePrefix, TypeParts DEF GoesOut, TypeInv, PipeOrder
  <2> HIDE DEF b
  <2>3. Range(block) \subseteq Ahead /\ Ahead' = Range(queue) \cup {produced}
    BY <1>6, EmptyRising DEF Ahead, GoesOut
  <2>4. \A i \in DOMAIN files : Frames(i) \in Seq(Nat)
    BY TypeParts DEF TypeInv, FilesOK, FileRecord, Frames
  <2>5. Below(Range(Frames(c)), Range(b)) /\ Rising(Frames(c))
    BY <2>1, <2>2, <2>3 DEF CardOrder, Below
  <2>6. /\ Rising(Frames(c)')
        /\ Range(Frames(c)') = Range(Frames(c)) \cup Range(b)
    BY <2>1, <2>2, <2>4, <2>5, ConcatRising
  <2>7. \A i \in DOMAIN files : i # c => Below(Range(Frames(i)), Range(Frames(c)'))
    <3> SUFFICES ASSUME NEW i \in DOMAIN files, i # c
                 PROVE  Below(Range(Frames(i)), Range(Frames(c)'))
      OBVIOUS
    <3>1. i < c
      BY <2>1
    <3>2. Below(Range(Frames(i)), Range(Frames(c))) /\ Below(Range(Frames(i)), Ahead)
      BY <2>1, <3>1 DEF CardOrder
    <3> QED
      BY <2>2, <2>3, <2>6, <3>2 DEF Below
  <2>8. Below(Range(b), Ahead')
    BY <2>2, <2>3 DEF PipeOrder, Below
  <2>9. \A i \in DOMAIN files : Below(Range(Frames(i)'), Ahead')
    BY <2>1, <2>3, <2>6, <2>8 DEF CardOrder, Below, Ahead
  <2>10. ASSUME NEW i \in DOMAIN files, NEW j \in DOMAIN files, i < j
         PROVE  Below(Range(Frames(i)'), Range(Frames(j)'))
    <3>1. i # c
      BY <2>1, <2>10
    <3> QED
      BY <2>1, <2>7, <2>10, <3>1 DEF CardOrder
  <2>11. \A i \in DOMAIN files : Rising(Frames(i)')
    BY <2>1, <2>6 DEF CardOrder
  <2> QED
    BY <2>1, <2>9, <2>10, <2>11 DEF CardOrder
<1> QED
  BY <1>3, <1>4, <1>5, <1>6, <1>7 DEF Flow

LEMMA OrderInvariant == Spec => [](PipeOrder /\ CardOrder)
<1>1. Init => PipeOrder /\ CardOrder
  <2> SUFFICES ASSUME Init
               PROVE  PipeOrder /\ CardOrder
    OBVIOUS
  <2>1. block = <<>> /\ queue = <<>> /\ DOMAIN files = {}
    BY EmptyRising, LenProperties DEF Init
  <2> QED
    BY <2>1, EmptyRising DEF PipeOrder, CardOrder, Below
<1>2. TypeInv /\ PipeOrder /\ CardOrder /\ [Next]_vars => PipeOrder' /\ CardOrder'
  BY FlowNext, AheadNext, CardNext
<1> QED
  BY <1>1, <1>2, TypeInvariant, PTL DEF Spec

(* However the process and the machine go down and come up again, no frame *)
(* is on the card twice and none out of order.                             *)
THEOREM RecordsOnce == Spec => []OnCardOnce
<1>1. TypeInv /\ CardOrder => OnCardOnce
  <2> SUFFICES ASSUME TypeInv, CardOrder,
                      NEW i \in DOMAIN files, NEW j \in DOMAIN files,
                      NEW a \in DOMAIN files[i].frames, NEW b \in DOMAIN files[j].frames,
                      i < j \/ (i = j /\ a < b)
               PROVE  files[i].frames[a] < files[j].frames[b]
    BY DEF OnCardOnce
  <2>1. Frames(i) \in Seq(Nat) /\ Frames(j) \in Seq(Nat)
    BY TypeParts DEF TypeInv, FilesOK, FileRecord, Frames
  <2>2. a \in 1 .. Len(Frames(i)) /\ b \in 1 .. Len(Frames(j))
    BY <2>1, LenProperties DEF Frames
  <2>3. CASE i < j
    BY <2>1, <2>2, <2>3, Members DEF CardOrder, Below, Frames
  <2>4. CASE i = j /\ a < b
    BY <2>2, <2>4 DEF CardOrder, Rising, Frames
  <2> QED
    BY <2>3, <2>4
<1> QED
  BY <1>1, TypeInvariant, OrderInvariant, PTL

-----------------------------------------------------------------------------
(* Which files go. *)

LEMMA FilesFinite ==
  ASSUME TypeInv
  PROVE  /\ IsFiniteSet(DOMAIN files) /\ Cardinality(DOMAIN files) \in Nat
         /\ DOMAIN files \subseteq Nat
         /\ \A i \in DOMAIN files : files[i] \in FileRecord
<1>1. /\ DOMAIN files \subseteq 1 .. created /\ created \in Nat
      /\ \A i \in DOMAIN files : files[i] \in FileRecord
  BY TypeParts DEF TypeInv, FilesOK
<1>2. IsFiniteSet(1 .. created)
  BY <1>1, FS_Interval
<1>3. IsFiniteSet(DOMAIN files)
  BY <1>1, <1>2, FS_Subset
<1> QED
  BY <1>1, <1>3, FS_CardinalityType

(* What DeleteFile takes away. *)
LEMMA DeletedFiles ==
  ASSUME DeleteFile
  PROVE  \E S \in SUBSET DOMAIN files :
           /\ DOMAIN files' = DOMAIN files \ S
           /\ IF Cardinality(DOMAIN files) > FileLimit THEN FirstListed(S) ELSE S = {}
<1>1. PICK S \in SUBSET DOMAIN files :
        /\ IF Cardinality(DOMAIN files) > FileLimit THEN FirstListed(S) ELSE S = {}
        /\ files' = Keep(DOMAIN files \ S)
  BY DEF DeleteFile, CleanUp
<1>2. DOMAIN files' = DOMAIN files \ S
  BY <1>1 DEF Keep
<1> QED
  BY <1>1, <1>2

(* As long as the clock is not set back, a file created later was written  *)
(* to later.                                                               *)
AtInv ==
  clockSet # "back" =>
    /\ \A i \in DOMAIN files : files[i].at <= clock
    /\ \A i, j \in DOMAIN files : i < j => files[i].at <= files[j].at

LEMMA ClockForward ==
  ASSUME TypeInv, [Next]_vars, clockSet' # "back"
  PROVE  clockSet # "back" /\ clock <= clock'
<1> USE DEF thread, disk, failures
<1>1. clock \in Nat
  BY TypeParts DEF TypeInv, CountsOK
<1>2. CASE Tick
  BY <1>1, <1>2 DEF Tick
<1>3. CASE SetClock
  BY <1>1, <1>3, RecorderAssumption DEF SetClock
<1>4. ASSUME UNCHANGED <<clock, clockSet>>
      PROVE  clockSet # "back" /\ clock <= clock'
  BY <1>1, <1>4
<1>5. CASE Produce \/ Kill \/ Reboot \/ UNCHANGED vars
  BY <1>4, <1>5 DEF Produce, Kill, Reboot, vars
<1>6. CASE Save
  <2>1. CASE StartSave \/ Top \/ Rotate \/ NameFile \/ DeleteFile
    BY <1>4, <2>1 DEF StartSave, Top, Rotate, NameFile, DeleteFile, CleanUp
  <2>2. CASE Open \/ OpenFails \/ Receive
    BY <1>4, <2>2 DEF Open, OpenFails, Receive
  <2>3. CASE Write \/ WriteShort \/ WriteAstray \/ WriteNowhere
    BY <1>4, <2>3 DEF Write, WriteShort, WriteAstray, WriteNowhere
  <2> QED
    BY <1>6, <2>1, <2>2, <2>3 DEF Save
<1> QED
  BY <1>2, <1>3, <1>5, <1>6 DEF Next

(* A step either keeps the times of the files it leaves, or sets that of   *)
(* the newest to the present.                                              *)
LEMMA TimesNext ==
  ASSUME TypeInv, Flow
  PROVE  \A i \in DOMAIN files' :
           \/ /\ i \in DOMAIN files /\ files'[i].at = files[i].at
           \/ /\ files'[i].at = clock
              /\ \A j \in DOMAIN files' : j # i => j \in DOMAIN files /\ j < i
<1>1. CASE ComesIn \/ GoesOn \/ GoesNowhere \/ GoesDown
  BY <1>1 DEF ComesIn, GoesOn, GoesNowhere, GoesDown
<1>2. CASE AllGoesDown
  BY <1>2, CutFiles DEF AllGoesDown
<1>6. CASE GoesAstray
  <2>1. /\ DOMAIN files' = DOMAIN files /\ cur = created
        /\ \A k \in DOMAIN files : k # cur => files'[k] = files[k]
        /\ files'[cur].at = clock
    BY <1>6, StampedFiles
  <2>2. \A j \in DOMAIN files : j # cur => j < cur
    BY <2>1, TypeParts DEF TypeInv, FilesOK
  <2> QED
    BY <2>1, <2>2
<1>3. DOMAIN files \subseteq 1 .. created /\ created \in Nat
  BY TypeParts DEF TypeInv, FilesOK
<1>4. CASE Stays
  <2>1. CASE files' = files
    BY <2>1
  <2>2. CASE Open
    <3>1. files'[created'].at = clock
      BY <2>2, OpenedFiles
    <3>2. \A j \in DOMAIN files : j < created'
      BY <1>3, <2>2, OpenedFiles
    <3>3. \A i \in DOMAIN files' : i # created' => i \in DOMAIN files /\ files'[i] = files[i]
      BY <2>2, OpenedFiles
    <3> QED
      BY <3>1, <3>2, <3>3
  <2>3. CASE DeleteFile
    BY <2>3, KeptFiles
  <2> QED
    BY <1>4, <2>1, <2>2, <2>3 DEF Stays
<1>5. ASSUME NEW n \in 0 .. Block, GoesOut(n), NEW i \in DOMAIN files'
      PROVE  \/ /\ i \in DOMAIN files /\ files'[i].at = files[i].at
             \/ /\ files'[i].at = clock
                /\ \A j \in DOMAIN files' : j # i => j \in DOMAIN files /\ j < i
  <2>1. /\ DOMAIN files' = DOMAIN files /\ cur = created
        /\ \A k \in DOMAIN files : k # cur => files'[k] = files[k]
        /\ files'[cur].at = clock
    BY <1>5, WrittenFiles DEF GoesOut
  <2>2. \A j \in DOMAIN files : j # cur => j < cur
    BY <1>3, <2>1
  <2> QED
    BY <2>1, <2>2
<1> QED
  BY <1>1, <1>2, <1>4, <1>5, <1>6 DEF Flow

LEMMA AtNext == TypeInv /\ AtInv /\ [Next]_vars => AtInv'
<1> SUFFICES ASSUME TypeInv, AtInv, [Next]_vars, clockSet' # "back"
             PROVE  /\ \A i \in DOMAIN files' : files'[i].at <= clock'
                    /\ \A i, j \in DOMAIN files' : i < j => files'[i].at <= files'[j].at
  BY DEF AtInv
<1>1. clockSet # "back" /\ clock <= clock'
  BY ClockForward
<1>2. clock \in Nat /\ clock' \in Nat
  BY TypeParts, CountsNext DEF TypeInv, CountsOK
<1>3. \A i \in DOMAIN files : files[i].at \in Nat /\ files[i].at <= clock /\ i \in Nat
  BY <1>1, FilesFinite DEF AtInv, FileRecord
<1>4. \A i \in DOMAIN files' :
        \/ /\ i \in DOMAIN files /\ files'[i].at = files[i].at
        \/ /\ files'[i].at = clock
           /\ \A j \in DOMAIN files' : j # i => j \in DOMAIN files /\ j < i
  BY FlowNext, TimesNext
<1>5. \A i \in DOMAIN files' : files'[i].at <= clock /\ files'[i].at \in Nat
  BY <1>2, <1>3, <1>4
<1>6. ASSUME NEW i \in DOMAIN files', NEW j \in DOMAIN files', i < j
      PROVE  files'[i].at <= files'[j].at
  <2>1. CASE j \in DOMAIN files /\ files'[j].at = files[j].at
    <3>1. CASE i \in DOMAIN files /\ files'[i].at = files[i].at
      BY <1>1, <1>6, <2>1, <3>1 DEF AtInv
    <3>2. CASE \A k \in DOMAIN files' : k # i => k \in DOMAIN files /\ k < i
      <4>1. i \in Nat /\ j \in Nat
        BY FilesNext DEF FilesOK
      <4>2. j < i
        BY <1>6, <3>2, <4>1
      <4> QED
        BY <1>6, <4>1, <4>2
    <3> QED
      BY <1>4, <3>1, <3>2
  <2>2. CASE files'[j].at = clock
    BY <1>5, <2>2
  <2> QED
    BY <1>4, <2>1, <2>2
<1> QED
  BY <1>1, <1>2, <1>5, <1>6

LEMMA DropsNext ==
  ASSUME TypeInv, AtInv, [Next]_vars, pc = "clean", clockSet # "back",
         NEW i \in DOMAIN files \ DOMAIN files', NEW j \in DOMAIN files \cap DOMAIN files'
  PROVE  i < j \/ files[i].at = files[j].at
<1>1. CASE DeleteFile
  <2>1. i \in Nat /\ j \in Nat /\ files[i].at \in Nat /\ files[j].at \in Nat
    BY FilesFinite DEF FileRecord
  <2>2. PICK S \in SUBSET DOMAIN files :
          /\ DOMAIN files' = DOMAIN files \ S
          /\ IF Cardinality(DOMAIN files) > FileLimit THEN FirstListed(S) ELSE S = {}
    BY <1>1, DeletedFiles
  <2>3. i \in S /\ j \in DOMAIN files \ S /\ i # j
    BY <2>2
  <2>4. ~Older(j, i)
    BY <2>2, <2>3 DEF FirstListed
  <2>5. CASE j < i
    <3>1. files[j].at <= files[i].at
      BY <2>5 DEF AtInv
    <3> QED
      BY <2>1, <2>4, <3>1 DEF Older
  <2> QED
    BY <2>1, <2>3, <2>5
<1>2. CASE ~DeleteFile
  <2>1. Flow
    BY FlowNext
  <2>2. CASE ComesIn \/ GoesOn \/ GoesNowhere \/ GoesDown
    BY <2>2 DEF ComesIn, GoesOn, GoesNowhere, GoesDown
  <2>3. CASE AllGoesDown
    BY <2>3, CutFiles DEF AllGoesDown
  <2>4. CASE Stays
    BY <1>2, <2>4 DEF Stays, Open
  <2>5. ~GoesAstray /\ ~ \E n \in 0 .. Block : GoesOut(n)
    BY DEF GoesAstray, GoesOut
  <2> QED
    BY <2>1, <2>2, <2>3, <2>4, <2>5 DEF Flow
<1> QED
  BY <1>1, <1>2

(* As long as the clock is never set back, what delete_file removes was    *)
(* created before all that it leaves, or last written in the same second.  *)
THEOREM RemovesTheOldest == Spec => DropsOldest
<1>1. Init => AtInv
  <2> SUFFICES ASSUME Init
               PROVE  AtInv
    OBVIOUS
  <2>1. DOMAIN files = {}
    BY EmptyRising, LenProperties DEF Init
  <2> QED
    BY <2>1 DEF AtInv
<1>2. TypeInv /\ AtInv /\ [Next]_vars => AtInv'
  BY AtNext
<1>3. TypeInv /\ AtInv /\ [Next]_vars =>
        [pc = "clean" /\ clockSet # "back"
           => \A i \in DOMAIN files \ DOMAIN files', j \in DOMAIN files \cap DOMAIN files' :
                i < j \/ files[i].at = files[j].at]_vars
  BY DropsNext
<1> QED
  BY <1>1, <1>2, <1>3, TypeInvariant, PTL DEF Spec, DropsOldest

-----------------------------------------------------------------------------
(* How many files there are. *)

BoundInv ==
  /\ Cardinality(DOMAIN files) <= FileLimit + 1
  /\ pc = "open" => Cardinality(DOMAIN files) <= FileLimit

(* delete_file leaves no more than FileLimit, for at least one file goes.  *)
LEMMA DeleteEnough ==
  ASSUME TypeInv, BoundInv, DeleteFile
  PROVE  Cardinality(DOMAIN files') <= FileLimit
<1>1. FileLimit \in Nat /\ Drop \in Nat \ {0}
  BY RecorderAssumption
<1>2. IsFiniteSet(DOMAIN files) /\ Cardinality(DOMAIN files) \in Nat
  BY FilesFinite
<1>3. PICK S \in SUBSET DOMAIN files :
        /\ DOMAIN files' = DOMAIN files \ S
        /\ IF Cardinality(DOMAIN files) > FileLimit THEN FirstListed(S) ELSE S = {}
  BY DeletedFiles
<1>4. CASE Cardinality(DOMAIN files) > FileLimit
  <2>1. DOMAIN files # {}
    BY <1>1, <1>4, FS_EmptySet
  <2>2. S # {}
    <3>1. Cardinality(S) = Drop \/ S = DOMAIN files
      BY <1>3, <1>4 DEF FirstListed
    <3> QED
      BY <1>1, <2>1, <3>1, FS_EmptySet
  <2>3. PICK m \in S : m \in DOMAIN files
    BY <2>2
  <2>4. DOMAIN files' \subseteq DOMAIN files \ {m}
    BY <1>3
  <2>5. /\ IsFiniteSet(DOMAIN files \ {m})
        /\ Cardinality(DOMAIN files \ {m}) = Cardinality(DOMAIN files) - 1
    BY <1>2, <2>3, FS_RemoveElement
  <2>6. /\ IsFiniteSet(DOMAIN files')
        /\ Cardinality(DOMAIN files') <= Cardinality(DOMAIN files) - 1
    BY <2>4, <2>5, FS_Subset
  <2>7. Cardinality(DOMAIN files') \in Nat
    BY <2>6, FS_CardinalityType
  <2> QED
    BY <1>1, <1>2, <2>6, <2>7 DEF BoundInv
<1>5. CASE ~(Cardinality(DOMAIN files) > FileLimit)
  <2>1. DOMAIN files' = DOMAIN files
    BY <1>3, <1>5
  <2> QED
    BY <1>1, <1>2, <1>5, <2>1
<1> QED
  BY <1>4, <1>5

LEMMA BoundNext == TypeInv /\ BoundInv /\ [Next]_vars => BoundInv'
<1> SUFFICES ASSUME TypeInv, BoundInv, [Next]_vars
             PROVE  BoundInv'
  OBVIOUS
<1>1. FileLimit \in Nat
  BY RecorderAssumption
<1>2. IsFiniteSet(DOMAIN files) /\ Cardinality(DOMAIN files) \in Nat
  BY FilesFinite
<1>3. CASE DeleteFile
  <2>1. IsFiniteSet(DOMAIN files') /\ Cardinality(DOMAIN files') \in Nat
    BY <1>2, <1>3, KeptFiles, FS_Subset, FS_CardinalityType
  <2> QED
    BY <1>1, <1>3, <2>1, DeleteEnough DEF BoundInv
<1>4. CASE Open
  <2> DEFINE others == {j \in DOMAIN files : files[j].name # name}
  <2>1. pc = "open" /\ pc' = "recv"
    BY <1>4 DEF Open
  <2>2. DOMAIN files' = others \cup {created'}
    BY <1>4, OpenedFiles
  <2>3. IsFiniteSet(others) /\ Cardinality(others) <= Cardinality(DOMAIN files)
    BY <1>2, FS_Subset
  <2>4. Cardinality(others) \in Nat
    BY <2>3, FS_CardinalityType
  <2> HIDE DEF others
  <2>5. Cardinality(others \cup {created'}) <= Cardinality(others) + 1
    <3> SUFFICES ASSUME NEW x
                 PROVE  Cardinality(others \cup {x}) <= Cardinality(others) + 1
      OBVIOUS
    <3>1. Cardinality(others \cup {x}) = IF x \in others THEN Cardinality(others)
                                                          ELSE Cardinality(others) + 1
      BY <2>3, FS_AddElement
    <3> QED
      BY <2>4, <3>1
  <2>6. Cardinality(others \cup {created'}) \in Nat
    BY <2>3, FS_AddElement, FS_CardinalityType
  <2> QED
    BY <1>1, <1>2, <2>1, <2>2, <2>3, <2>4, <2>5, <2>6 DEF BoundInv
<1>5. CASE ~DeleteFile /\ ~Open
  <2>1. DOMAIN files' = DOMAIN files
    <3>1. Flow
      BY FlowNext
    <3>2. CASE ComesIn \/ GoesOn \/ GoesNowhere \/ GoesDown
      BY <3>2 DEF ComesIn, GoesOn, GoesNowhere, GoesDown
    <3>3. CASE AllGoesDown \/ GoesAstray
      BY <3>3, CutFiles, StampedFiles DEF AllGoesDown
    <3>4. CASE Stays
      BY <1>5, <3>4 DEF Stays
    <3>5. ASSUME NEW n \in 0 .. Block, GoesOut(n)
          PROVE  DOMAIN files' = DOMAIN files
      BY <3>5, WrittenFiles DEF GoesOut
    <3> QED
      BY <3>1, <3>2, <3>3, <3>4, <3>5 DEF Flow
  <2>2. pc' = "open" => pc = "open"
    <3> USE DEF thread, disk, failures
    <3>1. CASE Produce \/ Tick \/ SetClock
      BY <3>1 DEF Produce, Tick, SetClock
    <3>2. CASE StartSave \/ Top \/ Rotate \/ NameFile
      BY <3>2 DEF StartSave, Top, Rotate, NameFile
    <3>3. CASE OpenFails \/ Receive
      BY <3>3 DEF OpenFails, Receive
    <3>4. CASE Write \/ WriteShort \/ WriteAstray \/ WriteNowhere
      BY <3>4 DEF Write, WriteShort, AppendToFile, WriteAstray, WriteNowhere
    <3>5. CASE Kill
      BY <3>5 DEF Kill, Restart
    <3>6. CASE Reboot
      BY <3>6 DEF Reboot, Restart
    <3>7. CASE UNCHANGED vars
      BY <3>7 DEF vars
    <3> QED
      BY <1>5, <3>1, <3>2, <3>3, <3>4, <3>5, <3>6, <3>7 DEF Next, Save
  <2> QED
    BY <2>1, <2>2 DEF BoundInv
<1> QED
  BY <1>3, <1>4, <1>5

(* Whatever restarts and failed opens come between two clean-ups, there    *)
(* are never more files than one above the threshold.                      *)
THEOREM BoundsTheFiles == Spec => []FilesBounded
<1>1. Init => BoundInv
  <2> SUFFICES ASSUME Init
               PROVE  BoundInv
    OBVIOUS
  <2>1. DOMAIN files = {} /\ pc = "start"
    BY EmptyRising, LenProperties DEF Init
  <2> QED
    BY <2>1, FS_EmptySet, RecorderAssumption DEF BoundInv
<1>2. TypeInv /\ BoundInv /\ [Next]_vars => BoundInv'
  BY BoundNext
<1>3. BoundInv => FilesBounded
  BY DEF BoundInv, FilesBounded
<1> QED
  BY <1>1, <1>2, <1>3, TypeInvariant, PTL DEF Spec

-----------------------------------------------------------------------------
(* The names of the files. *)

(* Nobody has set the clock, and nothing has restarted. *)
Quiet == clockSet = "no" /\ kills + reboots = 0

(* The current file was named less than FileCost after last_time, and the  *)
(* thread comes back to Rotate only when FileCost has passed: by then all  *)
(* names are in the past.                                                  *)
NameInv ==
  Quiet =>
    /\ last <= clock
    /\ \A i \in DOMAIN files : files[i].name < last + FileCost
    /\ pc \in {"recv", "write"} => held
    /\ pc \in {"start", "stopped"} => DOMAIN files = {}
    /\ pc = "top" /\ ~held => DOMAIN files = {}
    /\ pc = "rotate" => \A i \in DOMAIN files : files[i].name < clock
    /\ pc \in {"name", "clean", "open"} => \A i \in DOMAIN files : files[i].name < last
    /\ pc = "name" => clock < last + FileCost
    /\ pc \in {"clean", "open"} => last <= name /\ name < last + FileCost

LEMMA NameNext == TypeInv /\ NameInv /\ [Next]_vars => NameInv'
<1> SUFFICES ASSUME TypeInv, NameInv, [Next]_vars, Quiet'
             PROVE  NameInv'
  BY DEF NameInv
<1> USE DEF thread, disk, failures
<1>1. /\ clock \in Nat /\ last \in Nat /\ name \in Nat /\ kills \in Nat /\ reboots \in Nat
      /\ \A i \in DOMAIN files : files[i].name \in Nat
      /\ FlagsOK /\ FileCost \in Nat \ {0}
  BY TypeParts, FilesFinite, RecorderAssumption
     DEF TypeInv, CountsOK, ThreadOK, FileRecord
<1>2. CASE Kill \/ Reboot \/ SetClock
  <2>1. ~Quiet'
    BY <1>1, <1>2 DEF Kill, Reboot, SetClock, Quiet
  <2> QED
    BY <2>1
<1>3. CASE Tick
  <2>1. /\ Quiet /\ clock' = clock + 1 /\ UNCHANGED <<pc, held, last, name, files>>
        /\ pc = "name" => clock + 1 < last + FileCost
    BY <1>3 DEF Tick, Quiet
  <2> QED
    BY <1>1, <2>1 DEF NameInv
<1>4. ASSUME UNCHANGED <<pc, held, last, name, files, clock, clockSet, kills, reboots>>
      PROVE  NameInv'
  BY <1>4 DEF NameInv, Quiet
<1>5. CASE Produce \/ UNCHANGED vars
  BY <1>4, <1>5 DEF Produce, vars
<1>6. CASE Save
  <2>1. Quiet /\ clock' = clock
    <3>1. CASE StartSave \/ Top \/ Rotate \/ NameFile \/ DeleteFile
      BY <3>1 DEF StartSave, Top, Rotate, NameFile, DeleteFile, CleanUp, Quiet
    <3>2. CASE Open \/ OpenFails \/ Receive
      BY <3>2 DEF Open, OpenFails, Receive, Quiet
    <3>3. CASE Write \/ WriteShort \/ WriteAstray \/ WriteNowhere
      BY <3>3 DEF Write, WriteShort, WriteAstray, WriteNowhere, Quiet
    <3> QED
      BY <1>6, <3>1, <3>2, <3>3 DEF Save
  <2>2. CASE StartSave
    BY <1>1, <2>1, <2>2 DEF StartSave, NameInv
  <2>3. CASE Top
    <3>1. /\ pc = "top" /\ UNCHANGED <<last, name, files>>
          /\ \/ held /\ clock - last >= FileCost /\ ~held' /\ pc' = "rotate"
             \/ held /\ ~(clock - last >= FileCost) /\ held' /\ pc' = "recv"
             \/ ~held /\ ~held' /\ pc' = "rotate"
      BY <1>1, <2>3 DEF Top, FlagsOK
    <3>2. held /\ clock - last >= FileCost => \A i \in DOMAIN files : files[i].name < clock
      BY <1>1, <2>1 DEF NameInv
    <3> QED
      BY <1>1, <2>1, <3>1, <3>2 DEF NameInv
  <2>4. CASE Rotate
    <3>1. /\ pc = "rotate" /\ pc' = "name" /\ last' = clock /\ UNCHANGED <<name, files, held>>
      BY <2>4 DEF Rotate
    <3> QED
      BY <1>1, <2>1, <3>1 DEF NameInv
  <2>5. CASE NameFile
    <3>1. /\ pc = "name" /\ pc' = "clean" /\ name' = clock /\ UNCHANGED <<last, files, held>>
      BY <2>5 DEF NameFile
    <3> QED
      BY <1>1, <2>1, <3>1 DEF NameInv
  <2>6. CASE DeleteFile
    <3>1. pc = "clean" /\ pc' = "open" /\ UNCHANGED <<last, name, held>>
      BY <2>6 DEF DeleteFile, CleanUp
    <3>2. \A i \in DOMAIN files' : i \in DOMAIN files /\ files'[i].name = files[i].name
      BY <2>6, KeptFiles
    <3> QED
      BY <1>1, <2>1, <3>1, <3>2 DEF NameInv
  <2>7. CASE Open
    <3>1. pc = "open" /\ pc' = "recv" /\ held' = TRUE /\ UNCHANGED last
      BY <2>7 DEF Open
    <3>2. files'[created'].name = name
      BY <2>7, OpenedFiles
    <3>3. \A i \in DOMAIN files' : i # created' => i \in DOMAIN files /\ files'[i] = files[i]
      BY <2>7, OpenedFiles
    <3>4. \A i \in DOMAIN files' : files'[i].name < last + FileCost
      BY <2>1, <3>1, <3>2, <3>3 DEF NameInv
    <3> QED
      BY <2>1, <3>1, <3>4 DEF NameInv
  <2>8. CASE OpenFails
    <3>1. pc = "open" /\ pc' = "recv" /\ held' = TRUE /\ UNCHANGED <<last, files>>
      BY <2>8 DEF OpenFails
    <3> QED
      BY <2>1, <3>1 DEF NameInv
  <2>9. CASE Receive
    <3>1. pc = "recv" /\ pc' \in {"recv", "write"} /\ UNCHANGED <<held, last, files>>
      BY <2>9 DEF Receive
    <3> QED
      BY <2>1, <3>1 DEF NameInv
  <2>10. ASSUME pc = "write", pc' = "top", UNCHANGED <<held, last>>,
                DOMAIN files' = DOMAIN files,
                \A i \in DOMAIN files : files'[i].name = files[i].name
         PROVE  NameInv'
    BY <2>1, <2>10 DEF NameInv
  <2>11. ASSUME NEW n \in 0 .. Block, Appends(n), pc = "write", cur # 0,
                UNCHANGED <<held, last>>
         PROVE  NameInv'
    <3>1. pc' = "top"
      BY <2>11 DEF Appends, AppendToFile
    <3>2. /\ DOMAIN files' = DOMAIN files
          /\ \A i \in DOMAIN files : files'[i].name = files[i].name
      BY <2>11, WrittenFiles
    <3> QED
      BY <2>10, <2>11, <3>1, <3>2
  <2>12. CASE Write
    <3>1. PICK r \in BOOLEAN : r = FALSE
      OBVIOUS
    <3>2. AppendToFile(Block, r)
      BY <2>12, <3>1 DEF Write, AppendToFile
    <3>3. Appends(Block) /\ Block \in 0 .. Block
      BY <3>2, RecorderAssumption DEF Appends
    <3> QED
      BY <2>11, <2>12, <3>3 DEF Write
  <2>13. CASE WriteShort
    <3>1. PICK n \in 0 .. Block - 1, r \in BOOLEAN : AppendToFile(n, r)
      BY <2>13 DEF WriteShort
    <3>2. n \in 0 .. Block /\ Appends(n)
      BY <3>1, RecorderAssumption DEF Appends
    <3> QED
      BY <2>11, <2>13, <3>2 DEF WriteShort
  <2>15. CASE WriteAstray
    <3>1. GoesAstray /\ UNCHANGED <<held, last>> /\ pc = "write" /\ pc' = "top"
      BY <2>15 DEF WriteAstray, GoesAstray
    <3> QED
      BY <2>10, <3>1, StampedFiles
  <2>14. CASE WriteNowhere
    BY <2>10, <2>14 DEF WriteNowhere
  <2> QED
    BY <1>6, <2>2, <2>3, <2>4, <2>5, <2>6, <2>7, <2>8, <2>9, <2>12, <2>13, <2>14, <2>15 DEF Save
<1> QED
  BY <1>2, <1>3, <1>5, <1>6 DEF Next

LEMMA OpensNext ==
  ASSUME TypeInv, NameInv, [Next]_vars, pc = "open", Quiet
  PROVE  DOMAIN files \subseteq DOMAIN files'
<1>1. CASE Open
  <2>1. last <= name /\ \A i \in DOMAIN files : files[i].name < last
    BY DEF NameInv
  <2>2. \A i \in DOMAIN files : files[i].name \in Nat
    BY FilesFinite DEF FileRecord
  <2>3. last \in Nat /\ name \in Nat
    BY TypeParts DEF TypeInv, ThreadOK
  <2>4. \A i \in DOMAIN files : files[i].name # name
    BY <2>1, <2>2, <2>3
  <2> QED
    BY <1>1, <2>4, OpenedFiles
<1>2. CASE ~Open
  <2>1. Flow
    BY FlowNext
  <2>2. CASE ComesIn \/ GoesOn \/ GoesNowhere \/ GoesDown
    BY <2>2 DEF ComesIn, GoesOn, GoesNowhere, GoesDown
  <2>3. CASE AllGoesDown
    BY <2>3, CutFiles DEF AllGoesDown
  <2>4. CASE Stays
    BY <1>2, <2>4 DEF Stays, DeleteFile, CleanUp
  <2>5. ~GoesAstray /\ ~ \E n \in 0 .. Block : GoesOut(n)
    BY DEF GoesAstray, GoesOut
  <2> QED
    BY <2>1, <2>2, <2>3, <2>4, <2>5 DEF Flow
<1> QED
  BY <1>1, <1>2

(* As long as nobody sets the clock and nothing restarts, no file is       *)
(* emptied by opening one of the same name.                                *)
THEOREM NamesAreNew == Spec => OpensNewFile
<1>1. Init => NameInv
  <2> SUFFICES ASSUME Init
               PROVE  NameInv
    OBVIOUS
  <2>1. DOMAIN files = {} /\ pc = "start" /\ last = 0 /\ clock = 0
    BY EmptyRising, LenProperties DEF Init
  <2> QED
    BY <2>1 DEF NameInv
<1>2. TypeInv /\ NameInv /\ [Next]_vars => NameInv'
  BY NameNext
<1>3. TypeInv /\ NameInv /\ [Next]_vars =>
        [pc = "open" /\ clockSet = "no" /\ kills + reboots = 0
           => DOMAIN files \subseteq DOMAIN files']_vars
  BY OpensNext DEF Quiet
<1> QED
  BY <1>1, <1>2, <1>3, TypeInvariant, PTL DEF Spec, OpensNewFile

-----------------------------------------------------------------------------
(* The abstract log. *)

(* What waits, as the pieces of a sequence: the block leaves its front.    *)
LEMMA FrontLeaves ==
  ASSUME NEW b \in Seq(Nat), NEW q \in Seq(Nat), NEW n \in 0 .. Len(b)
  PROVE  /\ SubSeq(b \o q, 1, n) = SubSeq(b, 1, n)
         /\ SubSeq(b \o q, Len(b) + 1, Len(b \o q)) = q
         /\ Len(b \o q) >= Len(b)
<1>1. /\ b \o q \in Seq(Nat) /\ Len(b \o q) = Len(b) + Len(q)
      /\ Len(b) \in Nat /\ Len(q) \in Nat
      /\ \A i \in 1 .. Len(b) + Len(q) :
           (b \o q)[i] = IF i <= Len(b) THEN b[i] ELSE q[i - Len(b)]
      /\ \A i \in 1 .. Len(b) + Len(q) : (b \o q)[i] \in Nat
  BY ConcatProperties, LenProperties
<1>2. SubSeq(b \o q, 1, n) = SubSeq(b, 1, n)
  <2>1. CASE n = 0
    BY <2>1, SubSeqEmpty
  <2>2. CASE n # 0
    BY <1>1, <2>2, SubSeqOfConcat1
  <2> QED
    BY <2>1, <2>2
<1>3. SubSeq(b \o q, Len(b) + 1, Len(b) + Len(q)) = q
  <2>1. CASE Len(q) = 0
    <3>1. Len(b) + Len(q) < Len(b) + 1
      BY <1>1, <2>1
    <3>2. SubSeq(b \o q, Len(b) + 1, Len(b) + Len(q)) = <<>>
      BY <1>1, <3>1, SubSeqEmpty
    <3> QED
      BY <2>1, <3>2, EmptySeq
  <2>2. CASE Len(q) # 0
    <3>1. /\ Len(b) + 1 \in Len(b) + 1 .. Len(b) + Len(q)
          /\ Len(b) + Len(q) \in Len(b) + 1 .. Len(b) + Len(q)
          /\ (Len(b) + 1) - Len(b) = 1 /\ (Len(b) + Len(q)) - Len(b) = Len(q)
      BY <1>1, <2>2
    <3>2. SubSeq(b \o q, Len(b) + 1, Len(b) + Len(q)) = SubSeq(q, 1, Len(q))
      BY <3>1, SubSeqOfConcat2
    <3> QED
      BY <3>2, SubSeqFull
  <2> QED
    BY <2>1, <2>2
<1> QED
  BY <1>1, <1>2, <1>3

(* A frame that comes in joins the end; one that goes on to the thread     *)
(* keeps its place.                                                        *)
LEMMA Joins ==
  ASSUME NEW b \in Seq(Nat), NEW q \in Seq(Nat), NEW x \in Nat
  PROVE  b \o Append(q, x) = Append(b \o q, x)
<1>1. b \o q \in Seq(Nat) /\ <<x>> \in Seq(Nat)
  BY ConcatProperties
<1>2. Append(q, x) = q \o <<x>> /\ Append(b \o q, x) = (b \o q) \o <<x>>
  BY <1>1, AppendIsConcat
<1> QED
  BY <1>1, <1>2, ConcatAssociative

LEMMA KeepsPlace ==
  ASSUME NEW b \in Seq(Nat), NEW q \in Seq(Nat), q # <<>>
  PROVE  Append(b, Head(q)) \o Tail(q) = b \o q
<1> DEFINE h == Head(q)
           t == Tail(q)
<1>1. /\ h \in Nat /\ t \in Seq(Nat) /\ <<h>> \in Seq(Nat) /\ Len(q) \in Nat \ {0}
  BY HeadTailProperties, EmptySeq
<1>2. q = <<h>> \o t
  <2>1. SubSeq(q, 1, Len(q)) = <<q[1]>> \o SubSeq(q, 2, Len(q))
    BY <1>1, SubSeqRecursiveFirst
  <2>2. h = q[1]
    OBVIOUS
  <2> QED
    BY <2>1, <2>2, SubSeqFull, TailIsSubSeq
<1>3. Append(b, h) = b \o <<h>>
  BY <1>1, AppendIsConcat
<1> HIDE DEF h, t
<1>4. (b \o <<h>>) \o t = b \o (<<h>> \o t)
  BY <1>1, ConcatAssociative
<1> QED
  BY <1>2, <1>3, <1>4 DEF h, t

LEMMA LogNext ==
  ASSUME TypeInv, Flow
  PROVE  [Promise!Next]_(Promise!vars)
<1> DEFINE pending == block \o queue
<1>1. /\ queue \in Seq(Nat) /\ block \in Seq(Nat) /\ log \in Seq(Nat) /\ produced \in Nat
      /\ Len(block) \in Nat /\ Len(block) <= Block /\ Block \in Nat \ {0}
      /\ (pc = "write" => Len(block) = Block)
  BY TypeParts, LenProperties, RecorderAssumption DEF TypeInv, PipeOK, CountsOK
<1>2. <<>> \o queue = queue /\ <<>> \o <<>> = <<>> /\ log \o <<>> = log
  BY <1>1, ConcatEmptySeq, EmptySeq
<1>3. CASE ComesIn
  <2>1. pending' = Append(pending, produced)
    BY <1>1, <1>3, Joins DEF ComesIn
  <2> QED
    BY <1>3, <2>1 DEF ComesIn, Promise!Next, Promise!Accept
<1>4. CASE GoesOn
  <2>1. pending' = pending
    BY <1>1, <1>4, KeepsPlace DEF GoesOn
  <2> QED
    BY <1>4, <2>1 DEF GoesOn, Promise!vars
<1>5. ASSUME NEW n \in 0 .. Block, pc = "write", block' = <<>>,
             log' = log \o SubSeq(block, 1, n), UNCHANGED <<produced, queue>>
      PROVE  Promise!Next
  <2>1. /\ SubSeq(pending, 1, n) = SubSeq(block, 1, n)
        /\ SubSeq(pending, Block + 1, Len(pending)) = queue
        /\ Len(pending) >= Block
    <3>1. Len(block) = Block /\ n \in 0 .. Len(block)
      BY <1>1, <1>5
    <3> QED
      BY <1>1, <3>1, FrontLeaves
  <2>2. pending' = queue
    BY <1>2, <1>5
  <2> QED
    BY <1>5, <2>1, <2>2 DEF Promise!Next, Promise!Record
<1>6. ASSUME NEW n \in 0 .. Block, GoesOut(n)
      PROVE  Promise!Next
  BY <1>5, <1>6 DEF GoesOut
<1>7. CASE GoesAstray \/ GoesNowhere
  <2>1. SubSeq(block, 1, 0) = <<>>
    BY SubSeqEmpty
  <2>2. 0 \in 0 .. Block /\ log' = log \o SubSeq(block, 1, 0)
    BY <1>1, <1>2, <1>7, <2>1 DEF GoesAstray, GoesNowhere
  <2>3. pc = "write" /\ block' = <<>> /\ UNCHANGED <<produced, queue>>
    BY <1>7 DEF GoesAstray, GoesNowhere
  <2> QED
    BY <1>5, <2>2, <2>3
<1>8. CASE GoesDown
  <2>1. pending' = queue /\ UNCHANGED <<produced, log>>
    BY <1>2, <1>8 DEF GoesDown
  <2>2. CASE Len(block) = 0
    <3>1. pending = queue
      BY <1>1, <1>2, <2>2, EmptySeq
    <3> QED
      BY <2>1, <3>1 DEF Promise!vars
  <2>3. CASE Len(block) # 0
    <3>1. SubSeq(pending, Len(block) + 1, Len(pending)) = queue
      BY <1>1, FrontLeaves
    <3>2. Len(block) \in 1 .. Block
      BY <1>1, <2>3
    <3> QED
      BY <2>1, <3>1, <3>2 DEF Promise!Next, Promise!Forget
  <2> QED
    BY <2>2, <2>3
<1>9. CASE AllGoesDown
  BY <1>2, <1>9 DEF AllGoesDown, Promise!Next, Promise!Reset
<1>10. CASE Stays
  BY <1>10 DEF Stays, Promise!Next, Promise!Refuse, Promise!vars
<1> QED
  BY <1>3, <1>4, <1>6, <1>7, <1>8, <1>9, <1>10 DEF Flow

(* The recorder implements the lossy log, with the thread's block and the  *)
(* queue behind it as what waits.                                          *)
THEOREM KeepsALog == Spec => LogKept
<1>1. Init => Promise!Init
  <2>1. <<>> \o <<>> = <<>>
    BY ConcatEmptySeq, EmptySeq
  <2> QED
    BY <2>1 DEF Init, Promise!Init
<1>2. TypeInv /\ [Next]_vars => [Promise!Next]_(Promise!vars)
  BY FlowNext, LogNext
<1> QED
  BY <1>1, <1>2, TypeInvariant, PTL DEF Spec, LogKept, Promise!Spec

(* What is recorded is older than what is to come. *)
LogOrder == Rising(log) /\ Below(Range(log), Ahead)

LEMMA LogOrderNext == TypeInv /\ PipeOrder /\ LogOrder /\ Flow => LogOrder'
<1> SUFFICES ASSUME TypeInv, PipeOrder, LogOrder, Flow
             PROVE  LogOrder'
  OBVIOUS
<1>1. Ahead' \subseteq Ahead \cup {produced + 1} /\ produced \in Ahead /\ produced \in Nat
  BY AheadNext, PipeTypes DEF Ahead
<1>2. log \in Seq(Nat) /\ \A x \in Range(log) : x \in Nat /\ x < produced
  BY <1>1, Members, TypeParts DEF LogOrder, Below, TypeInv, PipeOK
<1>3. \A x \in Range(log), y \in Ahead' : x < y
  <2>1. \A x \in Range(log) : x < produced + 1
    BY <1>1, <1>2
  <2> QED
    BY <1>1, <2>1 DEF LogOrder, Below
<1>4. CASE \/ ComesIn \/ GoesOn \/ GoesAstray \/ GoesNowhere \/ GoesDown \/ AllGoesDown
           \/ Stays
  <2>1. log' = log
    BY <1>4 DEF ComesIn, GoesOn, GoesAstray, GoesNowhere, GoesDown, AllGoesDown, Stays
  <2> QED
    BY <1>3, <2>1 DEF LogOrder, Below
<1>5. ASSUME NEW n \in 0 .. Block, GoesOut(n)
      PROVE  LogOrder'
  <2> DEFINE b == SubSeq(block, 1, n)
  <2>1. b \in Seq(Nat) /\ Range(b) \subseteq Range(block) /\ Rising(b)
    BY <1>5, WritePrefix, TypeParts DEF GoesOut, TypeInv, PipeOrder
  <2>2. log' = log \o b /\ Ahead' = Range(queue) \cup {produced}
    BY <1>5, EmptyRising DEF GoesOut, Ahead
  <2> HIDE DEF b
  <2>3. Below(Range(log), Range(b)) /\ Rising(log)
    BY <2>1 DEF LogOrder, Below, Ahead
  <2>4. Rising(log') /\ Range(log') = Range(log) \cup Range(b)
    BY <1>2, <2>1, <2>2, <2>3, ConcatRising
  <2>5. \A x \in Range(b), y \in Ahead' : x < y
    BY <2>1, <2>2 DEF PipeOrder, Below
  <2> QED
    BY <1>3, <2>4, <2>5 DEF LogOrder, Below
<1> QED
  BY <1>4, <1>5 DEF Flow

(* No frame is recorded twice, and none out of order, even counting the    *)
(* files that are no longer there.                                         *)
THEOREM LogAscends == Spec => []Promise!Ascending
<1>1. Init => LogOrder
  BY EmptyRising DEF Init, LogOrder, Below
<1>2. TypeInv /\ PipeOrder /\ LogOrder /\ [Next]_vars => LogOrder'
  BY FlowNext, LogOrderNext
<1>3. LogOrder => Promise!Ascending
  BY DEF LogOrder, Rising, Promise!Ascending
<1> QED
  BY <1>1, <1>2, <1>3, TypeInvariant, OrderInvariant, PTL DEF Spec
=============================================================================
