---------------------------- MODULE CaptureProofs ----------------------------
(* Proofs about the acquisition loop, for every frame length, chip depth,   *)
(* skew between the writers, start of the chips and set of payload words    *)
(* that look like heads.                                                    *)
EXTENDS Capture, TLAPS

-----------------------------------------------------------------------------
(* Type correctness. *)

(* A round never finds an empty deque: each of the rounds before it has    *)
(* shed at most one word, and there were FrameLen of them.                 *)
Rounds ==
  pc = "find" =>
    /\ round < FrameLen
    /\ \A c \in Chan : Len(buf[c]) >= FrameLen - round

TypeInv == TypeOK /\ Rounds

(* What the deque operations do. *)
LEMMA PushFacts ==
  ASSUME NEW s \in Seq(Nat), NEW w \in Nat, Len(s) <= 2 * FrameLen
  PROVE  /\ Push(s, w) \in Seq(Nat)
         /\ Len(Push(s, w)) <= 2 * FrameLen
         /\ Len(s) < 2 * FrameLen =>
              /\ Len(Push(s, w)) = Len(s) + 1
              /\ \A i \in 1 .. Len(s) : Push(s, w)[i] = s[i]
              /\ Push(s, w)[Len(s) + 1] = w
         /\ Len(s) = 2 * FrameLen =>
              /\ Len(Push(s, w)) = Len(s)
              /\ \A i \in 1 .. Len(s) - 1 : Push(s, w)[i] = s[i + 1]
              /\ Push(s, w)[Len(s)] = w
<1> USE CaptureAssumption
<1>1. CASE Len(s) < 2 * FrameLen
  BY <1>1 DEF Push
<1>2. CASE Len(s) = 2 * FrameLen
  <2>1. s # <<>>
    BY <1>2
  <2>2. Tail(s) \in Seq(Nat) /\ Len(Tail(s)) = Len(s) - 1
    BY <2>1
  <2>3. \A i \in 1 .. Len(s) - 1 : Tail(s)[i] = s[i + 1]
    BY <2>1
  <2>4. Push(s, w) = Append(Tail(s), w)
    BY <1>2 DEF Push
  <2> QED
    BY <1>2, <2>2, <2>3, <2>4
<1> QED
  BY <1>1, <1>2

(* A frame cut off the front of a deque, and what stays behind. *)
LEMMA CutFacts ==
  ASSUME NEW s \in Seq(Nat), NEW k \in Nat \ {0}, k <= Len(s)
  PROVE  LET head == SubSeq(s, 1, k)
             rest == SubSeq(s, k + 1, Len(s))
         IN  /\ head \in Seq(Nat) /\ Len(head) = k
             /\ rest \in Seq(Nat) /\ Len(rest) = Len(s) - k
             /\ \A i \in 1 .. k : head[i] = s[i]
             /\ \A i \in 1 .. Len(s) - k : rest[i] = s[k + i]
<1> DEFINE n == Len(s)
<1>1. n \in Nat /\ k \in 1 .. n /\ \A i \in 1 .. n : s[i] \in Nat
  OBVIOUS
<1>2. /\ SubSeq(s, 1, k) \in Seq(Nat)
      /\ Len(SubSeq(s, 1, k)) = k
  BY <1>1, SMTT(30)
<1>3. \A i \in 1 .. k : SubSeq(s, 1, k)[i] = s[i]
  BY <1>1, SMTT(30)
<1>4. /\ SubSeq(s, k + 1, n) \in Seq(Nat)
      /\ Len(SubSeq(s, k + 1, n)) = n - k
  BY <1>1, SMTT(30)
<1>5. \A i \in 1 .. n - k : SubSeq(s, k + 1, n)[i] = s[k + i]
  BY <1>1, SMTT(30)
<1> QED
  BY <1>2, <1>3, <1>4, <1>5

LEMMA TypeInit == Init => TypeInv
<1> SUFFICES ASSUME Init
             PROVE  TypeInv
  OBVIOUS
<1> USE CaptureAssumption
<1>1. /\ written \in [Chan -> Nat]
      /\ fifo = [c \in Chan |-> <<>>]
      /\ buf = [c \in Chan |-> <<>>]
      /\ frame = [c \in Chan |-> <<>>]
      /\ emitted = 0 /\ round = 0 /\ pc = "readA"
  BY DEF Init
<1>2. /\ switch \in BOOLEAN /\ send \in BOOLEAN
      /\ lost \in BOOLEAN /\ dropped \in BOOLEAN
  BY DEF Init
<1>3. <<>> \in Seq(Nat) /\ Len(<<>>) = 0
  OBVIOUS
<1>4. \A c \in Chan : Len(fifo[c]) <= Depth /\ Len(buf[c]) <= 2 * FrameLen
  BY <1>1, <1>3
<1> QED
  BY <1>1, <1>2, <1>3, <1>4 DEF TypeInv, TypeOK, Rounds

LEMMA TypeNext == TypeInv /\ [Next]_vars => TypeInv'
<1> SUFFICES ASSUME TypeInv, [Next]_vars
             PROVE  TypeInv'
  OBVIOUS
<1> USE CaptureAssumption
<1> USE DEF TypeInv, TypeOK, Rounds
<1>1. ASSUME NEW c \in Chan, HwWrite(c)
      PROVE  TypeInv'
  <2>1. /\ Append(fifo[c], written[c]) \in Seq(Nat)
        /\ Len(Append(fifo[c], written[c])) <= Depth
    BY <1>1 DEF HwWrite
  <2>2. fifo' \in [Chan -> Seq(Nat)] /\ \A d \in Chan : Len(fifo'[d]) <= Depth
    BY <1>1, <2>1 DEF HwWrite
  <2>3. written' \in [Chan -> Nat]
    <3>1. written[c] + 1 \in Nat
      OBVIOUS
    <3> QED
      BY <1>1, <3>1 DEF HwWrite, Offer
  <2> QED
    BY <1>1, <2>2, <2>3 DEF HwWrite
<1>2. ASSUME NEW c \in Chan, HwLose(c)
      PROVE  TypeInv'
  <2>1. /\ written' \in [Chan -> Nat] /\ lost' \in BOOLEAN
        /\ UNCHANGED <<fifo, buf, frame, emitted, switch, send, pc, round,
                       dropped>>
    <3>1. written[c] + 1 \in Nat
      OBVIOUS
    <3> QED
      BY <1>2, <3>1 DEF HwLose, Offer
  <2> QED
    BY <2>1
<1>3. CASE Toggle
  BY <1>3 DEF Toggle, hw
<1>4. ASSUME NEW c \in Chan, NEW here, NEW next \in {"readB", "gate"},
             Read(c, here, next)
      PROVE  TypeInv'
  <2>1. CASE fifo[c] = <<>>
    BY <1>4, <2>1 DEF Read
  <2>2. CASE fifo[c] # <<>>
    <3>1. /\ Head(fifo[c]) \in Nat
          /\ Tail(fifo[c]) \in Seq(Nat)
          /\ Len(Tail(fifo[c])) <= Depth
      BY <2>2
    <3>2. /\ Push(buf[c], Head(fifo[c])) \in Seq(Nat)
          /\ Len(Push(buf[c], Head(fifo[c]))) <= 2 * FrameLen
      <4>1. buf[c] \in Seq(Nat) /\ Len(buf[c]) \in Nat
            /\ Len(buf[c]) <= 2 * FrameLen
        OBVIOUS
      <4> QED
        BY <3>1, <4>1, PushFacts
    <3> QED
      BY <1>4, <2>2, <3>1, <3>2 DEF Read
  <2> QED
    BY <2>1, <2>2
<1>5. CASE Gate
  BY <1>5 DEF Gate, BothHave, hw
<1>6. CASE FindHead
  <2>1. ASSUME NEW c \in Chan
        PROVE  /\ buf'[c] \in Seq(Nat)
               /\ Len(buf'[c]) <= 2 * FrameLen
               /\ Len(buf'[c]) >= Len(buf[c]) - 1
    <3>1. buf[c] # <<>>
      BY <1>6 DEF FindHead
    <3>2. Tail(buf[c]) \in Seq(Nat) /\ Len(Tail(buf[c])) = Len(buf[c]) - 1
      BY <3>1
    <3> QED
      BY <1>6, <3>2 DEF FindHead
  <2>2. buf' \in [Chan -> Seq(Nat)]
    BY <1>6, <2>1 DEF FindHead
  <2> QED
    BY <1>6, <2>1, <2>2 DEF FindHead, hw
<1>7. CASE EmitFrame
  <2>1. ASSUME NEW c \in Chan
        PROVE  /\ SubSeq(buf[c], 1, FrameLen) \in Seq(Nat)
               /\ SubSeq(buf[c], FrameLen + 1, Len(buf[c])) \in Seq(Nat)
               /\ Len(SubSeq(buf[c], FrameLen + 1, Len(buf[c]))) <= 2 * FrameLen
    <3>1. /\ buf[c] \in Seq(Nat) /\ Len(buf[c]) \in Nat
          /\ Len(buf[c]) <= 2 * FrameLen
      OBVIOUS
    <3>2. FrameLen <= Len(buf[c]) /\ FrameLen \in Nat \ {0}
      BY <1>7 DEF EmitFrame, BothHave
    <3>3. /\ SubSeq(buf[c], 1, FrameLen) \in Seq(Nat)
          /\ SubSeq(buf[c], FrameLen + 1, Len(buf[c])) \in Seq(Nat)
          /\ Len(SubSeq(buf[c], FrameLen + 1, Len(buf[c])))
               = Len(buf[c]) - FrameLen
      BY <3>1, <3>2, CutFacts, Zenon
    <3> HIDE DEF TypeInv, TypeOK, Rounds
    <3> QED
      BY <3>1, <3>2, <3>3
  <2> QED
    BY <1>7, <2>1 DEF EmitFrame, hw
<1>8. CASE NoFrame
  BY <1>8 DEF NoFrame, hw
<1>9. CASE Idle
  BY <1>9 DEF Idle, hw
<1>10. CASE UNCHANGED vars
  BY <1>10 DEF vars
<1> QED
  BY <1>1, <1>2, <1>3, <1>4, <1>5, <1>6, <1>7, <1>8, <1>9, <1>10
     DEF Next, Loop, ReadA, ReadB, Chan

LEMMA TypeInvariant == Spec => []TypeInv
<1>1. Init => TypeInv
  BY TypeInit
<1>2. TypeInv /\ [Next]_vars => TypeInv'
  BY TypeNext
<1> QED
  BY <1>1, <1>2, PTL DEF Spec

(* Every state is type-correct; in particular no round of "find head"      *)
(* looks at the front of an empty deque.                                   *)
THEOREM TypeCorrect == Spec => []TypeOK
<1>1. TypeInv => TypeOK
  BY DEF TypeInv
<1> QED
  BY <1>1, TypeInvariant, PTL

-----------------------------------------------------------------------------
(* As long as no chip has overflowed, chip and deque together hold an      *)
(* unbroken run of the words that end before written[c].                   *)

ReadPos(c) == written[c] - Len(fifo[c])

Base(c) == ReadPos(c) - Len(buf[c])

FifoRun(c) == \A i \in 1 .. Len(fifo[c]) : fifo[c][i] = ReadPos(c) + i - 1

BufRun(c) == \A i \in 1 .. Len(buf[c]) : buf[c][i] = Base(c) + i - 1

Runs == ~lost => \A c \in Chan : FifoRun(c) /\ BufRun(c)

RunInv == TypeInv /\ Runs

(* What reading chip c does to the run of the channel. *)
LEMMA ReadKeepsRun ==
  ASSUME RunInv, ~lost, NEW c \in Chan, NEW here, NEW next, Read(c, here, next)
  PROVE  /\ FifoRun(c)' /\ BufRun(c)'
         /\ fifo[c] = <<>> =>
              Len(fifo'[c]) = Len(fifo[c]) /\ Len(buf'[c]) = Len(buf[c])
         /\ fifo[c] # <<>> => Len(fifo'[c]) = Len(fifo[c]) - 1
         /\ fifo[c] # <<>> /\ Len(buf[c]) < 2 * FrameLen =>
              Len(buf'[c]) = Len(buf[c]) + 1 /\ Base(c)' = Base(c)
         /\ fifo[c] # <<>> /\ Len(buf[c]) = 2 * FrameLen => dropped'
<1> USE CaptureAssumption
<1>1. /\ fifo \in [Chan -> Seq(Nat)] /\ buf \in [Chan -> Seq(Nat)]
      /\ Len(buf[c]) <= 2 * FrameLen /\ written \in [Chan -> Nat]
      /\ dropped \in BOOLEAN
  BY DEF RunInv, TypeInv, TypeOK
<1>2. FifoRun(c) /\ BufRun(c) /\ written' = written
  BY DEF RunInv, Runs, Read
<1>3. CASE fifo[c] = <<>>
  <2>1. UNCHANGED <<fifo, buf>>
    BY <1>3 DEF Read
  <2> QED
    BY <1>2, <1>3, <2>1 DEF FifoRun, BufRun, Base, ReadPos
<1>4. CASE fifo[c] # <<>>
  <2> DEFINE w == Head(fifo[c])
  <2>1. /\ fifo'[c] = Tail(fifo[c])
        /\ buf'[c] = Push(buf[c], w)
        /\ dropped' = (dropped \/ Len(buf[c]) + 1 > 2 * FrameLen)
    BY <1>1, <1>4 DEF Read
  <2>2. /\ Len(fifo[c]) >= 1 /\ w = fifo[c][1] /\ w \in Nat
        /\ Len(fifo'[c]) = Len(fifo[c]) - 1
        /\ \A i \in 1 .. Len(fifo'[c]) : fifo'[c][i] = fifo[c][i + 1]
    BY <1>1, <1>4, <2>1
  <2>3. w = ReadPos(c)
    BY <1>1, <1>2, <2>2 DEF FifoRun, ReadPos
  <2>4. ReadPos(c)' = ReadPos(c) + 1
    BY <1>1, <1>2, <2>2 DEF ReadPos
  <2>5. FifoRun(c)'
    <3> SUFFICES ASSUME NEW i \in 1 .. Len(fifo'[c])
                 PROVE  fifo'[c][i] = ReadPos(c)' + i - 1
      BY DEF FifoRun
    <3>1. i + 1 \in 1 .. Len(fifo[c])
      BY <1>1, <2>2
    <3>2. fifo[c][i + 1] = ReadPos(c) + (i + 1) - 1
      BY <1>2, <3>1 DEF FifoRun
    <3> QED
      BY <1>1, <2>2, <2>4, <3>1, <3>2 DEF ReadPos
  <2> HIDE DEF w
  <2>6. CASE Len(buf[c]) < 2 * FrameLen
    <3>1. /\ Len(buf'[c]) = Len(buf[c]) + 1
          /\ \A i \in 1 .. Len(buf[c]) : buf'[c][i] = buf[c][i]
          /\ buf'[c][Len(buf[c]) + 1] = w
      <4>1. buf[c] \in Seq(Nat) /\ w \in Nat /\ Len(buf[c]) <= 2 * FrameLen
        BY <1>1, <2>2
      <4>2. /\ Len(Push(buf[c], w)) = Len(buf[c]) + 1
            /\ \A i \in 1 .. Len(buf[c]) : Push(buf[c], w)[i] = buf[c][i]
            /\ Push(buf[c], w)[Len(buf[c]) + 1] = w
        BY <2>6, <4>1, PushFacts, Zenon
      <4> QED
        BY <2>1, <4>2, Zenon
    <3>2. Base(c)' = Base(c) /\ Base(c) \in Int /\ w = Base(c) + Len(buf[c])
      <4> DEFINE p == written[c]
                 f == Len(fifo[c])
                 b == Len(buf[c])
                 p2 == written'[c]
                 f2 == Len(fifo'[c])
                 b2 == Len(buf'[c])
      <4>1. p \in Nat /\ f \in Nat /\ b \in Nat
        BY <1>1
      <4>2. p2 = p /\ f2 = f - 1 /\ b2 = b + 1
        BY <1>2, <2>2, <3>1
      <4>3. w = p - f
        BY <2>3 DEF ReadPos
      <4>4. Base(c) = p - f - b /\ Base(c)' = p2 - f2 - b2
        BY DEF Base, ReadPos
      <4> HIDE DEF p, f, b, p2, f2, b2
      <4>5. /\ Base(c)' = Base(c) /\ Base(c) \in Int
            /\ w = Base(c) + b
        BY <4>1, <4>2, <4>3, <4>4
      <4> QED
        BY <4>5 DEF b
    <3>3. BufRun(c)'
      <4> SUFFICES ASSUME NEW i \in 1 .. Len(buf'[c])
                   PROVE  buf'[c][i] = Base(c)' + i - 1
        BY DEF BufRun
      <4>1. CASE i \in 1 .. Len(buf[c])
        BY <1>2, <3>1, <3>2, <4>1 DEF BufRun
      <4>2. CASE i = Len(buf[c]) + 1
        BY <1>1, <3>1, <3>2, <4>2
      <4> QED
        BY <1>1, <3>1, <4>1, <4>2
    <3> QED
      BY <1>1, <1>4, <2>2, <2>5, <2>6, <3>1, <3>2, <3>3
  <2>7. CASE Len(buf[c]) = 2 * FrameLen
    <3>1. /\ Len(buf'[c]) = Len(buf[c])
          /\ \A i \in 1 .. Len(buf[c]) - 1 : buf'[c][i] = buf[c][i + 1]
          /\ buf'[c][Len(buf[c])] = w
      <4>1. buf[c] \in Seq(Nat) /\ w \in Nat /\ Len(buf[c]) <= 2 * FrameLen
        BY <1>1, <2>2
      <4>2. /\ Len(Push(buf[c], w)) = Len(buf[c])
            /\ \A i \in 1 .. Len(buf[c]) - 1 : Push(buf[c], w)[i] = buf[c][i + 1]
            /\ Push(buf[c], w)[Len(buf[c])] = w
        BY <2>7, <4>1, PushFacts, Zenon
      <4> QED
        BY <2>1, <4>2, Zenon
    <3>2. /\ Base(c)' = Base(c) + 1 /\ Base(c) \in Int
          /\ w = Base(c) + Len(buf[c])
      <4> DEFINE p == written[c]
                 f == Len(fifo[c])
                 b == Len(buf[c])
                 p2 == written'[c]
                 f2 == Len(fifo'[c])
                 b2 == Len(buf'[c])
      <4>1. p \in Nat /\ f \in Nat /\ b \in Nat
        BY <1>1
      <4>2. p2 = p /\ f2 = f - 1 /\ b2 = b
        BY <1>2, <2>2, <3>1
      <4>3. w = p - f
        BY <2>3 DEF ReadPos
      <4>4. Base(c) = p - f - b /\ Base(c)' = p2 - f2 - b2
        BY DEF Base, ReadPos
      <4> HIDE DEF p, f, b, p2, f2, b2
      <4>5. /\ Base(c)' = Base(c) + 1 /\ Base(c) \in Int
            /\ w = Base(c) + b
        BY <4>1, <4>2, <4>3, <4>4
      <4> QED
        BY <4>5 DEF b
    <3>3. BufRun(c)'
      <4> SUFFICES ASSUME NEW i \in 1 .. Len(buf'[c])
                   PROVE  buf'[c][i] = Base(c)' + i - 1
        BY DEF BufRun
      <4>1. CASE i \in 1 .. Len(buf[c]) - 1
        <5>1. i + 1 \in 1 .. Len(buf[c])
          BY <1>1, <4>1
        <5>2. buf[c][i + 1] = Base(c) + (i + 1) - 1
          BY <1>2, <5>1 DEF BufRun
        <5>3. buf'[c][i] = buf[c][i + 1]
          BY <3>1, <4>1
        <5>4. Base(c) + (i + 1) - 1 = Base(c) + 1 + i - 1
          BY <3>2, <4>1
        <5>5. Base(c)' = Base(c) + 1
          BY <3>2
        <5> QED
          BY <5>2, <5>3, <5>4, <5>5, Zenon
      <4>2. CASE i = Len(buf[c])
        <5>1. Len(buf[c]) \in Nat
          BY <1>1
        <5>2. buf'[c][i] = w /\ w = Base(c) + i
          BY <3>1, <3>2, <4>2
        <5>3. Base(c)' = Base(c) + 1 /\ Base(c) \in Int
          BY <3>2
        <5>4. Base(c) + i = Base(c) + 1 + i - 1
          BY <4>2, <5>1, <5>3
        <5> QED
          BY <5>2, <5>3, <5>4
      <4> QED
        BY <1>1, <3>1, <4>1, <4>2
    <3>4. dropped'
      <4>1. Len(buf[c]) + 1 > 2 * FrameLen
        BY <1>1, <2>7
      <4> QED
        BY <2>1, <4>1
    <3> QED
      BY <1>1, <1>4, <2>2, <2>5, <2>7, <3>3, <3>4
  <2> QED
    BY <1>1, <2>6, <2>7
<1> QED
  BY <1>3, <1>4

(* What a round of the search does to the run of a channel. *)
LEMMA RoundKeepsRun ==
  ASSUME RunInv, ~lost, FindHead, NEW c \in Chan
  PROVE  /\ Len(buf[c]) >= 1 /\ buf[c][1] = Base(c) /\ Base(c) \in Nat
         /\ FifoRun(c)' /\ BufRun(c)'
         /\ IsHead(Base(c)) => Len(buf'[c]) = Len(buf[c]) /\ Base(c)' = Base(c)
         /\ ~IsHead(Base(c)) =>
              Len(buf'[c]) = Len(buf[c]) - 1 /\ Base(c)' = Base(c) + 1
<1> USE CaptureAssumption
<1>1. /\ fifo \in [Chan -> Seq(Nat)] /\ buf \in [Chan -> Seq(Nat)]
      /\ written \in [Chan -> Nat]
  BY DEF RunInv, TypeInv, TypeOK
<1>2. FifoRun(c) /\ BufRun(c)
  BY DEF RunInv, Runs
<1>3. Len(buf[c]) >= 1
  BY <1>1 DEF RunInv, TypeInv, Rounds, TypeOK, FindHead
<1>4. buf[c][1] = Base(c) /\ Base(c) \in Nat
  <2>1. Base(c) \in Int
    BY <1>1 DEF Base, ReadPos
  <2>2. 1 \in 1 .. Len(buf[c]) /\ buf[c][1] \in Nat
    BY <1>1, <1>3
  <2>3. buf[c][1] = Base(c) + 1 - 1
    BY <1>2, <2>2 DEF BufRun
  <2> QED
    BY <2>1, <2>2, <2>3
<1>5. UNCHANGED <<written, fifo>>
  BY DEF FindHead, hw
<1>6. ReadPos(c)' = ReadPos(c) /\ ReadPos(c) \in Int /\ FifoRun(c)'
  <2>1. ReadPos(c)' = ReadPos(c)
    BY <1>5 DEF ReadPos
  <2>2. ReadPos(c) \in Int
    BY <1>1 DEF ReadPos
  <2>3. FifoRun(c)'
    BY <1>2, <1>5, <2>1 DEF FifoRun
  <2> QED
    BY <2>1, <2>2, <2>3
<1>7. CASE IsHead(Base(c))
  <2>1. buf'[c] = buf[c]
    BY <1>4, <1>7 DEF FindHead
  <2>2. Base(c)' = Base(c)
    BY <1>6, <2>1 DEF Base
  <2>3. BufRun(c)'
    BY <1>2, <2>1, <2>2 DEF BufRun
  <2> QED
    BY <1>3, <1>4, <1>6, <1>7, <2>1, <2>2, <2>3
<1>8. CASE ~IsHead(Base(c))
  <2>1. buf'[c] = Tail(buf[c])
    BY <1>4, <1>8 DEF FindHead
  <2>2. /\ Len(buf'[c]) = Len(buf[c]) - 1
        /\ \A i \in 1 .. Len(buf[c]) - 1 : buf'[c][i] = buf[c][i + 1]
    BY <1>1, <1>3, <2>1
  <2>3. Base(c)' = Base(c) + 1
    BY <1>1, <1>6, <2>2 DEF Base
  <2>4. BufRun(c)'
    <3> SUFFICES ASSUME NEW i \in 1 .. Len(buf'[c])
                 PROVE  buf'[c][i] = Base(c)' + i - 1
      BY DEF BufRun
    <3>1. i \in 1 .. Len(buf[c]) - 1 /\ i + 1 \in 1 .. Len(buf[c])
      BY <1>1, <2>2
    <3>2. buf[c][i + 1] = Base(c) + (i + 1) - 1
      BY <1>2, <3>1 DEF BufRun
    <3> QED
      BY <1>4, <2>2, <2>3, <3>1, <3>2
  <2> QED
    BY <1>3, <1>4, <1>6, <1>8, <2>2, <2>3, <2>4
<1> QED
  BY <1>7, <1>8

(* What merging a frame does to the run of a channel. *)
LEMMA EmitKeepsRun ==
  ASSUME RunInv, ~lost, EmitFrame, NEW c \in Chan
  PROVE  /\ FifoRun(c)' /\ BufRun(c)'
         /\ Len(buf'[c]) = Len(buf[c]) - FrameLen
         /\ Base(c) \in Nat
         /\ Base(c)' = Base(c) + FrameLen
         /\ frame'[c] = [i \in 1 .. FrameLen |-> Base(c) + i - 1]
<1> USE CaptureAssumption
<1>1. /\ fifo \in [Chan -> Seq(Nat)] /\ buf \in [Chan -> Seq(Nat)]
      /\ written \in [Chan -> Nat]
  BY DEF RunInv, TypeInv, TypeOK
<1>2. FifoRun(c) /\ BufRun(c)
  BY DEF RunInv, Runs
<1>3. /\ Len(buf[c]) >= FrameLen /\ UNCHANGED <<written, fifo>>
      /\ frame'[c] = SubSeq(buf[c], 1, FrameLen)
      /\ buf'[c] = SubSeq(buf[c], FrameLen + 1, Len(buf[c]))
  BY DEF EmitFrame, BothHave, hw
<1>4. ReadPos(c)' = ReadPos(c) /\ ReadPos(c) \in Int /\ FifoRun(c)'
  <2>1. ReadPos(c)' = ReadPos(c)
    BY <1>3 DEF ReadPos
  <2>2. ReadPos(c) \in Int
    BY <1>1 DEF ReadPos
  <2>3. FifoRun(c)'
    BY <1>2, <1>3, <2>1 DEF FifoRun
  <2> QED
    BY <2>1, <2>2, <2>3
<1>5. Base(c) \in Nat
  <2>1. Base(c) \in Int
    BY <1>1 DEF Base, ReadPos
  <2>2. 1 \in 1 .. Len(buf[c]) /\ buf[c][1] \in Nat
    BY <1>1, <1>3
  <2>3. buf[c][1] = Base(c) + 1 - 1
    BY <1>2, <2>2 DEF BufRun
  <2> QED
    BY <2>1, <2>2, <2>3
<1>6. /\ Len(buf'[c]) = Len(buf[c]) - FrameLen
      /\ \A i \in 1 .. Len(buf'[c]) : buf'[c][i] = buf[c][FrameLen + i]
  BY <1>1, <1>3
<1>7. Base(c)' = Base(c) + FrameLen
  BY <1>1, <1>4, <1>6 DEF Base
<1>8. BufRun(c)'
  <2> SUFFICES ASSUME NEW i \in 1 .. Len(buf'[c])
               PROVE  buf'[c][i] = Base(c)' + i - 1
    BY DEF BufRun
  <2>1. FrameLen + i \in 1 .. Len(buf[c])
    <3>1. i \in 1 .. Len(buf[c]) - FrameLen
      BY <1>6
    <3>2. Len(buf[c]) \in Nat /\ FrameLen \in Nat
      BY <1>1
    <3> QED
      BY <3>1, <3>2
  <2>2. buf[c][FrameLen + i] = Base(c) + (FrameLen + i) - 1
    BY <1>2, <2>1 DEF BufRun
  <2> QED
    BY <1>5, <1>6, <1>7, <2>2
<1>9. frame'[c] = [i \in 1 .. FrameLen |-> Base(c) + i - 1]
  <2>1. SubSeq(buf[c], 1, FrameLen) = [i \in 1 .. FrameLen |-> buf[c][i]]
    BY <1>1, <1>3
  <2>2. \A i \in 1 .. FrameLen : buf[c][i] = Base(c) + i - 1
    BY <1>1, <1>2, <1>3 DEF BufRun
  <2> QED
    BY <1>3, <2>1, <2>2
<1> QED
  BY <1>4, <1>5, <1>6, <1>7, <1>8, <1>9

LEMMA RunInit == Init => RunInv
<1> SUFFICES ASSUME Init
             PROVE  RunInv
  OBVIOUS
<1>1. \A c \in Chan : Len(fifo[c]) = 0 /\ Len(buf[c]) = 0
  BY DEF Init
<1>2. Runs
  BY <1>1 DEF Runs, FifoRun, BufRun
<1> QED
  BY <1>2, TypeInit DEF RunInv

(* The words of a chip follow each other when the writer adds one. *)
LEMMA WriteKeepsRun ==
  ASSUME RunInv, ~lost, NEW c \in Chan, HwWrite(c)
  PROVE  /\ FifoRun(c)'
         /\ \A d \in Chan : ReadPos(d)' = ReadPos(d)
<1>1. /\ fifo \in [Chan -> Seq(Nat)] /\ written \in [Chan -> Nat]
      /\ fifo' = [fifo EXCEPT ![c] = Append(@, written[c])]
      /\ written' = [written EXCEPT ![c] = @ + 1]
  BY DEF RunInv, TypeInv, TypeOK, HwWrite, Offer
<1>2. FifoRun(c)
  BY DEF RunInv, Runs
<1>3. /\ Len(fifo'[c]) = Len(fifo[c]) + 1
      /\ \A i \in 1 .. Len(fifo[c]) : fifo'[c][i] = fifo[c][i]
      /\ fifo'[c][Len(fifo[c]) + 1] = written[c]
  BY <1>1
<1>4. ASSUME NEW d \in Chan
      PROVE  ReadPos(d)' = ReadPos(d)
  <2>1. CASE d = c
    BY <1>1, <1>3, <2>1 DEF ReadPos
  <2>2. CASE d # c
    BY <1>1, <2>2 DEF ReadPos
  <2> QED
    BY <2>1, <2>2
<1>5. FifoRun(c)'
  <2> SUFFICES ASSUME NEW i \in 1 .. Len(fifo'[c])
               PROVE  fifo'[c][i] = ReadPos(c) + i - 1
    BY <1>4 DEF FifoRun
  <2>1. CASE i \in 1 .. Len(fifo[c])
    BY <1>2, <1>3, <2>1 DEF FifoRun
  <2>2. CASE i = Len(fifo[c]) + 1
    BY <1>1, <1>3, <2>2 DEF ReadPos
  <2> QED
    BY <1>1, <1>3, <2>1, <2>2
<1> QED
  BY <1>4, <1>5

LEMMA RunNext == RunInv /\ [Next]_vars => RunInv'
<1> SUFFICES ASSUME RunInv, [Next]_vars
             PROVE  RunInv'
  OBVIOUS
<1>1. TypeInv'
  BY TypeNext DEF RunInv
<1> SUFFICES ASSUME ~lost'
             PROVE  \A d \in Chan : FifoRun(d)' /\ BufRun(d)'
  BY <1>1 DEF RunInv, Runs
<1>2. TypeOK /\ (lost \in BOOLEAN)
  BY DEF RunInv, TypeInv, TypeOK
<1>3. ~lost
  BY <1>2 DEF Next, vars, hw, HwWrite, HwLose, Toggle, Loop, ReadA, ReadB,
             Read, Gate, FindHead, EmitFrame, NoFrame, Idle
<1>4. \A d \in Chan : FifoRun(d) /\ BufRun(d)
  BY <1>3 DEF RunInv, Runs
<1>5. ASSUME NEW d \in Chan, written'[d] = written[d], fifo'[d] = fifo[d],
             buf'[d] = buf[d]
      PROVE  FifoRun(d)' /\ BufRun(d)'
  BY <1>4, <1>5 DEF FifoRun, BufRun, Base, ReadPos
<1>6. ASSUME NEW c \in Chan, HwWrite(c)
      PROVE  \A d \in Chan : FifoRun(d)' /\ BufRun(d)'
  <2>1. /\ FifoRun(c)'
        /\ \A d \in Chan : ReadPos(d)' = ReadPos(d)
    BY <1>3, <1>6, WriteKeepsRun
  <2>2. UNCHANGED buf /\ \A d \in Chan \ {c} : fifo'[d] = fifo[d]
    BY <1>2, <1>6 DEF HwWrite, TypeOK
  <2>3. \A d \in Chan : BufRun(d)'
    BY <1>4, <2>1, <2>2 DEF BufRun, Base
  <2>4. \A d \in Chan \ {c} : FifoRun(d)'
    BY <1>4, <2>1, <2>2 DEF FifoRun
  <2> QED
    BY <2>1, <2>3, <2>4
<1>7. ASSUME NEW c \in Chan, HwLose(c)
      PROVE  FALSE
  BY <1>7 DEF HwLose
<1>8. ASSUME NEW c \in Chan, NEW here, NEW next, Read(c, here, next)
      PROVE  \A d \in Chan : FifoRun(d)' /\ BufRun(d)'
  <2>1. FifoRun(c)' /\ BufRun(c)'
    BY <1>3, <1>8, ReadKeepsRun
  <2>2. ASSUME NEW d \in Chan \ {c}
        PROVE  FifoRun(d)' /\ BufRun(d)'
    <3>1. written' = written /\ fifo'[d] = fifo[d] /\ buf'[d] = buf[d]
      BY <1>2, <1>8 DEF Read, TypeOK
    <3> QED
      BY <1>5, <3>1
  <2> QED
    BY <2>1, <2>2
<1>9. CASE FindHead
  BY <1>3, <1>9, RoundKeepsRun
<1>10. CASE EmitFrame
  BY <1>3, <1>10, EmitKeepsRun
<1>11. CASE Toggle \/ Gate \/ NoFrame \/ Idle \/ UNCHANGED vars
  <2>1. UNCHANGED <<written, fifo, buf>>
    BY <1>11 DEF Toggle, Gate, NoFrame, Idle, vars, hw
  <2> QED
    BY <1>5, <2>1
<1> QED
  BY <1>6, <1>7, <1>8, <1>9, <1>10, <1>11
     DEF Next, Loop, ReadA, ReadB, Chan

LEMMA RunInvariant == Spec => []RunInv
<1>1. Init => RunInv
  BY RunInit
<1>2. RunInv /\ [Next]_vars => RunInv'
  BY RunNext
<1> QED
  BY <1>1, <1>2, PTL DEF Spec

-----------------------------------------------------------------------------
(* Heads are FrameLen words apart. *)

LEMMA Division ==
  ASSUME NEW b \in Int, NEW d \in Nat \ {0}
  PROVE  /\ b % d \in 0 .. d - 1
         /\ b \div d \in Int
         /\ b = d * (b \div d) + (b % d)
<1>1. b % d \in 0 .. d - 1
  OBVIOUS
<1>2. b \div d \in Int
  OBVIOUS
<1>3. b = d * (b \div d) + (b % d)
  OBVIOUS
<1> QED
  BY <1>1, <1>2, <1>3

LEMMA Multiple ==
  ASSUME NEW q \in Int, NEW d \in Nat \ {0}
  PROVE  (d * q) % d = 0
OBVIOUS

LEMMA HeadStep ==
  ASSUME NEW w \in Nat, w % FrameLen = 0
  PROVE  (w + FrameLen) % FrameLen = 0
<1>1. FrameLen \in Nat \ {0}
  BY CaptureAssumption
<1> DEFINE q == w \div FrameLen
<1>2. q \in Int /\ w = FrameLen * q + 0
  BY <1>1, Division
<1> HIDE DEF q
<1>3. w + FrameLen = FrameLen * (q + 1) /\ q + 1 \in Int
  BY <1>1, <1>2
<1>4. (FrameLen * (q + 1)) % FrameLen = 0
  BY <1>1, <1>3, Multiple
<1> QED
  BY <1>3, <1>4

(* One of any FrameLen consecutive words is a head. *)
LEMMA HeadNear ==
  ASSUME NEW b \in Int
  PROVE  \E i \in 1 .. FrameLen : (b - i) % FrameLen = 0
<1>1. FrameLen \in Nat \ {0}
  BY CaptureAssumption
<1> DEFINE q == b \div FrameLen
           r == b % FrameLen
<1>2. r \in 0 .. FrameLen - 1 /\ q \in Int /\ b = FrameLen * q + r
  BY <1>1, Division
<1> HIDE DEF q, r
<1>3. CASE r = 0
  <2>1. b - FrameLen = FrameLen * (q - 1) /\ q - 1 \in Int
    BY <1>1, <1>2, <1>3
  <2>2. (FrameLen * (q - 1)) % FrameLen = 0
    BY <1>1, <2>1, Multiple
  <2>3. (b - FrameLen) % FrameLen = 0
    BY <2>1, <2>2
  <2>4. FrameLen \in 1 .. FrameLen
    BY <1>1
  <2> QED
    BY <2>3, <2>4
<1>4. CASE r # 0
  <2>1. r \in 1 .. FrameLen
    BY <1>1, <1>2, <1>4
  <2>2. b - r = FrameLen * q
    BY <1>1, <1>2
  <2>3. (FrameLen * q) % FrameLen = 0
    BY <1>1, <1>2, Multiple
  <2>4. (b - r) % FrameLen = 0
    BY <2>2, <2>3
  <2> QED
    BY <2>1, <2>4
<1> QED
  BY <1>3, <1>4

-----------------------------------------------------------------------------
(* Whole frames. *)

(* While a head is looked for, each deque either has one at its front, or  *)
(* has shed a word that is none in every round so far.                     *)
Searched(c) ==
  \/ Len(buf[c]) >= 1 /\ Base(c) % FrameLen = 0
  \/ \A i \in 1 .. round : (Base(c) - i) % FrameLen # 0

Search ==
  /\ pc \in {"find", "frame"} /\ ~lost => \A c \in Chan : Searched(c)
  /\ pc = "frame" => round = FrameLen

WholeInv == RunInv /\ Search /\ WholeFrame

(* Without payload words that look like heads, merging starts at a head. *)
LEMMA MergedAtHead ==
  ASSUME WholeInv, ~lost, EmitFrame, NEW c \in Chan
  PROVE  Base(c) % FrameLen = 0
<1>1. Searched(c) /\ round = FrameLen
  BY DEF WholeInv, Search, EmitFrame
<1>2. Base(c) \in Nat
  BY EmitKeepsRun DEF WholeInv
<1>3. \E i \in 1 .. FrameLen : (Base(c) - i) % FrameLen = 0
  <2>1. Base(c) \in Int
    BY <1>2
  <2> QED
    BY <2>1, HeadNear, Zenon
<1> QED
  BY <1>1, <1>3 DEF Searched

(* What is merged is Whole. *)
LEMMA RunIsWhole ==
  ASSUME NEW b \in Nat, b % FrameLen = 0, NEW s,
         s = [i \in 1 .. FrameLen |-> b + i - 1]
  PROVE  Whole(s)
<1> USE CaptureAssumption
<1>1. Len(s) = FrameLen
  OBVIOUS
<1>2. s[1] = b
  OBVIOUS
<1>3. \A i \in 1 .. FrameLen : s[i] = s[1] + i - 1
  BY <1>2
<1> QED
  BY <1>1, <1>2, <1>3 DEF Whole

LEMMA SearchNext ==
  ASSUME Alias = {}, WholeInv, [Next]_vars
  PROVE  Search'
<1> USE CaptureAssumption
<1>1. RunInv /\ RunInv' /\ Search /\ TypeOK /\ TypeOK'
  BY RunNext DEF WholeInv, RunInv, TypeInv
<1>2. ASSUME pc' \in {"find", "frame"}, ~lost'
      PROVE  ~lost
  BY <1>1, <1>2
     DEF TypeOK, Next, vars, hw, HwWrite, HwLose, Toggle, Loop, ReadA, ReadB,
         Read, Gate, FindHead, EmitFrame, NoFrame, Idle
<1>3. ASSUME NEW c \in Chan, HwWrite(c)
      PROVE  Search'
  <2>1. UNCHANGED <<pc, round, buf, lost>>
    BY <1>3 DEF HwWrite
  <2>2. ~lost => \A d \in Chan : ReadPos(d)' = ReadPos(d)
    BY <1>1, <1>3, WriteKeepsRun
  <2>3. ~lost => \A d \in Chan : Base(d)' = Base(d)
    BY <2>1, <2>2 DEF Base
  <2> QED
    BY <1>1, <2>1, <2>3 DEF Search, Searched
<1>4. ASSUME NEW c \in Chan, HwLose(c)
      PROVE  Search'
  BY <1>1, <1>4 DEF HwLose, Search
<1>5. CASE ReadA \/ ReadB \/ EmitFrame \/ NoFrame \/ Idle
  <2>1. pc' \notin {"find", "frame"}
    BY <1>5 DEF ReadA, ReadB, Read, EmitFrame, NoFrame, Idle
  <2> QED
    BY <2>1 DEF Search
<1>6. CASE Gate
  <2>1. round' = 0 /\ pc' # "frame"
    BY <1>6 DEF Gate
  <2> QED
    BY <2>1 DEF Search, Searched
<1>7. CASE FindHead
  <2>1. /\ pc = "find" /\ round' = round + 1 /\ round \in Nat
        /\ pc' = "frame" => round' = FrameLen
        /\ lost' = lost
    BY <1>1, <1>7 DEF FindHead, hw, TypeOK
  <2>2. ASSUME ~lost, NEW c \in Chan
        PROVE  Searched(c)'
    <3>1. Searched(c)
      BY <1>1, <2>1, <2>2 DEF Search
    <3>2. Len(buf[c]) >= 1 /\ Base(c) \in Nat
      BY <1>1, <1>7, <2>2, RoundKeepsRun
    <3>3. CASE Base(c) % FrameLen = 0
      <4>1. Len(buf'[c]) = Len(buf[c]) /\ Base(c)' = Base(c)
        BY <1>1, <1>7, <2>2, <3>3, RoundKeepsRun DEF IsHead
      <4> QED
        BY <3>2, <3>3, <4>1 DEF Searched
    <3>4. CASE Base(c) % FrameLen # 0
      <4>1. Base(c)' = Base(c) + 1
        BY <1>1, <1>7, <2>2, <3>4, RoundKeepsRun DEF IsHead
      <4>2. \A i \in 1 .. round : (Base(c) - i) % FrameLen # 0
        BY <3>1, <3>4 DEF Searched
      <4>3. ASSUME NEW i \in 1 .. round'
            PROVE  (Base(c)' - i) % FrameLen # 0
        <5>1. CASE i = 1
          <6>1. Base(c)' - i = Base(c)
            BY <3>2, <4>1, <5>1
          <6> QED
            BY <3>4, <6>1
        <5>2. CASE i # 1
          <6>1. i - 1 \in 1 .. round
            BY <2>1, <5>2
          <6>2. Base(c)' - i = Base(c) - (i - 1)
            BY <3>2, <4>1
          <6> QED
            BY <4>2, <6>1, <6>2
        <5> QED
          BY <5>1, <5>2
      <4> QED
        BY <4>3 DEF Searched
    <3> QED
      BY <3>3, <3>4
  <2> QED
    BY <2>1, <2>2 DEF Search
<1>8. CASE Toggle \/ UNCHANGED vars
  <2>1. UNCHANGED <<written, fifo, buf, pc, round, lost>>
    BY <1>8 DEF Toggle, vars, hw
  <2> QED
    BY <1>1, <2>1 DEF Search, Searched, Base, ReadPos
<1> QED
  BY <1>3, <1>4, <1>5, <1>6, <1>7, <1>8 DEF Next, Loop

LEMMA WholeNext ==
  ASSUME Alias = {}, WholeInv, [Next]_vars
  PROVE  WholeFrame'
<1>1. RunInv /\ WholeFrame /\ emitted \in Nat /\ lost \in BOOLEAN
  BY DEF WholeInv, RunInv, TypeInv, TypeOK
<1>2. CASE EmitFrame
  <2> SUFFICES ASSUME ~lost', NEW c \in Chan
               PROVE  Whole(frame'[c])
    BY DEF WholeFrame, Whole
  <2>1. ~lost
    BY <1>2 DEF EmitFrame, hw
  <2>2. Base(c) % FrameLen = 0
    BY <1>2, <2>1, MergedAtHead
  <2>3. /\ Base(c) \in Nat
        /\ frame'[c] = [i \in 1 .. FrameLen |-> Base(c) + i - 1]
    BY <1>1, <1>2, <2>1, EmitKeepsRun
  <2> QED
    BY <2>2, <2>3, RunIsWhole
<1>3. CASE UNCHANGED <<frame, emitted>>
  <2>1. ~lost' => ~lost
    BY <1>1
       DEF Next, vars, hw, HwWrite, HwLose, Toggle, Loop, ReadA, ReadB, Read,
           Gate, FindHead, EmitFrame, NoFrame, Idle
  <2> QED
    BY <1>1, <1>3, <2>1 DEF WholeFrame, Whole
<1> QED
  BY <1>2, <1>3
     DEF Next, vars, hw, HwWrite, HwLose, Toggle, Loop, ReadA, ReadB, Read,
         Gate, FindHead, NoFrame, Idle

LEMMA WholeInit == Init => WholeInv
<1> SUFFICES ASSUME Init
             PROVE  WholeInv
  OBVIOUS
<1>1. Search /\ WholeFrame
  BY DEF Init, Search, WholeFrame
<1> QED
  BY <1>1, RunInit DEF WholeInv

(* As long as no chip overflows, each half of a merged frame is a whole     *)
(* hardware frame, if no payload word looks like a head.                    *)
THEOREM FramesAreWhole ==
  ASSUME Alias = {}
  PROVE  Spec => []WholeFrame
<1>1. Init => WholeInv
  BY WholeInit
<1>2. WholeInv /\ [Next]_vars => WholeInv'
  BY RunNext, SearchNext, WholeNext DEF WholeInv
<1>3. WholeInv => WholeFrame
  BY DEF WholeInv
<1> QED
  BY <1>1, <1>2, <1>3, PTL DEF Spec

-----------------------------------------------------------------------------
(* Consecutive frames. *)

(* As long as nothing is lost or shed, the deques start right behind the   *)
(* last merged frame.                                                      *)
Follow ==
  ~lost /\ ~dropped /\ emitted > 0
    => \A c \in Chan : Base(c) = frame[c][1] + FrameLen

GaplessStep ==
  emitted' # emitted /\ emitted > 0 /\ ~lost /\ ~dropped
    => \A c \in Chan : frame'[c][1] = frame[c][1] + FrameLen

LEMMA FollowNext ==
  ASSUME RunInv, WholeFrame, Follow, [Next]_vars
  PROVE  Follow' /\ GaplessStep
<1> USE CaptureAssumption
<1>1. /\ emitted \in Nat /\ lost \in BOOLEAN /\ dropped \in BOOLEAN
      /\ frame \in [Chan -> Seq(Nat)]
      /\ buf \in [Chan -> Seq(Nat)]
      /\ \A c \in Chan : Len(buf[c]) <= 2 * FrameLen
  BY DEF RunInv, TypeInv, TypeOK
<1>2. ASSUME ~lost', ~dropped'
      PROVE  ~lost /\ ~dropped
  BY <1>1, <1>2
     DEF Next, vars, hw, HwWrite, HwLose, Toggle, Loop, ReadA, ReadB, Read,
         Gate, FindHead, EmitFrame, NoFrame, Idle
<1>3. CASE EmitFrame
  <2>1. ASSUME ~lost, NEW c \in Chan
        PROVE  /\ frame'[c][1] = Base(c)
               /\ Base(c)' = frame'[c][1] + FrameLen
    <3>1. /\ Base(c) \in Nat
          /\ Base(c)' = Base(c) + FrameLen
          /\ frame'[c] = [i \in 1 .. FrameLen |-> Base(c) + i - 1]
      BY <1>3, <2>1, EmitKeepsRun
    <3>2. frame'[c][1] = Base(c)
      BY <3>1
    <3> QED
      BY <3>1, <3>2
  <2>2. Follow'
    BY <1>2, <2>1 DEF Follow
  <2>3. GaplessStep
    BY <2>1 DEF Follow, GaplessStep
  <2> QED
    BY <2>2, <2>3
<1>4. CASE UNCHANGED <<emitted, frame>>
  <2>1. GaplessStep
    BY <1>4 DEF GaplessStep
  <2> SUFFICES ASSUME ~lost', ~dropped', emitted > 0, NEW c \in Chan
               PROVE  Base(c)' = frame[c][1] + FrameLen
    BY <1>4, <2>1 DEF Follow
  <2>2. ~lost /\ Base(c) = frame[c][1] + FrameLen
    BY <1>2 DEF Follow
  <2> SUFFICES Base(c)' = Base(c)
    BY <2>2
  <2>3. ASSUME NEW d \in Chan, HwWrite(d)
        PROVE  Base(c)' = Base(c)
    <3>1. ReadPos(c)' = ReadPos(c)
      BY <2>2, <2>3, WriteKeepsRun
    <3> QED
      BY <2>3, <3>1 DEF Base, HwWrite
  <2>4. ASSUME NEW d \in Chan, HwLose(d)
        PROVE  FALSE
    BY <2>4 DEF HwLose
  <2>5. ASSUME NEW d \in Chan, NEW here, NEW next, Read(d, here, next)
        PROVE  Base(c)' = Base(c)
    <3>1. CASE d # c
      <4>1. written' = written /\ fifo'[c] = fifo[c] /\ buf'[c] = buf[c]
        BY <2>5, <3>1 DEF Read, RunInv, TypeInv, TypeOK
      <4> QED
        BY <4>1 DEF Base, ReadPos
    <3>2. CASE d = c /\ fifo[c] = <<>>
      BY <2>5, <3>2 DEF Read, Base, ReadPos
    <3>3. CASE d = c /\ fifo[c] # <<>>
      <4>1. Len(buf[c]) # 2 * FrameLen
        BY <2>2, <2>5, <3>3, ReadKeepsRun
      <4>2. Len(buf[c]) < 2 * FrameLen
        BY <1>1, <4>1
      <4> QED
        BY <2>2, <2>5, <3>3, <4>2, ReadKeepsRun
    <3> QED
      BY <3>1, <3>2, <3>3
  <2>6. CASE FindHead
    <3>1. Whole(frame[c])
      BY <2>2 DEF WholeFrame
    <3>2. frame[c][1] \in Nat /\ frame[c][1] % FrameLen = 0
      <4>1. frame[c] \in Seq(Nat) /\ 1 \in 1 .. Len(frame[c])
        BY <1>1, <3>1 DEF Whole
      <4>2. frame[c][1] \in Nat
        BY <4>1
      <4> QED
        BY <3>1, <4>2, Zenon DEF Whole
    <3>3. Base(c) % FrameLen = 0
      BY <2>2, <3>2, HeadStep
    <3>4. IsHead(Base(c))
      BY <3>3 DEF IsHead
    <3> QED
      BY <2>2, <2>6, <3>4, RoundKeepsRun
  <2>7. CASE Toggle \/ Gate \/ NoFrame \/ Idle \/ UNCHANGED vars
    <3>1. UNCHANGED <<written, fifo, buf>>
      BY <2>7 DEF Toggle, Gate, NoFrame, Idle, vars, hw
    <3> QED
      BY <3>1 DEF Base, ReadPos
  <2>8. CASE EmitFrame
    BY <1>1, <1>4, <2>8 DEF EmitFrame
  <2> QED
    BY <2>3, <2>4, <2>5, <2>6, <2>7, <2>8 DEF Next, Loop, ReadA, ReadB, Chan
<1> QED
  BY <1>3, <1>4
     DEF Next, vars, hw, HwWrite, HwLose, Toggle, Loop, ReadA, ReadB, Read,
         Gate, FindHead, NoFrame, Idle

LEMMA FollowInit == Init => Follow
BY DEF Init, Follow

(* "Find head" never throws away a frame: consecutive merged frames are    *)
(* consecutive hardware frames, if no payload word looks like a head.      *)
THEOREM FramesFollow ==
  ASSUME Alias = {}
  PROVE  Spec => Gapless
<1>1. Init => WholeInv /\ Follow
  BY WholeInit, FollowInit
<1>2. WholeInv /\ Follow /\ [Next]_vars => WholeInv' /\ Follow'
  BY RunNext, SearchNext, WholeNext, FollowNext DEF WholeInv
<1>3. WholeInv /\ Follow /\ [Next]_vars => [GaplessStep]_vars
  BY FollowNext DEF WholeInv
<1>4. Spec => [][GaplessStep]_vars
  BY <1>1, <1>2, <1>3, PTL DEF Spec
<1> QED
  BY <1>4 DEF Gapless, GaplessStep

-----------------------------------------------------------------------------
(* The two channels in step. *)

(* Both chips start at the head of the same frame, and the writers stay    *)
(* less than a frame apart.                                                *)
CleanStart ==
  /\ Start["A"] = Start["B"]
  /\ Start["A"] % FrameLen = 0
  /\ MaxSkew < FrameLen

(* The writers are at most MaxSkew words apart. *)
WriterSkew == \A c \in Chan : written[c] - written[Other(c)] <= MaxSkew

(* How many words the deques hold.  Before A is read, one of them holds    *)
(* less than a frame; a deque is ahead of the other by no more than the    *)
(* writers are apart, give or take the word just read.                     *)
Levels ==
  LET a == Len(buf["A"])
      b == Len(buf["B"])
  IN
  /\ pc \in {"readA", "idle"} =>
       /\ a < FrameLen \/ b < FrameLen
       /\ a - b <= MaxSkew /\ b - a <= MaxSkew + 1
  /\ pc = "readB" =>
       /\ a <= FrameLen \/ b < FrameLen
       /\ a - b <= MaxSkew + 1 /\ b - a <= MaxSkew
  /\ pc \in {"gate", "find", "frame"} =>
       /\ a <= FrameLen \/ b <= FrameLen
       /\ a - b <= MaxSkew /\ b - a <= MaxSkew + 1

(* The deques start at the same head. *)
Paired ==
  /\ Base("A") = Base("B")
  /\ Base("A") \in Nat
  /\ Base("A") % FrameLen = 0

Together == ~lost => ~dropped /\ Levels /\ Paired

InStepInv == RunInv /\ WriterSkew /\ Together /\ InStep

LEMMA InStepInit ==
  ASSUME CleanStart, Init
  PROVE  InStepInv
<1> USE CaptureAssumption
<1>1. RunInv
  BY RunInit
<1>2. /\ written = Start /\ pc = "readA" /\ ~dropped /\ emitted = 0
      /\ \A c \in Chan : Len(fifo[c]) = 0 /\ Len(buf[c]) = 0
      /\ Start["A"] \in Nat
  BY DEF Init, Chan
<1>3. WriterSkew
  BY <1>2 DEF WriterSkew
<1>4. Levels
  <2>1. Len(buf["A"]) = 0 /\ Len(buf["B"]) = 0 /\ pc = "readA"
    BY <1>2 DEF Chan
  <2> QED
    BY <2>1 DEF Levels
<1>5. Paired
  BY <1>2 DEF CleanStart, Paired, Base, ReadPos, Chan
<1>6. InStep
  BY <1>2 DEF InStep
<1> QED
  BY <1>1, <1>2, <1>3, <1>4, <1>5, <1>6 DEF InStepInv, Together

LEMMA WriterSkewNext ==
  ASSUME RunInv, WriterSkew, [Next]_vars
  PROVE  WriterSkew'
<1> USE CaptureAssumption
<1>1. written \in [Chan -> Nat]
  BY DEF RunInv, TypeInv, TypeOK
<1>2. ASSUME NEW c \in Chan, Offer(c)
      PROVE  WriterSkew'
  <2> SUFFICES ASSUME NEW d \in Chan
               PROVE  written'[d] - written'[Other(d)] <= MaxSkew
    BY DEF WriterSkew
  <2>1. /\ written'[c] = written[c] + 1
        /\ written'[Other(c)] = written[Other(c)]
        /\ written[c] - written[Other(c)] < MaxSkew
        /\ written[c] \in Nat /\ written[Other(c)] \in Nat
    BY <1>1, <1>2 DEF Offer, Other, Chan
  <2>2. CASE d = c
    BY <2>1, <2>2
  <2>3. CASE d # c
    <3>1. d = Other(c) /\ Other(d) = c
      BY <2>3 DEF Other, Chan
    <3>2. written[d] - written[c] <= MaxSkew
      BY <3>1 DEF WriterSkew
    <3> QED
      BY <2>1, <3>1, <3>2
  <2> QED
    BY <2>2, <2>3
<1>3. CASE UNCHANGED written
  BY <1>3 DEF WriterSkew
<1> QED
  BY <1>2, <1>3
     DEF Next, vars, hw, HwWrite, HwLose, Toggle, Loop, ReadA, ReadB, Read,
         Gate, FindHead, EmitFrame, NoFrame, Idle

(* Reading chip c, below the limit of the deque. *)
LEMMA ReadBelowLimit ==
  ASSUME RunInv, ~lost, ~dropped, NEW c \in Chan, NEW here, NEW next,
         Read(c, here, next), Len(buf[c]) < 2 * FrameLen
  PROVE  /\ ~dropped'
         /\ \A d \in Chan : Base(d)' = Base(d)
         /\ \A d \in Chan \ {c} : Len(buf'[d]) = Len(buf[d])
         /\ \/ Len(buf'[c]) = Len(buf[c]) + 1
            \/ Len(fifo[c]) = 0 /\ Len(buf'[c]) = Len(buf[c])
<1> USE CaptureAssumption
<1>1. /\ fifo \in [Chan -> Seq(Nat)] /\ buf \in [Chan -> Seq(Nat)]
      /\ dropped = FALSE
  BY DEF RunInv, TypeInv, TypeOK
<1>2. ASSUME NEW d \in Chan \ {c}
      PROVE  Base(d)' = Base(d) /\ Len(buf'[d]) = Len(buf[d])
  <2>1. written' = written /\ fifo'[d] = fifo[d] /\ buf'[d] = buf[d]
    BY <1>1 DEF Read
  <2> QED
    BY <2>1 DEF Base, ReadPos
<1>3. CASE fifo[c] = <<>>
  <2>1. UNCHANGED <<written, fifo, buf, dropped>>
    BY <1>3 DEF Read
  <2>2. Len(fifo[c]) = 0 /\ Len(buf'[c]) = Len(buf[c]) /\ Base(c)' = Base(c)
    BY <1>3, <2>1 DEF Base, ReadPos
  <2> QED
    BY <1>1, <1>2, <2>1, <2>2
<1>4. CASE fifo[c] # <<>>
  <2>1. Len(buf'[c]) = Len(buf[c]) + 1 /\ Base(c)' = Base(c)
    BY <1>4, ReadKeepsRun
  <2>2. dropped' = (dropped \/ Len(buf[c]) + 1 > 2 * FrameLen)
    BY <1>4 DEF Read
  <2>3. ~(Len(buf[c]) + 1 > 2 * FrameLen)
    BY <1>1
  <2> QED
    BY <1>1, <1>2, <2>1, <2>2, <2>3
<1> QED
  BY <1>3, <1>4

LEMMA TogetherNext ==
  ASSUME CleanStart, InStepInv, [Next]_vars
  PROVE  Together'
<1> SUFFICES ASSUME ~lost'
             PROVE  ~dropped' /\ Levels' /\ Paired'
  BY DEF Together
<1> DEFINE a == Len(buf["A"])
           b == Len(buf["B"])
<1>1. /\ RunInv /\ TypeOK /\ lost \in BOOLEAN /\ dropped \in BOOLEAN
      /\ a \in Nat /\ b \in Nat /\ FrameLen \in Nat \ {0} /\ MaxSkew \in Nat
      /\ MaxSkew < FrameLen
      /\ "A" \in Chan /\ "B" \in Chan
  BY CaptureAssumption DEF InStepInv, RunInv, TypeInv, TypeOK, CleanStart, Chan
<1>2. ~lost
  BY <1>1 DEF Next, vars, hw, HwWrite, HwLose, Toggle, Loop, ReadA, ReadB,
              Read, Gate, FindHead, EmitFrame, NoFrame, Idle
<1>3. ~dropped /\ Levels /\ Paired
  BY <1>2 DEF InStepInv, Together
<1>4. /\ written["A"] \in Nat /\ written["B"] \in Nat
      /\ Len(fifo["A"]) \in Nat /\ Len(fifo["B"]) \in Nat
      /\ written["A"] - written["B"] <= MaxSkew
      /\ written["B"] - written["A"] <= MaxSkew
  BY <1>1 DEF InStepInv, WriterSkew, TypeOK, Chan, Other
<1>5. written["A"] - Len(fifo["A"]) - a = written["B"] - Len(fifo["B"]) - b
  BY <1>3 DEF Paired, Base, ReadPos
<1>6. ASSUME NEW c \in Chan, HwWrite(c)
      PROVE  ~dropped' /\ Levels' /\ Paired'
  <2>1. UNCHANGED <<pc, buf, dropped>>
    BY <1>6 DEF HwWrite
  <2>2. \A d \in Chan : Base(d)' = Base(d)
    BY <1>1, <1>2, <1>6, <2>1, WriteKeepsRun DEF Base
  <2> QED
    BY <1>1, <1>3, <2>1, <2>2 DEF Levels, Paired
<1>7. ASSUME NEW c \in Chan, HwLose(c)
      PROVE  FALSE
  BY <1>7 DEF HwLose
<1>8. CASE ReadA
  <2>1. /\ pc = "readA" /\ pc' = "readB"
        /\ a < FrameLen \/ b < FrameLen
        /\ a - b <= MaxSkew /\ b - a <= MaxSkew + 1
    BY <1>3, <1>8 DEF ReadA, Read, Levels
  <2>2. a < 2 * FrameLen
    BY <1>1, <2>1
  <2>3. /\ ~dropped'
        /\ \A d \in Chan : Base(d)' = Base(d)
        /\ \A d \in Chan \ {"A"} : Len(buf'[d]) = Len(buf[d])
        /\ \/ Len(buf'["A"]) = a + 1
           \/ Len(fifo["A"]) = 0 /\ Len(buf'["A"]) = a
    <3>1. Read("A", "readA", "readB") /\ Len(buf["A"]) < 2 * FrameLen
      BY <1>8, <2>2 DEF ReadA
    <3> QED
      BY <1>1, <1>2, <1>3, <3>1, ReadBelowLimit
  <2>4. Paired'
    BY <1>1, <1>3, <2>3 DEF Paired
  <2>5. Len(buf'["B"]) = b
    BY <2>3 DEF Chan
  <2>6. \/ Len(buf'["A"]) = a + 1
        \/ Len(buf'["A"]) = a /\ b - a <= MaxSkew
    <3>1. Len(fifo["A"]) = 0 => b - a <= MaxSkew
      <4> DEFINE fa == Len(fifo["A"])
                 fb == Len(fifo["B"])
      <4> HIDE DEF a, b, fa, fb
      <4>1. /\ fa \in Nat /\ fb \in Nat
            /\ written["A"] - fa - a = written["B"] - fb - b
        BY <1>4, <1>5 DEF fa, fb
      <4>2. fa = 0 => b - a <= MaxSkew
        BY <1>1, <1>4, <4>1
      <4> QED
        BY <4>2 DEF fa, fb
    <3> QED
      BY <2>3, <3>1
  <2>7. Levels'
    <3> DEFINE an == Len(buf'["A"])
               bn == Len(buf'["B"])
    <3> HIDE DEF a, b, an, bn
    <3>1. \/ an = a + 1
          \/ an = a /\ b - a <= MaxSkew
      BY <2>6 DEF an
    <3>2. bn = b
      BY <2>5 DEF bn
    <3>3. /\ an <= FrameLen \/ bn < FrameLen
          /\ an - bn <= MaxSkew + 1 /\ bn - an <= MaxSkew
      BY <1>1, <2>1, <3>1, <3>2
    <3> QED
      BY <2>1, <3>3 DEF Levels, an, bn
  <2> QED
    BY <2>3, <2>4, <2>7
<1>9. CASE ReadB
  <2>1. /\ pc = "readB" /\ pc' = "gate"
        /\ a <= FrameLen \/ b < FrameLen
        /\ a - b <= MaxSkew + 1 /\ b - a <= MaxSkew
    BY <1>3, <1>9 DEF ReadB, Read, Levels
  <2>2. b < 2 * FrameLen
    BY <1>1, <2>1
  <2>3. /\ ~dropped'
        /\ \A d \in Chan : Base(d)' = Base(d)
        /\ \A d \in Chan \ {"B"} : Len(buf'[d]) = Len(buf[d])
        /\ \/ Len(buf'["B"]) = b + 1
           \/ Len(fifo["B"]) = 0 /\ Len(buf'["B"]) = b
    <3>1. Read("B", "readB", "gate") /\ Len(buf["B"]) < 2 * FrameLen
      BY <1>9, <2>2 DEF ReadB
    <3> QED
      BY <1>1, <1>2, <1>3, <3>1, ReadBelowLimit
  <2>4. Paired'
    BY <1>1, <1>3, <2>3 DEF Paired
  <2>5. Len(buf'["A"]) = a
    BY <2>3 DEF Chan
  <2>6. \/ Len(buf'["B"]) = b + 1
        \/ Len(buf'["B"]) = b /\ a - b <= MaxSkew
    <3>1. Len(fifo["B"]) = 0 => a - b <= MaxSkew
      <4> DEFINE fa == Len(fifo["A"])
                 fb == Len(fifo["B"])
      <4> HIDE DEF a, b, fa, fb
      <4>1. /\ fa \in Nat /\ fb \in Nat
            /\ written["A"] - fa - a = written["B"] - fb - b
        BY <1>4, <1>5 DEF fa, fb
      <4>2. fb = 0 => a - b <= MaxSkew
        BY <1>1, <1>4, <4>1
      <4> QED
        BY <4>2 DEF fa, fb
    <3> QED
      BY <2>3, <3>1
  <2>7. Levels'
    <3> DEFINE an == Len(buf'["A"])
               bn == Len(buf'["B"])
    <3> HIDE DEF a, b, an, bn
    <3>1. \/ bn = b + 1
          \/ bn = b /\ a - b <= MaxSkew
      BY <2>6 DEF bn
    <3>2. an = a
      BY <2>5 DEF an
    <3>3. /\ an <= FrameLen \/ bn <= FrameLen
          /\ an - bn <= MaxSkew /\ bn - an <= MaxSkew + 1
      BY <1>1, <2>1, <3>1, <3>2
    <3> QED
      BY <2>1, <3>3 DEF Levels, an, bn
  <2> QED
    BY <2>3, <2>4, <2>7
<1>10. CASE Gate
  <2>1. /\ UNCHANGED <<written, fifo, buf, dropped>> /\ pc = "gate"
        /\ pc' \in {"find", "idle"}
        /\ pc' = "idle" => a < FrameLen \/ b < FrameLen
    BY <1>1, <1>10 DEF Gate, BothHave, hw, Chan
  <2>2. Paired'
    BY <1>3, <2>1 DEF Paired, Base, ReadPos
  <2>3. Levels'
    BY <1>1, <1>3, <2>1 DEF Levels
  <2> QED
    BY <1>3, <2>1, <2>2, <2>3
<1>11. CASE FindHead
  <2>1. \A c \in Chan : IsHead(Base(c))
    BY <1>3 DEF Paired, IsHead, Chan
  <2>2. \A c \in Chan : Len(buf'[c]) = Len(buf[c]) /\ Base(c)' = Base(c)
    BY <1>1, <1>2, <1>11, <2>1, RoundKeepsRun
  <2>3. /\ UNCHANGED dropped /\ pc = "find" /\ pc' \in {"find", "frame"}
    BY <1>11 DEF FindHead
  <2>4. Paired'
    BY <1>1, <1>3, <2>2 DEF Paired
  <2>5. Levels'
    BY <1>1, <1>3, <2>2, <2>3 DEF Levels
  <2> QED
    BY <1>3, <2>3, <2>4, <2>5
<1>12. CASE EmitFrame
  <2>1. \A c \in Chan : /\ Len(buf'[c]) = Len(buf[c]) - FrameLen
                        /\ Base(c)' = Base(c) + FrameLen
    BY <1>1, <1>2, <1>12, EmitKeepsRun
  <2>2. /\ UNCHANGED dropped /\ pc = "frame" /\ pc' = "idle"
    BY <1>12 DEF EmitFrame
  <2>3. Paired'
    <3>1. /\ Base("A") \in Nat /\ Base("A") + FrameLen \in Nat
          /\ Base("A")' = Base("A") + FrameLen /\ Base("B")' = Base("A")'
      BY <1>1, <1>3, <2>1 DEF Paired
    <3>2. (Base("A") + FrameLen) % FrameLen = 0
      BY <1>3, HeadStep DEF Paired
    <3> QED
      BY <3>1, <3>2 DEF Paired
  <2>4. Levels'
    <3>1. /\ Len(buf'["A"]) = a - FrameLen /\ Len(buf'["B"]) = b - FrameLen
          /\ a <= FrameLen \/ b <= FrameLen
          /\ a - b <= MaxSkew /\ b - a <= MaxSkew + 1
      BY <1>1, <1>3, <2>1, <2>2 DEF Levels
    <3> DEFINE an == Len(buf'["A"])
               bn == Len(buf'["B"])
    <3> HIDE DEF a, b, an, bn
    <3>2. an = a - FrameLen /\ bn = b - FrameLen
      BY <3>1 DEF an, bn
    <3>3. /\ an < FrameLen \/ bn < FrameLen
          /\ an - bn <= MaxSkew /\ bn - an <= MaxSkew + 1
      BY <1>1, <3>1, <3>2
    <3> QED
      BY <2>2, <3>3 DEF Levels, an, bn
  <2> QED
    BY <1>3, <2>2, <2>3, <2>4
<1>13. CASE NoFrame \/ Idle
  <2>1. /\ UNCHANGED <<written, fifo, buf, dropped>>
        /\ \/ pc = "frame" /\ pc' = "idle" /\ (a < FrameLen \/ b < FrameLen)
           \/ pc = "idle" /\ pc' = "readA"
    BY <1>1, <1>13 DEF NoFrame, Idle, BothHave, hw, Chan
  <2>2. Paired'
    BY <1>3, <2>1 DEF Paired, Base, ReadPos
  <2>3. Levels'
    BY <1>1, <1>3, <2>1 DEF Levels
  <2> QED
    BY <1>3, <2>1, <2>2, <2>3
<1>14. CASE Toggle \/ UNCHANGED vars
  <2>1. UNCHANGED <<written, fifo, buf, dropped, pc>>
    BY <1>14 DEF Toggle, vars, hw
  <2> QED
    BY <1>3, <2>1 DEF Paired, Base, ReadPos, Levels
<1> QED
  BY <1>6, <1>7, <1>8, <1>9, <1>10, <1>11, <1>12, <1>13, <1>14 DEF Next, Loop

LEMMA InStepNext ==
  ASSUME InStepInv, [Next]_vars, Together'
  PROVE  InStep'
<1>1. RunInv /\ emitted \in Nat /\ lost \in BOOLEAN
  BY DEF InStepInv, RunInv, TypeInv, TypeOK
<1> SUFFICES ASSUME ~lost'
             PROVE  emitted' > 0 => frame'["A"] = frame'["B"] /\ Whole(frame'["A"])
  BY DEF InStep, Together, Whole
<1>2. ~lost
  BY <1>1 DEF Next, vars, hw, HwWrite, HwLose, Toggle, Loop, ReadA, ReadB,
              Read, Gate, FindHead, EmitFrame, NoFrame, Idle
<1>3. CASE EmitFrame
  <2>1. /\ Base("A") \in Nat /\ Base("A") = Base("B")
        /\ Base("A") % FrameLen = 0
    BY <1>2 DEF InStepInv, Together, Paired
  <2>2. \A c \in Chan : frame'[c] = [i \in 1 .. FrameLen |-> Base(c) + i - 1]
    BY <1>1, <1>2, <1>3, EmitKeepsRun
  <2> QED
    BY <2>1, <2>2, RunIsWhole DEF Chan
<1>4. CASE UNCHANGED <<frame, emitted>>
  BY <1>2, <1>4 DEF InStepInv, InStep
<1> QED
  BY <1>3, <1>4
     DEF Next, vars, hw, HwWrite, HwLose, Toggle, Loop, ReadA, ReadB, Read,
         Gate, FindHead, NoFrame, Idle

LEMMA InStepInvariant ==
  ASSUME CleanStart
  PROVE  Spec => []InStepInv
<1>1. Init => InStepInv
  BY InStepInit
<1>2. InStepInv /\ [Next]_vars => InStepInv'
  BY RunNext, WriterSkewNext, TogetherNext, InStepNext DEF InStepInv
<1> QED
  BY <1>1, <1>2, PTL DEF Spec

(* When the chips start at the same head and the writers stay less than a  *)
(* frame apart, both halves of every merged frame are the same hardware    *)
(* frame and no deque ever sheds a word, whatever the payload looks like.  *)
THEOREM ChannelsInStep ==
  ASSUME CleanStart
  PROVE  Spec => []InStep
<1>1. InStepInv => InStep
  BY DEF InStepInv
<1> QED
  BY <1>1, InStepInvariant, PTL

(* In step, consecutive merged frames are consecutive hardware frames,     *)
(* whatever the payload looks like.                                        *)
THEOREM InStepFramesFollow ==
  ASSUME CleanStart
  PROVE  Spec => Gapless
<1>1. Init => InStepInv /\ Follow
  BY InStepInit, FollowInit
<1>2. InStepInv => RunInv /\ WholeFrame
  <2> SUFFICES ASSUME InStepInv, ~lost, emitted > 0, NEW c \in Chan
               PROVE  Whole(frame[c])
    BY DEF InStepInv, WholeFrame
  <2>1. frame["A"] = frame["B"] /\ Whole(frame["A"])
    BY DEF InStepInv, InStep
  <2> QED
    BY <2>1 DEF Chan
<1>3. InStepInv /\ Follow /\ [Next]_vars => InStepInv' /\ Follow'
  BY <1>2, RunNext, WriterSkewNext, TogetherNext, InStepNext, FollowNext
     DEF InStepInv
<1>4. InStepInv /\ Follow /\ [Next]_vars => [GaplessStep]_vars
  BY <1>2, FollowNext
<1>5. Spec => [][GaplessStep]_vars
  BY <1>1, <1>3, <1>4, PTL DEF Spec
<1> QED
  BY <1>5 DEF Gapless, GaplessStep

-----------------------------------------------------------------------------
(* Never twice, never back: whatever is lost, shed or mistaken for a head. *)

Ascends(s) == \A i, j \in 1 .. Len(s) : i < j => s[i] < s[j]

Elems(s) == {s[i] : i \in 1 .. Len(s)}

LEMMA AscendingTail ==
  ASSUME NEW s \in Seq(Nat), s # <<>>, Ascends(s)
  PROVE  /\ Ascends(Tail(s))
         /\ Elems(Tail(s)) \subseteq Elems(s)
         /\ Head(s) \in Elems(s)
         /\ \A x \in Elems(Tail(s)) : Head(s) < x
<1>1. /\ Len(s) \in Nat \ {0} /\ Head(s) = s[1]
      /\ Len(Tail(s)) = Len(s) - 1
      /\ \A i \in 1 .. Len(s) - 1 : Tail(s)[i] = s[i + 1]
  OBVIOUS
<1>2. Ascends(Tail(s))
  <2> SUFFICES ASSUME NEW i \in 1 .. Len(s) - 1, NEW j \in 1 .. Len(s) - 1, i < j
               PROVE  Tail(s)[i] < Tail(s)[j]
    BY <1>1 DEF Ascends
  <2>1. i + 1 \in 1 .. Len(s) /\ j + 1 \in 1 .. Len(s) /\ i + 1 < j + 1
    BY <1>1
  <2>2. s[i + 1] < s[j + 1]
    BY <2>1 DEF Ascends
  <2> QED
    BY <1>1, <2>2
<1>3. ASSUME NEW x \in Elems(Tail(s))
      PROVE  x \in Elems(s) /\ Head(s) < x
  <2>1. PICK i \in 1 .. Len(s) - 1 : x = Tail(s)[i]
    BY <1>1 DEF Elems
  <2>2. i + 1 \in 1 .. Len(s) /\ 1 \in 1 .. Len(s) /\ 1 < i + 1
    BY <1>1
  <2>3. x = s[i + 1]
    BY <1>1, <2>1
  <2>4. s[1] < s[i + 1]
    BY <2>2 DEF Ascends
  <2> QED
    BY <1>1, <2>2, <2>3, <2>4 DEF Elems
<1>4. Head(s) \in Elems(s)
  BY <1>1 DEF Elems
<1> QED
  BY <1>2, <1>3, <1>4

LEMMA AscendingAppend ==
  ASSUME NEW s \in Seq(Nat), NEW w \in Nat, Ascends(s), \A x \in Elems(s) : x < w
  PROVE  /\ Ascends(Append(s, w))
         /\ Elems(Append(s, w)) = Elems(s) \cup {w}
<1> DEFINE t == Append(s, w)
           n == Len(s)
<1>1. /\ n \in Nat /\ Len(t) = n + 1 /\ t[n + 1] = w
      /\ \A i \in 1 .. n : t[i] = s[i]
  OBVIOUS
<1>2. \A i \in 1 .. n : s[i] < w
  BY DEF Elems
<1>3. ASSUME NEW i \in 1 .. Len(t), NEW j \in 1 .. Len(t), i < j
      PROVE  t[i] < t[j]
  <2>1. i \in 1 .. n
    BY <1>1, <1>3
  <2>2. CASE j \in 1 .. n
    BY <1>1, <1>3, <2>1, <2>2 DEF Ascends
  <2>3. CASE j = n + 1
    BY <1>1, <1>2, <2>1, <2>3
  <2> QED
    BY <1>1, <2>2, <2>3
<1>4. Elems(t) = Elems(s) \cup {w}
  <2>1. 1 .. Len(t) = (1 .. n) \cup {n + 1}
    BY <1>1
  <2> QED
    BY <1>1, <2>1 DEF Elems
<1> QED
  BY <1>3, <1>4 DEF Ascends

LEMMA AscendingSplit ==
  ASSUME NEW s \in Seq(Nat), NEW k \in Nat \ {0}, k <= Len(s), Ascends(s)
  PROVE  LET head == SubSeq(s, 1, k)
             rest == SubSeq(s, k + 1, Len(s))
         IN  /\ Len(head) = k /\ Ascends(head) /\ Ascends(rest)
             /\ Elems(head) \subseteq Elems(s) /\ Elems(rest) \subseteq Elems(s)
             /\ head[1] \in Elems(s) /\ head[k] \in Elems(s)
             /\ \A x \in Elems(rest) : head[k] < x
<1> DEFINE head == SubSeq(s, 1, k)
           rest == SubSeq(s, k + 1, Len(s))
           n == Len(s)
<1>1. /\ n \in Nat /\ Len(head) = k /\ Len(rest) = n - k
      /\ \A i \in 1 .. k : head[i] = s[i]
      /\ \A i \in 1 .. n - k : rest[i] = s[k + i]
  <2>1. n \in Nat
    OBVIOUS
  <2> QED
    BY <2>1, CutFacts, Zenon
<1>2. Ascends(head) /\ Elems(head) \subseteq Elems(s)
  <2>1. 1 .. k \subseteq 1 .. n
    BY <1>1
  <2>2. Ascends(head)
    BY <1>1, <2>1 DEF Ascends
  <2>3. Elems(head) \subseteq Elems(s)
    BY <1>1, <2>1 DEF Elems
  <2> QED
    BY <2>2, <2>3
<1>3. ASSUME NEW i \in 1 .. n - k, NEW j \in 1 .. n - k, i < j
      PROVE  rest[i] < rest[j]
  <2>1. k + i \in 1 .. n /\ k + j \in 1 .. n /\ k + i < k + j
    BY <1>1, <1>3
  <2>2. s[k + i] < s[k + j]
    BY <2>1 DEF Ascends
  <2> QED
    BY <1>1, <2>2
<1>4. ASSUME NEW x \in Elems(rest)
      PROVE  x \in Elems(s) /\ head[k] < x
  <2>1. PICK i \in 1 .. n - k : x = rest[i]
    BY <1>1 DEF Elems
  <2>2. k + i \in 1 .. n /\ k \in 1 .. n /\ k < k + i
    BY <1>1
  <2>3. s[k] < s[k + i]
    BY <2>2 DEF Ascends
  <2>4. x = s[k + i] /\ head[k] = s[k]
    BY <1>1, <2>1, <2>2
  <2>5. x \in Elems(s)
    BY <2>2, <2>4 DEF Elems
  <2> QED
    BY <2>3, <2>4, <2>5
<1>5. head[1] \in Elems(s) /\ head[k] \in Elems(s)
  BY <1>1 DEF Elems
<1> QED
  BY <1>1, <1>2, <1>3, <1>4, <1>5 DEF Ascends

(* Chip, deque and writer are in order, and behind the last merged frame.  *)
OrderOf(c) ==
  /\ Ascends(buf[c]) /\ Ascends(fifo[c])
  /\ \A x \in Elems(buf[c]), y \in Elems(fifo[c]) : x < y
  /\ \A x \in Elems(buf[c]) \cup Elems(fifo[c]) : x < written[c]
  /\ emitted > 0 =>
       /\ frame[c][FrameLen] \in Nat
       /\ \A x \in Elems(buf[c]) \cup Elems(fifo[c]) \cup {written[c]} :
            frame[c][FrameLen] < x

Order == \A c \in Chan : OrderOf(c)

ForwardStep ==
  emitted' # emitted
    => \A c \in Chan :
         /\ \A i \in 1 .. FrameLen - 1 : frame'[c][i] < frame'[c][i + 1]
         /\ emitted > 0 => frame[c][FrameLen] < frame'[c][1]

LEMMA ElemsNat ==
  ASSUME NEW s \in Seq(Nat)
  PROVE  Elems(s) \subseteq Nat
BY DEF Elems

LEMMA AscendingPush ==
  ASSUME NEW s \in Seq(Nat), NEW w \in Nat, Ascends(s), \A x \in Elems(s) : x < w
  PROVE  /\ Ascends(Push(s, w))
         /\ Elems(Push(s, w)) \subseteq Elems(s) \cup {w}
<1>1. CASE Len(s) + 1 > 2 * FrameLen
  <2>1. s # <<>>
    BY <1>1, CaptureAssumption
  <2>2. /\ Tail(s) \in Seq(Nat) /\ Ascends(Tail(s))
        /\ Elems(Tail(s)) \subseteq Elems(s)
    BY <2>1, AscendingTail
  <2>3. \A x \in Elems(Tail(s)) : x < w
    BY <2>2
  <2>4. /\ Ascends(Append(Tail(s), w))
        /\ Elems(Append(Tail(s), w)) = Elems(Tail(s)) \cup {w}
    BY <2>2, <2>3, AscendingAppend
  <2> QED
    BY <1>1, <2>2, <2>4 DEF Push
<1>2. CASE ~(Len(s) + 1 > 2 * FrameLen)
  BY <1>2, AscendingAppend DEF Push
<1> QED
  BY <1>1, <1>2

LEMMA OrderInit == Init => Order
<1> SUFFICES ASSUME Init, NEW c \in Chan
             PROVE  OrderOf(c)
  BY DEF Order
<1>1. Elems(<<>>) = {} /\ Ascends(<<>>)
  BY DEF Elems, Ascends
<1> QED
  BY <1>1 DEF Init, OrderOf

LEMMA FrontGrows ==
  ASSUME TypeInv, NEW c \in Chan, OrderOf(c), emitted > 0
  PROVE  frame[c][FrameLen] < written[c] + 1
<1> DEFINE last == frame[c][FrameLen]
           w == written[c]
<1>1. last \in Nat /\ last < w
  BY DEF OrderOf
<1>2. w \in Nat
  BY DEF TypeInv, TypeOK
<1>3. last < w + 1
  <2> HIDE DEF last, w
  <2> QED
    BY <1>1, <1>2
<1> QED
  BY <1>3

LEMMA OrderNext ==
  ASSUME TypeInv, Order, [Next]_vars
  PROVE  Order' /\ ForwardStep
<1> USE CaptureAssumption
<1>1. /\ written \in [Chan -> Nat] /\ fifo \in [Chan -> Seq(Nat)]
      /\ buf \in [Chan -> Seq(Nat)] /\ emitted \in Nat
  BY DEF TypeInv, TypeOK
<1>2. \A c \in Chan : OrderOf(c)
  BY DEF Order
<1>3. ASSUME NEW c \in Chan, emitted' = emitted, frame'[c] = frame[c],
             written'[c] = written[c], fifo'[c] = fifo[c], buf'[c] = buf[c]
      PROVE  OrderOf(c)'
  BY <1>2, <1>3 DEF OrderOf, Elems, Ascends
<1>4. ASSUME NEW c \in Chan, HwWrite(c)
      PROVE  Order'
  <2>1. /\ fifo'[c] = Append(fifo[c], written[c]) /\ written'[c] = written[c] + 1
        /\ UNCHANGED <<buf, frame, emitted>>
        /\ \A d \in Chan \ {c} : fifo'[d] = fifo[d] /\ written'[d] = written[d]
    BY <1>1, <1>4 DEF HwWrite, Offer
  <2>2. /\ Ascends(Append(fifo[c], written[c]))
        /\ Elems(Append(fifo[c], written[c])) = Elems(fifo[c]) \cup {written[c]}
    BY <1>1, <1>2, AscendingAppend DEF OrderOf
  <2>3. OrderOf(c)'
    <3>1. Ascends(buf[c])' /\ Elems(buf[c])' = Elems(buf[c])
      <4>1. buf'[c] = buf[c] /\ Ascends(buf[c])
        BY <1>2, <2>1 DEF OrderOf
      <4> QED
        BY <4>1 DEF Ascends, Elems
    <3>2. Ascends(fifo[c])' /\ Elems(fifo[c])' = Elems(fifo[c]) \cup {written[c]}
      BY <2>1, <2>2 DEF Ascends, Elems
    <3>3. \A x \in Elems(buf[c]) \cup Elems(fifo[c]) : x \in Nat
      BY <1>1, ElemsNat
    <3>4. \A x \in Elems(buf[c]) \cup Elems(fifo[c]) : x < written[c] + 1
      BY <1>1, <1>2, <3>3 DEF OrderOf
    <3>5. emitted > 0 => frame[c][FrameLen] < written[c] + 1
      BY <1>2, FrontGrows
    <3> QED
      BY <1>1, <1>2, <2>1, <3>1, <3>2, <3>4, <3>5 DEF OrderOf
  <2>4. \A d \in Chan \ {c} : OrderOf(d)'
    BY <1>3, <2>1
  <2> QED
    BY <2>3, <2>4 DEF Order
<1>5. ASSUME NEW c \in Chan, HwLose(c)
      PROVE  Order'
  <2>1. /\ written'[c] = written[c] + 1 /\ UNCHANGED <<fifo, buf, frame, emitted>>
        /\ \A d \in Chan \ {c} : written'[d] = written[d]
    BY <1>1, <1>5 DEF HwLose, Offer
  <2>2. OrderOf(c)'
    <3>1. \A x \in Elems(buf[c]) \cup Elems(fifo[c]) : x \in Nat /\ x < written[c] + 1
      BY <1>1, <1>2, ElemsNat DEF OrderOf
    <3>2. emitted > 0 => frame[c][FrameLen] < written[c] + 1
      BY <1>2, FrontGrows
    <3> QED
      BY <1>2, <2>1, <3>1, <3>2 DEF OrderOf, Elems, Ascends
  <2>3. \A d \in Chan \ {c} : OrderOf(d)'
    BY <1>3, <2>1
  <2> QED
    BY <2>2, <2>3 DEF Order
<1>6. ASSUME NEW c \in Chan, NEW here, NEW next, Read(c, here, next)
      PROVE  Order'
  <2>1. /\ UNCHANGED <<written, frame, emitted>>
        /\ \A d \in Chan \ {c} : fifo'[d] = fifo[d] /\ buf'[d] = buf[d]
    BY <1>1, <1>6 DEF Read
  <2>2. OrderOf(c)'
    <3>1. CASE fifo[c] = <<>>
      BY <1>3, <1>6, <2>1, <3>1 DEF Read
    <3>2. CASE fifo[c] # <<>>
      <4>1. /\ fifo'[c] = Tail(fifo[c])
            /\ buf'[c] = Push(buf[c], Head(fifo[c]))
        BY <1>1, <1>6, <3>2 DEF Read
      <4>2. /\ Ascends(Tail(fifo[c]))
            /\ Elems(Tail(fifo[c])) \subseteq Elems(fifo[c])
            /\ Head(fifo[c]) \in Elems(fifo[c])
            /\ \A x \in Elems(Tail(fifo[c])) : Head(fifo[c]) < x
        BY <1>1, <1>2, <3>2, AscendingTail DEF OrderOf
      <4>3. Head(fifo[c]) \in Nat /\ \A x \in Elems(buf[c]) : x < Head(fifo[c])
        BY <1>1, <1>2, <4>2, ElemsNat DEF OrderOf
      <4>4. /\ Ascends(Push(buf[c], Head(fifo[c])))
            /\ Elems(Push(buf[c], Head(fifo[c])))
                 \subseteq Elems(buf[c]) \cup {Head(fifo[c])}
        BY <1>1, <1>2, <4>3, AscendingPush DEF OrderOf
      <4>5. /\ Ascends(fifo[c])' /\ Ascends(buf[c])'
            /\ Elems(fifo[c])' \subseteq Elems(fifo[c])
            /\ Elems(buf[c])' \subseteq Elems(buf[c]) \cup {Head(fifo[c])}
            /\ \A x \in Elems(fifo[c])' : Head(fifo[c]) < x
        BY <4>1, <4>2, <4>4 DEF Ascends, Elems
      <4>6. \A x \in Elems(buf[c])', y \in Elems(fifo[c])' : x < y
        BY <1>2, <4>5 DEF OrderOf
      <4>7. \A x \in Elems(buf[c])' \cup Elems(fifo[c])' :
              x \in Elems(buf[c]) \cup Elems(fifo[c])
        BY <4>2, <4>5
      <4> QED
        BY <1>2, <2>1, <4>5, <4>6, <4>7 DEF OrderOf
    <3> QED
      BY <3>1, <3>2
  <2>3. \A d \in Chan \ {c} : OrderOf(d)'
    BY <1>3, <2>1
  <2> QED
    BY <2>2, <2>3 DEF Order
<1>7. ASSUME FindHead
      PROVE  Order'
  <2> SUFFICES ASSUME NEW c \in Chan
               PROVE  OrderOf(c)'
    BY DEF Order
  <2>1. UNCHANGED <<written, fifo, frame, emitted>> /\ buf[c] # <<>>
    BY <1>7 DEF FindHead, hw, TypeInv, TypeOK, Rounds
  <2>2. buf'[c] \in {buf[c], Tail(buf[c])}
    BY <1>7 DEF FindHead
  <2>3. Ascends(Tail(buf[c])) /\ Elems(Tail(buf[c])) \subseteq Elems(buf[c])
    BY <1>1, <1>2, <2>1, AscendingTail DEF OrderOf
  <2>4. Ascends(buf[c])' /\ Elems(buf[c])' \subseteq Elems(buf[c])
    BY <1>2, <2>2, <2>3 DEF OrderOf, Ascends, Elems
  <2>5. Ascends(fifo[c])' /\ Elems(fifo[c])' = Elems(fifo[c])
    BY <1>2, <2>1 DEF OrderOf, Ascends, Elems
  <2> QED
    BY <1>2, <2>1, <2>4, <2>5 DEF OrderOf
<1>8. CASE EmitFrame
  <2>1. UNCHANGED <<written, fifo>> /\ emitted' = emitted + 1
    BY <1>8 DEF EmitFrame, hw
  <2>2. ASSUME NEW c \in Chan
        PROVE  /\ OrderOf(c)'
               /\ \A i \in 1 .. FrameLen - 1 : frame'[c][i] < frame'[c][i + 1]
               /\ emitted > 0 => frame[c][FrameLen] < frame'[c][1]
    <3> DEFINE s == buf[c]
               head == SubSeq(s, 1, FrameLen)
               rest == SubSeq(s, FrameLen + 1, Len(s))
    <3>1. /\ s \in Seq(Nat) /\ FrameLen <= Len(s)
          /\ frame'[c] = head /\ buf'[c] = rest
      BY <1>1, <1>8 DEF EmitFrame, BothHave
    <3>2. /\ Len(head) = FrameLen /\ Ascends(head) /\ Ascends(rest)
          /\ Elems(head) \subseteq Elems(s) /\ Elems(rest) \subseteq Elems(s)
          /\ head[1] \in Elems(s) /\ head[FrameLen] \in Elems(s)
          /\ \A x \in Elems(rest) : head[FrameLen] < x
      BY <1>2, <3>1, AscendingSplit DEF OrderOf
    <3>3. /\ Ascends(buf[c])' /\ Elems(buf[c])' \subseteq Elems(buf[c])
          /\ \A x \in Elems(buf[c])' : frame'[c][FrameLen] < x
      BY <3>1, <3>2 DEF Ascends, Elems
    <3>4. Ascends(fifo[c])' /\ Elems(fifo[c])' = Elems(fifo[c])
      BY <1>2, <2>1 DEF OrderOf, Ascends, Elems
    <3>5. /\ frame'[c][FrameLen] \in Nat
          /\ frame'[c][FrameLen] < written[c]
          /\ \A x \in Elems(fifo[c]) : frame'[c][FrameLen] < x
      BY <1>2, <3>1, <3>2, ElemsNat DEF OrderOf
    <3>6. OrderOf(c)'
      BY <1>2, <2>1, <3>3, <3>4, <3>5 DEF OrderOf
    <3>7. \A i \in 1 .. FrameLen - 1 : head[i] < head[i + 1]
      <4>1. ASSUME NEW i \in 1 .. FrameLen - 1
            PROVE  i \in 1 .. FrameLen /\ i + 1 \in 1 .. FrameLen /\ i < i + 1
        OBVIOUS
      <4> QED
        BY <3>2, <4>1 DEF Ascends
    <3>8. emitted > 0 => frame[c][FrameLen] < head[1]
      BY <1>2, <3>2 DEF OrderOf
    <3> QED
      BY <3>1, <3>6, <3>7, <3>8
  <2> QED
    BY <2>2 DEF Order, ForwardStep
<1>9. ASSUME Toggle \/ Gate \/ NoFrame \/ Idle \/ UNCHANGED vars
      PROVE  Order'
  <2>1. UNCHANGED <<written, fifo, buf, frame, emitted>>
    BY <1>9 DEF Toggle, Gate, NoFrame, Idle, vars, hw
  <2> QED
    BY <1>3, <2>1 DEF Order
<1>10. ~EmitFrame => emitted' = emitted
  BY DEF Next, vars, hw, HwWrite, HwLose, Toggle, Loop, ReadA, ReadB, Read,
         Gate, FindHead, NoFrame, Idle
<1>11. ForwardStep
  BY <1>8, <1>10 DEF ForwardStep
<1>12. Order'
  BY <1>4, <1>5, <1>6, <1>7, <1>8, <1>9 DEF Next, Loop, ReadA, ReadB, Chan
<1> QED
  BY <1>11, <1>12

(* On each channel the words of the merged frames are strictly ascending,  *)
(* from frame to frame and within a frame: none is handed on twice.        *)
THEOREM GoesForward == Spec => Forward
<1>1. Init => TypeInv /\ Order
  BY TypeInit, OrderInit
<1>2. TypeInv /\ Order /\ [Next]_vars => TypeInv' /\ Order'
  BY TypeNext, OrderNext
<1>3. TypeInv /\ Order /\ [Next]_vars => [ForwardStep]_vars
  BY OrderNext
<1>4. Spec => [][ForwardStep]_vars
  BY <1>1, <1>2, <1>3, PTL DEF Spec
<1> QED
  BY <1>4 DEF Forward, ForwardStep
=============================================================================
