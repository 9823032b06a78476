-------------------------- MODULE FifoReaderProofs --------------------------
(* Proofs about the reader of the two chips, for every depth of a chip,    *)
(* width of a word, number of words, failure of a pin and death of the     *)
(* process.                                                                *)
EXTENDS FifoReader, SequenceTheorems, TLAPS

-----------------------------------------------------------------------------
(* The inductive invariant. *)

(* When fifo_init raises R, empties the chip and lets it work again. *)
Raising(c) == Emptying(c) - 2
Enabling(c) == Emptying(c) + 2

(* Nothing but the lines is ever driven, and a file is open of an exported *)
(* pin only.                                                               *)
PinsOK ==
  /\ exported \subseteq Pins /\ driven \subseteq exported
  /\ driven \subseteq Lines /\ opened \subseteq exported
  /\ failed \subseteq Pins /\ stray \in StrayPins
  /\ level \in [Lines -> {0, 1}]

(* The words of a chip are the last it has stored; its output is older.    *)
Numbered(c) ==
  /\ Len(mem[c]) <= Depth
  /\ latch[c] + Len(mem[c]) <= stored[c]
  /\ \A i \in 1 .. Len(mem[c]) : mem[c][i] = stored[c] - Len(mem[c]) + i
ChipsOK ==
  /\ mem \in [Chan -> Seq(Nat)] /\ latch \in [Chan -> Nat]
  /\ stored \in [Chan -> Nat]
  /\ \A c \in Chan : Numbered(c)

PlaceOK ==
  /\ stage \in Stages /\ chan \in Chan /\ at \in 1 .. 2 * Bits + 6
  /\ stage = "reset" => at <= 6
  /\ stage = "bits" => at <= Bits
  /\ stage \in Reading \ {"bits"} => at = 1

(* A word is in the making only while its chip is strobed. *)
WordOK ==
  /\ word \in Seq(Int)
  /\ Len(word) = IF stage = "bits" THEN at - 1
                 ELSE IF stage = "release" THEN Bits ELSE 0

GotOK ==
  /\ got \in [Chan -> Seq(Int)] /\ born \in [Chan -> Nat]
  /\ \A c \in Chan : /\ Len(got[c]) \in {0, Bits}
                     /\ stage \notin Reading => got[c] = <<>>
                     /\ born[c] <= stored[c]

TypeInv == PinsOK /\ ChipsOK /\ PlaceOK /\ WordOK /\ GotOK

(* What fifo_init has done for a chip for whose pins no call has failed.   *)
Prepared(c) ==
  /\ stage = "direct" =>
       \A k \in 1 .. at - 1 :
         DirectOrder[k] \in {R(c), RT(c)} => DirectOrder[k] \in driven
  /\ stage \notin {"register", "direct"} => {R(c), RT(c)} \subseteq driven
  /\ stage = "open" =>
       \A k \in 1 .. at - 1 :
         OpenOrder[k] \in PinsOf(c) => OpenOrder[k] \in opened
  /\ stage \notin {"register", "direct", "open"} => PinsOf(c) \subseteq opened

(* The words in the chip were stored since the process started. *)
New(c) == born[c] + Len(mem[c]) <= stored[c]

(* The reset of chip c when step k is the next to come. *)
ResetUpTo(c, k) ==
  /\ k > Raising(c) => level[R(c)] = 1
  /\ k > Emptying(c) /\ k <= Enabling(c) => level[RT(c)] = 0 /\ mem[c] = <<>>
  /\ k > Enabling(c) => level[RT(c)] = 1 /\ New(c)

Resetting(c) == stage = "reset" => ResetUpTo(c, at)

AllOf(s, n) == \A i \in 1 .. Len(s) : s[i] = n

(* The words still in the chip follow the one at its output without a gap. *)
Flush(c) == latch[c] > born[c] /\ latch[c] + Len(mem[c]) = stored[c]

Serving(c) ==
  stage \in Reading =>
    /\ level[RT(c)] = 1 /\ New(c)
    /\ level[R(c)] = IF InHand(c) THEN 0 ELSE 1
    /\ stage = "strobe" /\ chan = c => mem[c] # <<>>
    /\ InHand(c) =>
         /\ Flush(c) /\ AllOf(word, latch[c])
         /\ got[c] # <<>> => latch[c] - 1 > born[c] /\ AllOf(got[c], latch[c] - 1)
    /\ ~InHand(c) /\ got[c] # <<>> => Flush(c) /\ AllOf(got[c], latch[c])

SoundInv ==
  \A c \in Chan : Sound(c) => Prepared(c) /\ Resetting(c) /\ Serving(c)

Inv == TypeInv /\ SoundInv

-----------------------------------------------------------------------------
(* The pins and the orders in which fifo_init treats them. *)

LEMMA PinNames ==
  /\ R("A") # R("B") /\ RT("A") # RT("B")
  /\ \A c, d \in Chan : R(c) # RT(d)
  /\ \A c, d \in Chan : c # d => R(c) # R(d) /\ RT(c) # RT(d)
  /\ \A c, d \in Chan : EF(c) # R(d) /\ EF(c) # RT(d)
  /\ \A c, d \in Chan : \A i \in 1 .. Bits : Data(c, i) # R(d) /\ Data(c, i) # RT(d)
  /\ \A p \in Pins : p # <<>>
BY DEF R, RT, EF, Data, Chan, Pins, PinsOf

LEMMA PinSets ==
  /\ Lines \subseteq Pins
  /\ \A c \in Chan : {R(c), RT(c), EF(c)} \subseteq PinsOf(c) /\ PinsOf(c) \subseteq Pins
  /\ \A c \in Chan : R(c) \in Lines /\ RT(c) \in Lines
  /\ \A p \in Lines : \E c \in Chan : p = R(c) \/ p = RT(c)
BY DEF Lines, Pins, PinsOf, Chan

LEMMA DataPinsSeq ==
  /\ DataPins \in Seq(Pins) /\ Len(DataPins) = 2 * Bits
  /\ \A k \in 1 .. 2 * Bits : DataPins[k] = IF k <= Bits THEN Data("A", k) ELSE Data("B", k - Bits)
<1>1. Bits \in Nat /\ 2 * Bits \in Nat
  BY FifoReaderAssumption
<1>2. \A k \in 1 .. 2 * Bits :
        (IF k <= Bits THEN Data("A", k) ELSE Data("B", k - Bits)) \in Pins
  <2> TAKE k \in 1 .. 2 * Bits
  <2>1. CASE k <= Bits
    <3>1. k \in 1 .. Bits
      BY <1>1, <2>1
    <3> QED
      BY <2>1, <3>1 DEF Pins, PinsOf
  <2>2. CASE ~(k <= Bits)
    <3>1. k - Bits \in 1 .. Bits
      BY <1>1, <2>2
    <3> QED
      BY <2>2, <3>1 DEF Pins, PinsOf
  <2> QED
    BY <2>1, <2>2
<1>3. DataPins \in [1 .. 2 * Bits -> Pins]
  BY <1>2 DEF DataPins
<1>4. DataPins \in Seq(Pins) /\ Len(DataPins) = 2 * Bits
  BY <1>1, <1>3, SeqDef, LenProperties
<1> QED
  BY <1>4 DEF DataPins

LEMMA Orders ==
  /\ Len(RegisterOrder) = 2 * Bits + 6 /\ Len(DirectOrder) = 2 * Bits + 6
  /\ \A k \in 1 .. 2 * Bits + 6 : RegisterOrder[k] \in Pins /\ DirectOrder[k] \in Pins
  /\ \A p \in Pins : \E k \in 1 .. 2 * Bits + 6 : DirectOrder[k] = p
<1> DEFINE n == 2 * Bits
           rest == <<R("A"), RT("A"), EF("A"), R("B"), EF("B"), RT("B")>>
           tail == <<EF("A"), EF("B"), RT("A"), RT("B"), R("A"), R("B")>>
<1>1. /\ Bits \in Nat /\ n \in Nat
      /\ \A i \in 1 .. Bits : i \in 1 .. n /\ i + Bits \in 1 .. n
  BY FifoReaderAssumption
<1>2. {R("A"), RT("A"), EF("A"), R("B"), EF("B"), RT("B")} \subseteq Pins
  BY DEF Pins, PinsOf
<1>3. /\ rest \in Seq(Pins) /\ Len(rest) = 6 /\ tail \in Seq(Pins) /\ Len(tail) = 6
      /\ tail[1] = EF("A") /\ tail[2] = EF("B") /\ tail[3] = RT("A")
      /\ tail[4] = RT("B") /\ tail[5] = R("A") /\ tail[6] = R("B")
  BY <1>2
<1>4. RegisterOrder = DataPins \o rest /\ DirectOrder = DataPins \o tail
  BY DEF RegisterOrder, DirectOrder
<1>5. DataPins \in Seq(Pins) /\ Len(DataPins) = n
  BY DataPinsSeq
<1>6. \A i \in 1 .. Bits : DataPins[i] = Data("A", i) /\ DataPins[i + Bits] = Data("B", i)
  <2> TAKE i \in 1 .. Bits
  <2>1. DataPins[i] = Data("A", i)
    BY <1>1, DataPinsSeq
  <2>2. PICK k \in 1 .. n : k = i + Bits
    BY <1>1
  <2>3. ~(k <= Bits) /\ k - Bits = i
    BY <1>1, <2>2
  <2>4. DataPins[k] = Data("B", k - Bits)
    BY <2>3, DataPinsSeq
  <2> QED
    BY <2>1, <2>2, <2>3, <2>4
<1> HIDE DEF n, rest, tail
<1>7. ASSUME NEW t \in Seq(Pins), Len(t) = 6
      PROVE  /\ DataPins \o t \in Seq(Pins) /\ Len(DataPins \o t) = n + 6
             /\ \A k \in 1 .. n + 6 :
                  (DataPins \o t)[k] = IF k <= n THEN DataPins[k] ELSE t[k - n]
  <2>1. /\ DataPins \o t \in Seq(Pins)
        /\ Len(DataPins \o t) = Len(DataPins) + Len(t)
        /\ \A k \in 1 .. Len(DataPins) + Len(t) :
             (DataPins \o t)[k] = IF k <= Len(DataPins) THEN DataPins[k]
                                                        ELSE t[k - Len(DataPins)]
    BY <1>5, ConcatProperties
  <2> QED
    BY <1>5, <1>7, <2>1
<1>8. /\ RegisterOrder \in Seq(Pins) /\ Len(RegisterOrder) = n + 6
      /\ DirectOrder \in Seq(Pins) /\ Len(DirectOrder) = n + 6
      /\ \A k \in 1 .. n + 6 : DirectOrder[k] = IF k <= n THEN DataPins[k] ELSE tail[k - n]
  BY <1>3, <1>4, <1>7
<1>9. \A k \in 1 .. n + 6 : RegisterOrder[k] \in Pins /\ DirectOrder[k] \in Pins
  BY <1>8, ElementOfSeq
<1>10. ASSUME NEW c \in Chan, NEW p \in PinsOf(c)
       PROVE  \E k \in 1 .. n + 6 : DirectOrder[k] = p
  <2>1. CASE p \in {R(c), RT(c), EF(c)}
    <3>1. PICK j \in 1 .. 6 : tail[j] = p
      BY <1>3, <2>1 DEF Chan
    <3>2. PICK k \in 1 .. n + 6 : k = n + j
      BY <1>1
    <3>3. ~(k <= n) /\ k - n = j
      BY <1>1, <3>2
    <3> QED
      BY <1>8, <3>1, <3>3
  <2>2. CASE p \notin {R(c), RT(c), EF(c)}
    <3>1. PICK i \in 1 .. Bits : p = Data(c, i)
      BY <2>2 DEF PinsOf
    <3>2. PICK k \in 1 .. n : k = IF c = "A" THEN i ELSE i + Bits
      BY <1>1
    <3>3. DataPins[k] = p
      BY <1>6, <3>1, <3>2 DEF Chan
    <3>4. k <= n /\ k \in 1 .. n + 6
      BY <1>1
    <3> QED
      BY <1>8, <3>3, <3>4
  <2> QED
    BY <2>1, <2>2
<1> QED
  BY <1>8, <1>9, <1>10 DEF Pins, Chan, n

(* What each of the six steps of the reset does. *)
LEMMA Resets ==
  /\ Len(ResetSequence) = 6
  /\ \A c \in Chan : /\ Raising(c) \in {1, 2} /\ Emptying(c) = Raising(c) + 2
                     /\ Enabling(c) = Raising(c) + 4
                     /\ ResetSequence[Raising(c)] = <<R(c), 1>>
                     /\ ResetSequence[Emptying(c)] = <<RT(c), 0>>
                     /\ ResetSequence[Enabling(c)] = <<RT(c), 1>>
  /\ \A c \in Chan : \A k \in 1 .. 6 :
       /\ ResetSequence[k][1] \in Lines /\ ResetSequence[k][2] \in {0, 1}
       /\ k \notin {Raising(c), Emptying(c), Enabling(c)} =>
            ResetSequence[k][1] \notin {R(c), RT(c)}
<1> DEFINE s == ResetSequence
<1>1. /\ Len(s) = 6 /\ s[1] = <<R("A"), 1>> /\ s[2] = <<R("B"), 1>>
      /\ s[3] = <<RT("A"), 0>> /\ s[4] = <<RT("B"), 0>>
      /\ s[5] = <<RT("A"), 1>> /\ s[6] = <<RT("B"), 1>>
  BY DEF ResetSequence
<1> HIDE DEF s
<1>2. \A c \in Chan : /\ Raising(c) \in {1, 2} /\ Emptying(c) = Raising(c) + 2
                     /\ Enabling(c) = Raising(c) + 4
                     /\ s[Raising(c)] = <<R(c), 1>>
                     /\ s[Emptying(c)] = <<RT(c), 0>>
                     /\ s[Enabling(c)] = <<RT(c), 1>>
  BY <1>1 DEF Raising, Emptying, Enabling, Chan
<1>3. ASSUME NEW c \in Chan, NEW k \in 1 .. 6
      PROVE  /\ s[k][1] \in Lines /\ s[k][2] \in {0, 1}
             /\ k \notin {Raising(c), Emptying(c), Enabling(c)} => s[k][1] \notin {R(c), RT(c)}
  <2>1. k \in {1, 2, 3, 4, 5, 6}
    OBVIOUS
  <2>2. s[k][1] \in Lines /\ s[k][2] \in {0, 1}
    BY <1>1, <2>1 DEF Lines, Chan
  <2>3. ASSUME k \notin {Raising(c), Emptying(c), Enabling(c)}
        PROVE  s[k][1] \notin {R(c), RT(c)}
    <3>1. CASE c = "A"
      <4>1. k \in {2, 4, 6}
        BY <2>1, <2>3, <3>1 DEF Raising, Emptying, Enabling
      <4>2. s[k][1] \in {R("B"), RT("B")}
        BY <1>1, <4>1
      <4> QED
        BY <3>1, <4>2, PinNames DEF Chan
    <3>2. CASE c = "B"
      <4>1. k \in {1, 3, 5}
        BY <2>1, <2>3, <3>2 DEF Raising, Emptying, Enabling
      <4>2. s[k][1] \in {R("A"), RT("A")}
        BY <1>1, <4>1
      <4> QED
        BY <3>2, <4>2, PinNames DEF Chan
    <3> QED
      BY <3>1, <3>2 DEF Chan
  <2> QED
    BY <2>2, <2>3
<1> QED
  BY <1>1, <1>2, <1>3 DEF s

-----------------------------------------------------------------------------
(* The chips. *)

(* What is left when the front word is taken is numbered as before. *)
LEMMA TakeFront ==
  ASSUME ChipsOK, NEW c \in Chan, mem[c] # <<>>
  PROVE  /\ Head(mem[c]) = stored[c] - Len(mem[c]) + 1 /\ Head(mem[c]) \in Nat
         /\ Tail(mem[c]) \in Seq(Nat) /\ Len(Tail(mem[c])) = Len(mem[c]) - 1
         /\ Len(mem[c]) \in Nat \ {0}
         /\ \A i \in 1 .. Len(mem[c]) - 1 :
              Tail(mem[c])[i] = stored[c] - (Len(mem[c]) - 1) + i
<1> DEFINE m == mem[c]
<1>1. m \in Seq(Nat) /\ m # <<>> /\ stored[c] \in Nat
  BY DEF ChipsOK
<1>2. \A i \in 1 .. Len(m) : m[i] = stored[c] - Len(m) + i
  BY DEF ChipsOK, Numbered
<1> HIDE DEF m
<1>3. /\ Tail(m) \in Seq(Nat) /\ Len(Tail(m)) = Len(m) - 1 /\ Len(m) \in Nat \ {0}
      /\ Head(m) = m[1] /\ m[1] \in Nat
      /\ \A i \in 1 .. Len(m) - 1 : Tail(m)[i] = m[i + 1]
  BY <1>1, HeadTailProperties, EmptySeq, LenProperties, ElementOfSeq
<1>4. ASSUME NEW i \in 1 .. Len(m) - 1
      PROVE  Tail(m)[i] = stored[c] - (Len(m) - 1) + i
  <2>1. i + 1 \in 1 .. Len(m)
    BY <1>3
  <2>2. Tail(m)[i] = stored[c] - Len(m) + (i + 1)
    BY <1>2, <1>3, <2>1
  <2>3. \A x, y, z \in Int : x - y + (z + 1) = x - (y - 1) + z
    OBVIOUS
  <2>4. stored[c] \in Int /\ Len(m) \in Int /\ i \in Int
    BY <1>1, <1>3
  <2> QED
    BY <2>2, <2>3, <2>4
<1>5. m[1] = stored[c] - Len(m) + 1
  BY <1>2, <1>3
<1> QED
  BY <1>3, <1>4, <1>5 DEF m

(* A step of the lines empties a chip, moves its front word to the output, *)
(* or leaves it alone.                                                      *)
Emptied(c) == Line(RT(c))' = 0 /\ mem'[c] = <<>> /\ latch'[c] = latch[c]
Shifted(c) == Falls(c) /\ mem[c] # <<>> /\ mem'[c] = Tail(mem[c]) /\ latch'[c] = Head(mem[c])
Kept(c) == Line(RT(c))' # 0 /\ ~Falls(c) /\ mem'[c] = mem[c] /\ latch'[c] = latch[c]

LEMMA ChipMoves ==
  ASSUME ChipsOK, ChipsFollow
  PROVE  \A c \in Chan : Emptied(c) \/ Shifted(c) \/ Kept(c)
<1> TAKE c \in Chan
<1>1. /\ mem'[c] = CASE Line(RT(c))' = 0 -> <<>>
                      [] Falls(c) -> Tail(mem[c])
                      [] OTHER -> mem[c]
      /\ latch'[c] = IF Falls(c) THEN Head(mem[c]) ELSE latch[c]
  BY DEF ChipsFollow
<1>2. Falls(c) => Line(RT(c))' = 1 /\ mem[c] # <<>>
  BY DEF Falls
<1>3. CASE Line(RT(c))' = 0
  BY <1>1, <1>2, <1>3 DEF Emptied
<1>4. CASE Falls(c)
  BY <1>1, <1>2, <1>4 DEF Shifted
<1>5. CASE Line(RT(c))' # 0 /\ ~Falls(c)
  BY <1>1, <1>5 DEF Kept
<1> QED
  BY <1>3, <1>4, <1>5

LEMMA ChipsFollowType ==
  ASSUME ChipsOK, ChipsFollow, stored' = stored
  PROVE  ChipsOK'
<1>1. ASSUME NEW c \in Chan
      PROVE  /\ mem'[c] \in Seq(Nat) /\ latch'[c] \in Nat
             /\ Numbered(c)'
  <2>1. /\ mem[c] \in Seq(Nat) /\ latch[c] \in Nat /\ stored[c] \in Nat
        /\ Len(mem[c]) \in Nat /\ Depth \in Nat
    BY LenProperties, FifoReaderAssumption DEF ChipsOK
  <2>2. /\ Len(mem[c]) <= Depth /\ latch[c] + Len(mem[c]) <= stored[c]
        /\ \A i \in 1 .. Len(mem[c]) : mem[c][i] = stored[c] - Len(mem[c]) + i
    BY DEF ChipsOK, Numbered
  <2>3. CASE Emptied(c)
    <3>1. mem'[c] = <<>> /\ latch'[c] = latch[c] /\ Len(<<>>) = 0 /\ <<>> \in Seq(Nat)
      BY <2>3 DEF Emptied
    <3>2. 0 <= Depth /\ latch[c] + 0 <= stored[c]
      BY <2>1, <2>2
    <3> QED
      BY <2>1, <3>1, <3>2 DEF Numbered
  <2>4. CASE Shifted(c)
    <3>1. mem[c] # <<>> /\ mem'[c] = Tail(mem[c]) /\ latch'[c] = Head(mem[c])
      BY <2>4 DEF Shifted
    <3>2. /\ latch'[c] = stored[c] - Len(mem[c]) + 1 /\ latch'[c] \in Nat
          /\ mem'[c] \in Seq(Nat) /\ Len(mem'[c]) = Len(mem[c]) - 1
          /\ \A i \in 1 .. Len(mem[c]) - 1 :
               mem'[c][i] = stored[c] - (Len(mem[c]) - 1) + i
      BY <3>1, TakeFront
    <3>3. Len(mem'[c]) <= Depth
      <4>1. Len(mem'[c]) = Len(mem[c]) - 1
        BY <3>2
      <4> QED
        BY <2>1, <2>2, <4>1
    <3>4. latch'[c] + Len(mem'[c]) <= stored[c]
      <4>1. Len(mem'[c]) = Len(mem[c]) - 1 /\ latch'[c] = stored[c] - Len(mem[c]) + 1
        BY <3>2
      <4> QED
        BY <2>1, <4>1
    <3>5. \A i \in 1 .. Len(mem'[c]) : mem'[c][i] = stored[c] - Len(mem'[c]) + i
      BY <2>1, <3>2
    <3> QED
      BY <3>2, <3>3, <3>4, <3>5 DEF Numbered
  <2>5. CASE Kept(c)
    BY <2>1, <2>2, <2>5 DEF Kept, Numbered
  <2> QED
    BY <2>3, <2>4, <2>5, ChipMoves
<1>2. DOMAIN mem' = Chan /\ mem' = [c \in Chan |-> mem'[c]]
      /\ latch' = [c \in Chan |-> latch'[c]]
  BY DEF ChipsFollow
<1>3. mem' \in [Chan -> Seq(Nat)] /\ latch' \in [Chan -> Nat]
  BY <1>1, <1>2
<1> QED
  BY <1>1, <1>3 DEF ChipsOK

(* What a write to a pin does to the lines. *)
LEMMA SetLevel ==
  ASSUME PinsOK, NEW p, NEW v \in {0, 1}, Set(p, v)
  PROVE  /\ level' \in [Lines -> {0, 1}] /\ exported' = exported /\ driven' = driven
         /\ p \in opened \cap driven => level'[p] = v
         /\ \A q \in Lines : q # p => level'[q] = level[q]
<1>1. /\ level' = IF p \in opened \cap driven THEN [level EXCEPT ![p] = v] ELSE level
      /\ exported' = exported /\ driven' = driven
  BY DEF Set
<1>2. level \in [Lines -> {0, 1}] /\ driven \subseteq Lines
  BY DEF PinsOK
<1> QED
  BY <1>1, <1>2

-----------------------------------------------------------------------------
(* Types. *)

LEMMA StageNames ==
  /\ Reading \subseteq Stages /\ Stages = Reading \cup {"register", "direct", "open", "reset"}
  /\ {"register", "direct", "open", "reset"} \cap Reading = {}
BY DEF Stages, Reading

LEMMA TypeInit == Init => TypeInv
<1> SUFFICES ASSUME Init
             PROVE  TypeInv
  OBVIOUS
<1>1. PinsOK
  BY DEF Init, PinsOK
<1>2. ChipsOK
  <2>1. <<>> \in Seq(Nat) /\ Len(<<>>) = 0 /\ 0 <= Depth
    BY FifoReaderAssumption
  <2>2. /\ mem = [c \in Chan |-> <<>>] /\ latch = [c \in Chan |-> 0]
        /\ stored = [c \in Chan |-> 0]
    BY DEF Init
  <2> QED
    BY <2>1, <2>2 DEF ChipsOK, Numbered
<1>3. PlaceOK
  BY FifoReaderAssumption DEF Init, PlaceOK, Stages, Reading, Chan
<1>4. WordOK
  BY DEF Init, WordOK
<1>5. GotOK
  BY DEF Init, GotOK
<1> QED
  BY <1>1, <1>2, <1>3, <1>4, <1>5 DEF TypeInv

(* Steps that leave the chips alone, and the words. *)
LEMMA ChipsKept ==
  ASSUME ChipsOK, UNCHANGED <<chip, stored>>
  PROVE  ChipsOK'
BY DEF ChipsOK, Numbered, chip

LEMMA PinsKept ==
  ASSUME PinsOK, exported' \subseteq Pins, exported \subseteq exported',
         UNCHANGED <<driven, level, opened, failed, stray>>
  PROVE  PinsOK'
BY DEF PinsOK

(* Before the loop nothing has been read. *)
LEMMA InitialisingKept ==
  ASSUME TypeInv, stage \notin Reading, stage' # "bits", stage' # "release",
         UNCHANGED <<word, got, born, stored>>
  PROVE  WordOK' /\ GotOK'
<1>1. WordOK'
  BY StageNames DEF TypeInv, WordOK, Reading
<1>2. GotOK'
  BY DEF TypeInv, GotOK
<1> QED
  BY <1>1, <1>2

LEMMA ExportType ==
  ASSUME TypeInv, Export
  PROVE  TypeInv'
<1>1. /\ stage = "register" /\ at \in 1 .. 2 * Bits + 6 /\ chan \in Chan /\ Bits \in Nat \ {0}
  BY FifoReaderAssumption DEF TypeInv, PlaceOK, Export
<1>2. IF at < 2 * Bits + 6 THEN at' = at + 1 /\ stage' = stage
                           ELSE at' = 1 /\ stage' = "direct"
  BY Orders DEF Export, Advance
<1>3. PinsOK'
  <2>1. RegisterOrder[at] \in Pins
    BY <1>1, Orders
  <2> QED
    BY <2>1, PinsKept DEF TypeInv, PinsOK, Export
<1>4. ChipsOK'
  BY ChipsKept DEF TypeInv, Export
<1>5. PlaceOK'
  <2>1. chan' = chan
    BY DEF Export
  <2> QED
    BY <1>1, <1>2, <2>1 DEF PlaceOK, Stages, Reading
<1>6. WordOK' /\ GotOK'
  <2>1. stage \notin Reading /\ stage' # "bits" /\ stage' # "release"
    BY <1>1, <1>2 DEF Reading
  <2> QED
    BY <2>1, InitialisingKept DEF Export
<1> QED
  BY <1>3, <1>4, <1>5, <1>6 DEF TypeInv

LEMMA RegisterFailsType ==
  ASSUME TypeInv, RegisterFails
  PROVE  TypeInv'
<1>1. /\ stage = "register" /\ stage' = "direct" /\ at = 1 /\ at' = 1 /\ chan' = chan
  BY DEF RegisterFails
<1>2. PinsOK'
  BY PinsKept DEF TypeInv, PinsOK, RegisterFails, kernel
<1>3. ChipsOK'
  BY ChipsKept DEF TypeInv, RegisterFails
<1>4. PlaceOK'
  BY <1>1 DEF TypeInv, PlaceOK, Stages, Reading
<1>5. WordOK' /\ GotOK'
  <2>1. stage \notin Reading /\ stage' # "bits" /\ stage' # "release"
    BY <1>1 DEF Reading
  <2> QED
    BY <2>1, InitialisingKept DEF RegisterFails
<1> QED
  BY <1>2, <1>3, <1>4, <1>5 DEF TypeInv

(* A pin that is there becomes an output if it is a line. *)
Directs(p) ==
  /\ p \in exported
  /\ driven' = IF p \in Lines THEN driven \cup {p} ELSE driven \ {p}
  /\ level' = IF p \in Lines THEN [level EXCEPT ![p] = 0] ELSE level
  /\ ChipsFollow
  /\ failed' = failed
NotDirected(p) == failed' = failed \cup {p} /\ UNCHANGED <<driven, level, chip>>

LEMMA DirectSteps ==
  ASSUME TypeInv, Direct
  PROVE  /\ stage = "direct" /\ at \in 1 .. 2 * Bits + 6 /\ DirectOrder[at] \in Pins
         /\ Directs(DirectOrder[at]) \/ NotDirected(DirectOrder[at])
         /\ IF at < 2 * Bits + 6 THEN at' = at + 1 /\ stage' = stage
                                  ELSE at' = 1 /\ stage' = "open"
         /\ UNCHANGED <<exported, stored, opened, stray, chan, word, got, born>>
<1>1. stage = "direct" /\ UNCHANGED <<exported, stored, opened, stray, chan, word, got, born>>
  BY DEF Direct
<1>2. at \in 1 .. 2 * Bits + 6
  BY DEF TypeInv, PlaceOK
<1>3. Directs(DirectOrder[at]) \/ NotDirected(DirectOrder[at])
  BY DEF Direct, Directs, NotDirected, Outputs
<1>4. IF at < 2 * Bits + 6 THEN at' = at + 1 /\ stage' = stage
                           ELSE at' = 1 /\ stage' = "open"
  BY Orders DEF Direct, Advance
<1> QED
  BY <1>1, <1>2, <1>3, <1>4, Orders

LEMMA DirectType ==
  ASSUME TypeInv, Direct
  PROVE  TypeInv'
<1> DEFINE p == DirectOrder[at]
<1>1. /\ stage = "direct" /\ at \in 1 .. 2 * Bits + 6 /\ p \in Pins
      /\ Directs(p) \/ NotDirected(p)
      /\ IF at < 2 * Bits + 6 THEN at' = at + 1 /\ stage' = stage
                               ELSE at' = 1 /\ stage' = "open"
      /\ UNCHANGED <<exported, stored, opened, stray, chan, word, got, born>>
  BY DirectSteps
<1>2. Bits \in Nat \ {0} /\ chan \in Chan
  BY FifoReaderAssumption DEF TypeInv, PlaceOK
<1> HIDE DEF p
<1>3. PinsOK'
  <2>1. CASE Directs(p)
    BY <1>1, <2>1 DEF TypeInv, PinsOK, Directs
  <2>2. CASE NotDirected(p)
    BY <1>1, <2>2 DEF TypeInv, PinsOK, NotDirected
  <2> QED
    BY <1>1, <2>1, <2>2
<1>4. ChipsOK'
  <2>1. CASE Directs(p)
    BY <1>1, <2>1, ChipsFollowType DEF TypeInv, Directs
  <2>2. CASE NotDirected(p)
    BY <1>1, <2>2, ChipsKept DEF TypeInv, NotDirected
  <2> QED
    BY <1>1, <2>1, <2>2
<1>5. PlaceOK'
  BY <1>1, <1>2 DEF PlaceOK, Stages, Reading
<1>6. WordOK' /\ GotOK'
  <2>1. stage \notin Reading /\ stage' # "bits" /\ stage' # "release"
    BY <1>1 DEF Reading
  <2> QED
    BY <1>1, <2>1, InitialisingKept
<1> QED
  BY <1>3, <1>4, <1>5, <1>6 DEF TypeInv

Opens(p) == p \in exported /\ opened' = opened \cup {p} /\ failed' = failed
NotOpened(p) == failed' = failed \cup {p} /\ opened' = opened

LEMMA OpenSteps ==
  ASSUME TypeInv, Open
  PROVE  /\ stage = "open" /\ at \in 1 .. 2 * Bits + 6 /\ OpenOrder[at] \in Pins
         /\ Opens(OpenOrder[at]) \/ NotOpened(OpenOrder[at])
         /\ IF at < 2 * Bits + 6 THEN at' = at + 1 /\ stage' = stage
                                  ELSE at' = 1 /\ stage' = "reset"
         /\ UNCHANGED <<kernel, chip, stored, stray, chan, word, got, born>>
<1>1. /\ stage = "open"
      /\ UNCHANGED <<kernel, chip, stored, stray, chan, word, got, born>>
  BY DEF Open
<1>2. at \in 1 .. 2 * Bits + 6
  BY DEF TypeInv, PlaceOK
<1>3. Opens(OpenOrder[at]) \/ NotOpened(OpenOrder[at])
  BY DEF Open, Opens, NotOpened
<1>4. IF at < 2 * Bits + 6 THEN at' = at + 1 /\ stage' = stage
                           ELSE at' = 1 /\ stage' = "reset"
  BY Orders DEF Open, Advance, OpenOrder
<1> QED
  BY <1>1, <1>2, <1>3, <1>4, Orders DEF OpenOrder

LEMMA OpenType ==
  ASSUME TypeInv, Open
  PROVE  TypeInv'
<1> DEFINE p == OpenOrder[at]
<1>1. /\ stage = "open" /\ at \in 1 .. 2 * Bits + 6 /\ p \in Pins
      /\ Opens(p) \/ NotOpened(p)
      /\ IF at < 2 * Bits + 6 THEN at' = at + 1 /\ stage' = stage
                               ELSE at' = 1 /\ stage' = "reset"
      /\ UNCHANGED <<kernel, chip, stored, stray, chan, word, got, born>>
  BY OpenSteps
<1>2. Bits \in Nat \ {0} /\ chan \in Chan
  BY FifoReaderAssumption DEF TypeInv, PlaceOK
<1> HIDE DEF p
<1>3. PinsOK'
  BY <1>1 DEF TypeInv, PinsOK, Opens, NotOpened, kernel
<1>4. ChipsOK'
  BY <1>1, ChipsKept DEF TypeInv
<1>5. PlaceOK'
  BY <1>1, <1>2 DEF PlaceOK, Stages, Reading
<1>6. WordOK' /\ GotOK'
  <2>1. stage \notin Reading /\ stage' # "bits" /\ stage' # "release"
    BY <1>1 DEF Reading
  <2> QED
    BY <1>1, <2>1, InitialisingKept
<1> QED
  BY <1>3, <1>4, <1>5, <1>6 DEF TypeInv

(* A step that is nothing but a write to a pin. *)
LEMMA SetType ==
  ASSUME TypeInv, NEW p, NEW v \in {0, 1}, Set(p, v),
         UNCHANGED <<stored, opened, failed, stray>>
  PROVE  PinsOK' /\ ChipsOK'
<1>1. PinsOK'
  <2>1. PinsOK
    BY DEF TypeInv
  <2>2. level' \in [Lines -> {0, 1}] /\ exported' = exported /\ driven' = driven
    BY <2>1, SetLevel
  <2> QED
    BY <2>1, <2>2 DEF PinsOK
<1>2. ChipsOK'
  BY ChipsFollowType DEF TypeInv, Set
<1> QED
  BY <1>1, <1>2

LEMMA ResetSteps ==
  ASSUME TypeInv, Reset
  PROVE  /\ stage = "reset" /\ at \in 1 .. 6
         /\ Set(ResetSequence[at][1], ResetSequence[at][2])
         /\ IF at < 6 THEN at' = at + 1 /\ stage' = stage
                       ELSE at' = 1 /\ stage' = "flag"
         /\ UNCHANGED <<stored, opened, failed, stray, chan, word, got, born>>
<1>1. stage = "reset" /\ Set(ResetSequence[at][1], ResetSequence[at][2])
  BY DEF Reset
<1>2. at \in 1 .. 6
  BY <1>1, FifoReaderAssumption DEF TypeInv, PlaceOK
<1>3. IF at < 6 THEN at' = at + 1 /\ stage' = stage ELSE at' = 1 /\ stage' = "flag"
  BY Resets DEF Reset, Advance
<1>4. UNCHANGED <<stored, opened, failed, stray, chan, word, got, born>>
  BY DEF Reset, history
<1> QED
  BY <1>1, <1>2, <1>3, <1>4

LEMMA ResetType ==
  ASSUME TypeInv, Reset
  PROVE  TypeInv'
<1> DEFINE p == ResetSequence[at][1]
           v == ResetSequence[at][2]
<1>1. /\ stage = "reset" /\ at \in 1 .. 6 /\ Set(p, v)
      /\ IF at < 6 THEN at' = at + 1 /\ stage' = stage
                    ELSE at' = 1 /\ stage' = "flag"
      /\ UNCHANGED <<stored, opened, failed, stray, chan, word, got, born>>
  BY ResetSteps
<1>2. Bits \in Nat \ {0} /\ chan \in Chan /\ v \in {0, 1}
  BY <1>1, Resets, FifoReaderAssumption DEF TypeInv, PlaceOK, Chan
<1> HIDE DEF p, v
<1>3. PinsOK' /\ ChipsOK'
  BY <1>1, <1>2, SetType
<1>4. PlaceOK'
  BY <1>1, <1>2 DEF PlaceOK, Stages, Reading
<1>5. WordOK' /\ GotOK'
  <2>1. stage \notin Reading /\ stage' # "bits" /\ stage' # "release"
    BY <1>1 DEF Reading
  <2> QED
    BY <1>1, <2>1, InitialisingKept
<1> QED
  BY <1>3, <1>4, <1>5 DEF TypeInv

(* Where the loop goes. *)
LEMMA LoopPlaces ==
  ASSUME TypeInv, stage \in Reading \ {"bits"}
  PROVE  /\ at = 1 /\ chan \in Chan /\ Bits \in Nat \ {0}
         /\ word \in Seq(Int)
         /\ Len(word) = IF stage = "release" THEN Bits ELSE 0
BY FifoReaderAssumption DEF TypeInv, PlaceOK, WordOK

LEMMA ReadFlagType ==
  ASSUME TypeInv, ReadFlag
  PROVE  TypeInv'
<1>1. /\ stage = "flag" /\ stage' \in {"strobe", "flag", "idle"} /\ chan' \in Chan
      /\ UNCHANGED <<kernel, chip, stored, opened, failed, stray, at, word, got, born>>
  <2>1. chan \in Chan
    BY DEF TypeInv, PlaceOK
  <2> QED
    BY <2>1 DEF ReadFlag, NextChannel, Chan, history
<1>2. at = 1 /\ word \in Seq(Int) /\ Len(word) = 0 /\ Bits \in Nat \ {0}
  BY <1>1, LoopPlaces DEF Reading
<1>3. PinsOK' /\ ChipsOK'
  BY <1>1, ChipsKept DEF TypeInv, PinsOK, kernel
<1>4. PlaceOK'
  BY <1>1, <1>2 DEF PlaceOK, Stages, Reading
<1>5. WordOK'
  BY <1>1, <1>2 DEF WordOK
<1>6. GotOK'
  BY <1>1 DEF TypeInv, GotOK, Reading
<1> QED
  BY <1>3, <1>4, <1>5, <1>6 DEF TypeInv

LEMMA StrobeType ==
  ASSUME TypeInv, Strobe
  PROVE  TypeInv'
<1>1. /\ stage = "strobe" /\ stage' = "bits" /\ word' = <<>> /\ Set(R(chan), 0)
      /\ UNCHANGED <<stored, opened, failed, stray, at, chan, got, born>>
  BY DEF Strobe, history
<1>2. at = 1 /\ chan \in Chan /\ Bits \in Nat \ {0}
  BY <1>1, LoopPlaces DEF Reading
<1>3. PinsOK' /\ ChipsOK'
  BY <1>1, SetType
<1>4. PlaceOK'
  BY <1>1, <1>2 DEF PlaceOK, Stages, Reading
<1>5. WordOK'
  BY <1>1, <1>2 DEF WordOK
<1>6. GotOK'
  BY <1>1 DEF TypeInv, GotOK, Reading
<1> QED
  BY <1>3, <1>4, <1>5, <1>6 DEF TypeInv

(* A bit is 0, comes from a word of the chip, or from none. *)
LEMMA ReadBitSteps ==
  ASSUME TypeInv, ReadBit
  PROVE  /\ stage = "bits" /\ at \in 1 .. Bits /\ Bits \in Nat \ {0} /\ chan \in Chan
         /\ word \in Seq(Int) /\ Len(word) = at - 1
         /\ Bit(chan, PinOf(chan, at)) \in Int
         /\ word' = Append(word, Bit(chan, PinOf(chan, at)))
         /\ word' \in Seq(Int) /\ Len(word') = at
         /\ IF at = Bits THEN at' = 1 /\ stage' = "release"
                         ELSE at' = at + 1 /\ stage' = stage
         /\ UNCHANGED <<kernel, chip, stored, opened, failed, stray, chan, got, born>>
<1>1. /\ stage = "bits" /\ word' = Append(word, Bit(chan, PinOf(chan, at)))
      /\ IF at = Bits THEN at' = 1 /\ stage' = "release"
                      ELSE at' = at + 1 /\ stage' = stage
      /\ UNCHANGED <<kernel, chip, stored, opened, failed, stray, chan, got, born>>
  BY DEF ReadBit, LastBit, history
<1>2. at \in 1 .. Bits /\ Bits \in Nat \ {0} /\ chan \in Chan
  BY <1>1, FifoReaderAssumption DEF TypeInv, PlaceOK
<1>3. word \in Seq(Int) /\ Len(word) = at - 1
  BY <1>1 DEF TypeInv, WordOK
<1>4. Bit(chan, PinOf(chan, at)) \in Int
  <2>1. latch[chan] \in Nat
    BY <1>2 DEF TypeInv, ChipsOK
  <2> QED
    BY <2>1 DEF Bit, Output, Floating
<1> DEFINE b == Bit(chan, PinOf(chan, at))
<1>5. word' = Append(word, b) /\ b \in Int
  BY <1>1, <1>4
<1> HIDE DEF b
<1>6. word' \in Seq(Int) /\ Len(word') = Len(word) + 1
  BY <1>3, <1>5, AppendProperties
<1>7. Len(word') = at
  BY <1>2, <1>3, <1>6
<1> QED
  BY <1>1, <1>2, <1>3, <1>4, <1>6, <1>7

LEMMA ReadBitType ==
  ASSUME TypeInv, ReadBit
  PROVE  TypeInv'
<1>1. /\ stage = "bits" /\ at \in 1 .. Bits /\ Bits \in Nat \ {0} /\ chan \in Chan
      /\ word' \in Seq(Int) /\ Len(word') = at
      /\ IF at = Bits THEN at' = 1 /\ stage' = "release"
                      ELSE at' = at + 1 /\ stage' = stage
      /\ UNCHANGED <<kernel, chip, stored, opened, failed, stray, chan, got, born>>
  BY ReadBitSteps
<1>2. PinsOK' /\ ChipsOK'
  BY <1>1, ChipsKept DEF TypeInv, PinsOK, kernel
<1>3. PlaceOK'
  BY <1>1 DEF PlaceOK, Stages, Reading
<1>4. WordOK'
  BY <1>1 DEF WordOK
<1>5. GotOK'
  BY <1>1 DEF TypeInv, GotOK, Reading
<1> QED
  BY <1>2, <1>3, <1>4, <1>5 DEF TypeInv

LEMMA ReleaseSteps ==
  ASSUME TypeInv, Release
  PROVE  /\ stage = "release" /\ stage' \in {"flag", "idle"} /\ Set(R(chan), 1)
         /\ chan \in Chan /\ chan' \in Chan /\ Bits \in Nat \ {0}
         /\ word \in Seq(Int) /\ Len(word) = Bits /\ word' = <<>>
         /\ at = 1 /\ got' = [got EXCEPT ![chan] = word]
         /\ UNCHANGED <<stored, opened, failed, stray, at, born>>
<1>1. /\ stage = "release" /\ Set(R(chan), 1) /\ word' = <<>>
      /\ got' = [got EXCEPT ![chan] = word]
      /\ UNCHANGED <<stored, opened, failed, stray, at, born>>
  BY DEF Release, Released, history
<1>2. at = 1 /\ chan \in Chan /\ word \in Seq(Int) /\ Len(word) = Bits /\ Bits \in Nat \ {0}
  BY <1>1, LoopPlaces DEF Reading
<1>3. stage' \in {"flag", "idle"} /\ chan' \in Chan
  BY DEF Release, NextChannel, Chan
<1> QED
  BY <1>1, <1>2, <1>3

LEMMA ReleaseType ==
  ASSUME TypeInv, Release
  PROVE  TypeInv'
<1>1. /\ stage = "release" /\ stage' \in {"flag", "idle"} /\ Set(R(chan), 1)
      /\ chan \in Chan /\ chan' \in Chan /\ Bits \in Nat \ {0}
      /\ word \in Seq(Int) /\ Len(word) = Bits /\ word' = <<>>
      /\ at = 1 /\ got' = [got EXCEPT ![chan] = word]
      /\ UNCHANGED <<stored, opened, failed, stray, at, born>>
  BY ReleaseSteps
<1>2. PinsOK' /\ ChipsOK'
  BY <1>1, SetType
<1>3. PlaceOK'
  BY <1>1 DEF PlaceOK, Stages, Reading
<1>4. WordOK'
  BY <1>1 DEF WordOK
<1>5. GotOK'
  <2>1. got \in [Chan -> Seq(Int)]
    BY DEF TypeInv, GotOK
  <2>2. got' \in [Chan -> Seq(Int)]
    BY <1>1, <2>1
  <2>3. \A c \in Chan : Len(got'[c]) \in {0, Bits}
    BY <1>1, <2>1 DEF TypeInv, GotOK
  <2>4. stage' \in Reading
    BY <1>1 DEF Reading
  <2>5. born' \in [Chan -> Nat] /\ \A c \in Chan : born'[c] <= stored'[c]
    BY <1>1 DEF TypeInv, GotOK
  <2> QED
    BY <2>2, <2>3, <2>4, <2>5 DEF GotOK
<1> QED
  BY <1>2, <1>3, <1>4, <1>5 DEF TypeInv

LEMMA IdleType ==
  ASSUME TypeInv, Idle
  PROVE  TypeInv'
<1>1. /\ stage = "idle" /\ stage' \in {"led", "flag"}
      /\ UNCHANGED <<kernel, chip, stored, opened, failed, stray, at, chan, word, got, born>>
  BY DEF Idle, history
<1>2. /\ at = 1 /\ word \in Seq(Int) /\ Len(word) = 0 /\ Bits \in Nat \ {0} /\ chan \in Chan
  BY <1>1, LoopPlaces DEF Reading
<1>3. PinsOK' /\ ChipsOK'
  BY <1>1, ChipsKept DEF TypeInv, PinsOK, kernel
<1>4. PlaceOK'
  BY <1>1, <1>2 DEF PlaceOK, Stages, Reading
<1>5. WordOK'
  BY <1>1, <1>2 DEF WordOK
<1>6. GotOK'
  BY <1>1 DEF TypeInv, GotOK, Reading
<1> QED
  BY <1>3, <1>4, <1>5, <1>6 DEF TypeInv

LEMMA SaveLedType ==
  ASSUME TypeInv, SaveLed
  PROVE  TypeInv'
<1>1. /\ stage = "led" /\ stage' = "flag"
      /\ UNCHANGED <<stored, opened, failed, stray, at, chan, word, got, born>>
  BY DEF SaveLed, history
<1>2. /\ at = 1 /\ word \in Seq(Int) /\ Len(word) = 0 /\ Bits \in Nat \ {0} /\ chan \in Chan
  BY <1>1, LoopPlaces DEF Reading
<1>3. PinsOK' /\ ChipsOK'
  <2>1. PICK v \in {0, 1} : Set(stray, v)
    BY DEF SaveLed
  <2> QED
    BY <1>1, <2>1, SetType
<1>4. PlaceOK'
  BY <1>1, <1>2 DEF PlaceOK, Stages, Reading
<1>5. WordOK'
  BY <1>1, <1>2 DEF WordOK
<1>6. GotOK'
  BY <1>1 DEF TypeInv, GotOK, Reading
<1> QED
  BY <1>3, <1>4, <1>5, <1>6 DEF TypeInv

LEMMA HwWriteSteps ==
  ASSUME TypeInv, NEW d \in Chan, HwWrite(d)
  PROVE  /\ stored' = [stored EXCEPT ![d] = stored[d] + 1]
         /\ mem' = [mem EXCEPT ![d] = Append(mem[d], stored[d] + 1)]
         /\ Len(mem[d]) < Depth /\ Line(RT(d)) = 1
         /\ Append(mem[d], stored[d] + 1) \in Seq(Nat)
         /\ Len(Append(mem[d], stored[d] + 1)) = Len(mem[d]) + 1
         /\ UNCHANGED <<kernel, latch, opened, failed, stray, stage, at, chan, word, got, born>>
<1>1. stored \in [Chan -> Nat] /\ mem \in [Chan -> Seq(Nat)]
  BY DEF TypeInv, ChipsOK
<1>2. /\ stored' = [stored EXCEPT ![d] = stored[d] + 1]
      /\ mem' = [mem EXCEPT ![d] = Append(mem[d], stored'[d])]
      /\ Len(mem[d]) < Depth /\ Line(RT(d)) = 1
      /\ UNCHANGED <<kernel, latch, opened, failed, stray, stage, at, chan, word, got, born>>
  BY DEF HwWrite, history
<1>3. stored'[d] = stored[d] + 1 /\ stored[d] + 1 \in Nat /\ mem[d] \in Seq(Nat)
  BY <1>1, <1>2
<1>4. /\ Append(mem[d], stored[d] + 1) \in Seq(Nat)
      /\ Len(Append(mem[d], stored[d] + 1)) = Len(mem[d]) + 1
  BY <1>3, AppendProperties
<1> QED
  BY <1>2, <1>3, <1>4

LEMMA HwWriteType ==
  ASSUME TypeInv, NEW d \in Chan, HwWrite(d)
  PROVE  TypeInv'
<1> DEFINE m == Append(mem[d], stored[d] + 1)
<1>1. /\ stored' = [stored EXCEPT ![d] = stored[d] + 1] /\ mem' = [mem EXCEPT ![d] = m]
      /\ Len(mem[d]) < Depth /\ m \in Seq(Nat) /\ Len(m) = Len(mem[d]) + 1
      /\ UNCHANGED <<kernel, latch, opened, failed, stray, stage, at, chan, word, got, born>>
  BY HwWriteSteps
<1>2. /\ stored \in [Chan -> Nat] /\ mem \in [Chan -> Seq(Nat)] /\ latch \in [Chan -> Nat]
      /\ Depth \in Nat
  BY FifoReaderAssumption DEF TypeInv, ChipsOK
<1>3. /\ Len(mem[d]) \in Nat
      /\ \A i \in 1 .. Len(mem[d]) : m[i] = mem[d][i]
      /\ m[Len(mem[d]) + 1] = stored[d] + 1
  BY <1>2, AppendProperties, LenProperties
<1> HIDE DEF m
<1>4. stored' \in [Chan -> Nat] /\ mem' \in [Chan -> Seq(Nat)] /\ latch' \in [Chan -> Nat]
  BY <1>1, <1>2
<1>5. Numbered(d)'
  <2>1. mem'[d] = m /\ stored'[d] = stored[d] + 1 /\ latch'[d] = latch[d]
    BY <1>1, <1>2
  <2>2. /\ latch[d] + Len(mem[d]) <= stored[d]
        /\ \A i \in 1 .. Len(mem[d]) : mem[d][i] = stored[d] - Len(mem[d]) + i
    BY DEF TypeInv, ChipsOK, Numbered
  <2>3. Len(m) <= Depth /\ latch[d] + Len(m) <= stored[d] + 1
    BY <1>1, <1>2, <1>3, <2>2
  <2>4. ASSUME NEW i \in 1 .. Len(m)
        PROVE  m[i] = stored[d] + 1 - Len(m) + i
    <3>1. CASE i \in 1 .. Len(mem[d])
      <4>1. m[i] = stored[d] - Len(mem[d]) + i
        BY <1>3, <2>2, <3>1
      <4> QED
        BY <1>1, <1>2, <1>3, <4>1
    <3>2. CASE i = Len(mem[d]) + 1
      <4>1. i = Len(m) /\ m[i] = stored[d] + 1
        BY <1>1, <1>3, <3>2
      <4>2. i \in Nat /\ stored[d] \in Nat
        BY <1>2, <1>3, <3>2
      <4>3. stored[d] + 1 - i + i = stored[d] + 1
        BY <4>2
      <4> QED
        BY <4>1, <4>3
    <3> QED
      BY <1>1, <1>3, <3>1, <3>2
  <2>5. /\ Len(mem'[d]) <= Depth
        /\ latch'[d] + Len(mem'[d]) <= stored'[d]
        /\ \A i \in 1 .. Len(mem'[d]) : mem'[d][i] = stored'[d] - Len(mem'[d]) + i
    <3>1. stored[d] \in Nat /\ Len(m) \in Nat /\ latch[d] \in Nat
      BY <1>1, <1>2, <1>3
    <3> QED
      BY <2>1, <2>3, <2>4, <3>1
  <2> QED
    BY <2>5 DEF Numbered
<1>6. \A c \in Chan : c # d => Numbered(c)'
  BY <1>1, <1>2 DEF TypeInv, ChipsOK, Numbered
<1>7. ChipsOK'
  BY <1>4, <1>5, <1>6 DEF ChipsOK
<1>8. PinsOK' /\ PlaceOK' /\ WordOK'
  BY <1>1 DEF TypeInv, PinsOK, PlaceOK, WordOK, kernel
<1>9. GotOK'
  <2>1. \A c \in Chan : stored'[c] >= stored[c] /\ stored[c] \in Nat /\ stored'[c] \in Nat
    BY <1>1, <1>2
  <2>2. \A c \in Chan : born[c] \in Nat /\ born[c] <= stored[c]
    BY DEF TypeInv, GotOK
  <2>3. \A c \in Chan : born[c] <= stored'[c]
    BY <2>1, <2>2
  <2> QED
    BY <1>1, <2>3 DEF TypeInv, GotOK
<1> QED
  BY <1>7, <1>8, <1>9 DEF TypeInv

LEMMA KillType ==
  ASSUME TypeInv, Kill
  PROVE  TypeInv'
<1>1. /\ opened' = {} /\ failed' = {} /\ stray' \in StrayPins /\ stage' = "register"
      /\ at' = 1 /\ chan' = "A" /\ word' = <<>> /\ got' = [c \in Chan |-> <<>>]
      /\ born' = stored /\ UNCHANGED <<kernel, chip, stored>>
  BY DEF Kill
<1>2. PinsOK' /\ ChipsOK'
  BY <1>1, ChipsKept DEF TypeInv, PinsOK, kernel
<1>3. PlaceOK'
  BY <1>1, FifoReaderAssumption DEF PlaceOK, Stages, Reading, Chan
<1>4. WordOK'
  BY <1>1 DEF WordOK
<1>5. GotOK'
  BY <1>1 DEF TypeInv, GotOK, ChipsOK
<1> QED
  BY <1>2, <1>3, <1>4, <1>5 DEF TypeInv

LEMMA StutterType ==
  ASSUME TypeInv, UNCHANGED vars
  PROVE  TypeInv'
<1>1. UNCHANGED <<kernel, chip, stored, opened, failed, stray, stage, at, chan, word, got, born>>
  BY DEF vars, kernel, chip
<1> QED
  BY <1>1 DEF TypeInv, PinsOK, ChipsOK, Numbered, PlaceOK, WordOK, GotOK, kernel, chip

LEMMA TypeStep ==
  ASSUME TypeInv, [Next]_vars
  PROVE  TypeInv'
<1>1. CASE \E c \in Chan : HwWrite(c)
  BY <1>1, HwWriteType
<1>2. CASE Thread
  BY <1>2, ExportType, RegisterFailsType, DirectType, OpenType, ResetType, ReadFlagType,
     StrobeType, ReadBitType, ReleaseType, IdleType, SaveLedType DEF Thread
<1>3. CASE Kill
  BY <1>3, KillType
<1>4. CASE UNCHANGED vars
  BY <1>4, StutterType
<1> QED
  BY <1>1, <1>2, <1>3, <1>4 DEF Next

LEMMA TypeInvariant == Spec => []TypeInv
BY TypeInit, TypeStep, PTL DEF Spec

(* The types of the model: what is open or driven has been exported, a chip *)
(* holds no more than its depth, its output is a word it has stored, and a  *)
(* word that is returned has all its bits.                                  *)
THEOREM TypeCorrect == Spec => []TypeOK
<1>1. TypeInv => TypeOK
  <2> SUFFICES ASSUME TypeInv
               PROVE  TypeOK
    OBVIOUS
  <2>1. \A c \in Chan : Len(mem[c]) <= Depth /\ latch[c] \in 0 .. stored[c]
    <3> TAKE c \in Chan
    <3>1. /\ Len(mem[c]) \in Nat /\ latch[c] \in Nat /\ stored[c] \in Nat
      BY LenProperties DEF TypeInv, ChipsOK
    <3>2. Len(mem[c]) <= Depth /\ latch[c] + Len(mem[c]) <= stored[c]
      BY DEF TypeInv, ChipsOK, Numbered
    <3> QED
      BY <3>1, <3>2
  <2>2. \A c \in Chan : Len(got[c]) \in {0, Bits} /\ born[c] \in 0 .. stored[c]
    BY DEF TypeInv, GotOK, ChipsOK
  <2>3. at \in 1 .. Len(RegisterOrder) /\ stage \in Stages /\ chan \in Chan
    BY Orders DEF TypeInv, PlaceOK
  <2>4. Len(word) <= Bits
    <3>1. Bits \in Nat /\ at \in Nat /\ (stage = "bits" => at <= Bits)
      BY FifoReaderAssumption DEF TypeInv, PlaceOK
    <3>2. Len(word) = IF stage = "bits" THEN at - 1
                      ELSE IF stage = "release" THEN Bits ELSE 0
      BY DEF TypeInv, WordOK
    <3> QED
      BY <3>1, <3>2
  <2>5. /\ exported \subseteq Pins /\ driven \subseteq exported
        /\ opened \subseteq exported /\ failed \subseteq Pins
        /\ level \in [Lines -> {0, 1}] /\ stray \in StrayPins
    BY DEF TypeInv, PinsOK
  <2> QED
    BY <2>1, <2>2, <2>3, <2>4, <2>5 DEF TypeOK
<1> QED
  BY <1>1, TypeInvariant, PTL

-----------------------------------------------------------------------------
(* A chip for whose pins every call has worked. *)

Good(c) == Prepared(c) /\ Resetting(c) /\ Serving(c)

(* What is sound after a step was sound before it, unless the process died. *)
LEMMA SoundBefore ==
  ASSUME NEW c \in Chan, Sound(c)', failed \subseteq failed', stray' = stray
  PROVE  Sound(c)
BY DEF Sound

(* Once they are driven, the lines have the levels they are set to. *)
LEMMA DrivenLines ==
  ASSUME NEW c \in Chan, {R(c), RT(c)} \subseteq driven, driven' = driven
  PROVE  /\ Line(R(c)) = level[R(c)] /\ Line(RT(c)) = level[RT(c)]
         /\ Line(R(c))' = level'[R(c)] /\ Line(RT(c))' = level'[RT(c)]
BY DEF Line

(* A write to another pin does nothing to a chip that is driven, except that *)
(* a chip held empty stays empty.                                            *)
LEMMA SetOther ==
  ASSUME TypeInv, NEW c \in Chan, {R(c), RT(c)} \subseteq driven,
         NEW p, NEW v \in {0, 1}, Set(p, v), p \notin {R(c), RT(c)}
  PROVE  /\ level'[R(c)] = level[R(c)] /\ level'[RT(c)] = level[RT(c)]
         /\ level[RT(c)] = 1 => mem'[c] = mem[c] /\ latch'[c] = latch[c]
         /\ level[RT(c)] = 0 => mem'[c] = <<>>
<1>1. PinsOK /\ ChipsOK
  BY DEF TypeInv
<1>2. level'[R(c)] = level[R(c)] /\ level'[RT(c)] = level[RT(c)] /\ driven' = driven
  <2>1. R(c) \in Lines /\ RT(c) \in Lines
    BY PinSets
  <2> QED
    BY <1>1, <2>1, SetLevel
<1>3. /\ Line(R(c)) = level[R(c)] /\ Line(R(c))' = level[R(c)]
      /\ Line(RT(c))' = level[RT(c)]
  BY <1>2, DrivenLines
<1>4. ~Falls(c)
  BY <1>3 DEF Falls
<1>5. Emptied(c) \/ Shifted(c) \/ Kept(c)
  BY <1>1, ChipMoves DEF Set
<1>6. level[RT(c)] = 1 => mem'[c] = mem[c] /\ latch'[c] = latch[c]
  BY <1>3, <1>4, <1>5 DEF Emptied, Shifted, Kept
<1>7. level[RT(c)] = 0 => mem'[c] = <<>>
  BY <1>3, <1>4, <1>5 DEF Emptied, Shifted, Kept
<1> QED
  BY <1>2, <1>6, <1>7

(* A write to R of a chip that is open and driven. *)
LEMMA SetStrobe ==
  ASSUME TypeInv, NEW c \in Chan, {R(c), RT(c)} \subseteq driven, R(c) \in opened,
         NEW v \in {0, 1}, Set(R(c), v), level[RT(c)] = 1
  PROVE  /\ level'[R(c)] = v /\ level'[RT(c)] = 1
         /\ v = 0 /\ level[R(c)] = 1 /\ mem[c] # <<>> =>
              mem'[c] = Tail(mem[c]) /\ latch'[c] = Head(mem[c])
         /\ v = 1 => mem'[c] = mem[c] /\ latch'[c] = latch[c]
<1>1. PinsOK /\ ChipsOK
  BY DEF TypeInv
<1>2. level'[R(c)] = v /\ level'[RT(c)] = 1 /\ driven' = driven
  <2>1. R(c) \in Lines /\ RT(c) \in Lines /\ RT(c) # R(c)
    BY PinSets, PinNames
  <2> QED
    BY <1>1, <2>1, SetLevel
<1>3. Line(R(c)) = level[R(c)] /\ Line(R(c))' = v /\ Line(RT(c))' = 1
  BY <1>2, DrivenLines
<1>4. Emptied(c) \/ Shifted(c) \/ Kept(c)
  BY <1>1, ChipMoves DEF Set
<1>5. ASSUME v = 0, level[R(c)] = 1, mem[c] # <<>>
      PROVE  mem'[c] = Tail(mem[c]) /\ latch'[c] = Head(mem[c])
  <2>1. Falls(c)
    BY <1>3, <1>5 DEF Falls
  <2> QED
    BY <1>3, <1>4, <2>1 DEF Emptied, Shifted, Kept
<1>6. ASSUME v = 1
      PROVE  mem'[c] = mem[c] /\ latch'[c] = latch[c]
  <2>1. ~Falls(c)
    BY <1>3, <1>6 DEF Falls
  <2> QED
    BY <1>3, <1>4, <2>1 DEF Emptied, Shifted, Kept
<1> QED
  BY <1>2, <1>5, <1>6

(* Pulling RT low empties the chip; raising it again lets it work. *)
LEMMA SetRetransmit ==
  ASSUME TypeInv, NEW c \in Chan, {R(c), RT(c)} \subseteq driven, RT(c) \in opened,
         NEW v \in {0, 1}, Set(RT(c), v)
  PROVE  /\ level'[R(c)] = level[R(c)] /\ level'[RT(c)] = v
         /\ v = 0 => mem'[c] = <<>>
         /\ v = 1 => mem'[c] = mem[c]
<1>1. PinsOK /\ ChipsOK
  BY DEF TypeInv
<1>2. level'[R(c)] = level[R(c)] /\ level'[RT(c)] = v /\ driven' = driven
  <2>1. R(c) \in Lines /\ RT(c) \in Lines /\ RT(c) # R(c)
    BY PinSets, PinNames
  <2> QED
    BY <1>1, <2>1, SetLevel
<1>3. Line(R(c)) = level[R(c)] /\ Line(R(c))' = level[R(c)] /\ Line(RT(c))' = v
  BY <1>2, DrivenLines
<1>4. ~Falls(c)
  BY <1>3 DEF Falls
<1>5. Emptied(c) \/ Shifted(c) \/ Kept(c)
  BY <1>1, ChipMoves DEF Set
<1>6. (v = 0 => mem'[c] = <<>>) /\ (v = 1 => mem'[c] = mem[c])
  BY <1>3, <1>4, <1>5 DEF Emptied, Shifted, Kept
<1> QED
  BY <1>2, <1>6

LEMMA GoodInit ==
  ASSUME Init, NEW c \in Chan
  PROVE  Good(c)
<1>1. stage = "register"
  BY DEF Init
<1> QED
  BY <1>1 DEF Good, Prepared, Resetting, Serving, Reading

(* Nothing is promised of a chip before its pins have been directed. *)
LEMMA GoodAtFirst ==
  ASSUME NEW c \in Chan, stage' = "register" \/ (stage' = "direct" /\ at' = 1)
  PROVE  Good(c)'
<1>1. stage' \notin Reading /\ stage' # "reset" /\ stage' # "open"
  BY DEF Reading
<1>2. stage' = "direct" => 1 .. at' - 1 = {}
  OBVIOUS
<1> QED
  BY <1>1, <1>2 DEF Good, Prepared, Resetting, Serving

LEMMA DirectGood ==
  ASSUME TypeInv, NEW c \in Chan, Sound(c)', Good(c), Direct
  PROVE  Good(c)'
<1> DEFINE p == DirectOrder[at]
<1>1. /\ stage = "direct" /\ at \in 1 .. 2 * Bits + 6 /\ p \in Pins
      /\ Directs(p) \/ NotDirected(p)
      /\ IF at < 2 * Bits + 6 THEN at' = at + 1 /\ stage' = stage
                               ELSE at' = 1 /\ stage' = "open"
  BY DirectSteps
<1>2. Bits \in Nat \ {0} /\ R(c) \in Lines /\ RT(c) \in Lines /\ {R(c), RT(c)} \subseteq PinsOf(c)
  BY FifoReaderAssumption, PinSets
<1>3. ASSUME NEW k \in 1 .. at, DirectOrder[k] \in {R(c), RT(c)}
      PROVE  DirectOrder[k] \in driven'
  <2>1. CASE k = at
    <3>1. p \notin failed'
      BY <1>2, <1>3, <2>1 DEF Sound
    <3>2. Directs(p)
      BY <1>1, <3>1 DEF NotDirected
    <3> QED
      BY <1>2, <1>3, <2>1, <3>2 DEF Directs
  <2>2. CASE k # at
    <3>1. k \in 1 .. at - 1
      BY <1>1, <2>2
    <3>2. DirectOrder[k] \in driven
      BY <1>1, <1>3, <3>1 DEF Good, Prepared
    <3>3. driven' = driven \/ driven' = driven \cup {p} \/ (driven' = driven \ {p} /\ p \notin Lines)
      BY <1>1 DEF Directs, NotDirected
    <3> QED
      BY <1>2, <1>3, <3>2, <3>3
  <2> QED
    BY <2>1, <2>2
<1>4. CASE at < 2 * Bits + 6
  <2>1. stage' = "direct" /\ at' - 1 = at
    BY <1>1, <1>4
  <2> QED
    BY <1>3, <2>1 DEF Good, Prepared, Resetting, Serving, Reading
<1>5. CASE ~(at < 2 * Bits + 6)
  <2>1. stage' = "open" /\ at' = 1 /\ at = 2 * Bits + 6
    BY <1>1, <1>2, <1>5
  <2>2. {R(c), RT(c)} \subseteq driven'
    <3>1. \A q \in {R(c), RT(c)} : \E k \in 1 .. at : DirectOrder[k] = q
      BY <1>2, <2>1, Orders, PinSets
    <3> QED
      BY <1>3, <3>1
  <2>3. 1 .. at' - 1 = {}
    BY <2>1
  <2> QED
    BY <2>1, <2>2, <2>3 DEF Good, Prepared, Resetting, Serving, Reading
<1> QED
  BY <1>4, <1>5

LEMMA OpenGood ==
  ASSUME TypeInv, NEW c \in Chan, Sound(c)', Good(c), Open
  PROVE  Good(c)'
<1> DEFINE p == OpenOrder[at]
<1>1. /\ stage = "open" /\ at \in 1 .. 2 * Bits + 6 /\ p \in Pins
      /\ Opens(p) \/ NotOpened(p)
      /\ IF at < 2 * Bits + 6 THEN at' = at + 1 /\ stage' = stage
                               ELSE at' = 1 /\ stage' = "reset"
      /\ driven' = driven
  BY OpenSteps DEF kernel
<1>2. Bits \in Nat \ {0}
  BY FifoReaderAssumption
<1>3. {R(c), RT(c)} \subseteq driven
  BY <1>1 DEF Good, Prepared
<1>4. ASSUME NEW k \in 1 .. at, OpenOrder[k] \in PinsOf(c)
      PROVE  OpenOrder[k] \in opened'
  <2>1. CASE k = at
    <3>1. p \notin failed'
      BY <1>4, <2>1 DEF Sound
    <3> QED
      BY <1>1, <2>1, <3>1 DEF NotOpened, Opens
  <2>2. CASE k # at
    <3>1. k \in 1 .. at - 1
      BY <1>1, <2>2
    <3>2. OpenOrder[k] \in opened
      BY <1>1, <1>4, <3>1 DEF Good, Prepared
    <3> QED
      BY <1>1, <3>2 DEF Opens, NotOpened
  <2> QED
    BY <2>1, <2>2
<1>5. CASE at < 2 * Bits + 6
  <2>1. stage' = "open" /\ at' - 1 = at
    BY <1>1, <1>5
  <2> QED
    BY <1>1, <1>3, <1>4, <2>1 DEF Good, Prepared, Resetting, Serving, Reading
<1>6. CASE ~(at < 2 * Bits + 6)
  <2>1. stage' = "reset" /\ at' = 1 /\ at = 2 * Bits + 6
    BY <1>1, <1>2, <1>6
  <2>2. PinsOf(c) \subseteq opened'
    <3>1. \A q \in PinsOf(c) : \E k \in 1 .. at : OpenOrder[k] = q
      BY <2>1, Orders, PinSets DEF OpenOrder
    <3> QED
      BY <1>4, <3>1
  <2>3. Prepared(c)'
    BY <1>1, <1>3, <2>1, <2>2 DEF Prepared
  <2>4. Resetting(c)'
    <3>1. ~(1 > Raising(c)) /\ ~(1 > Emptying(c)) /\ ~(1 > Enabling(c))
      BY DEF Raising, Emptying, Enabling
    <3> QED
      BY <2>1, <3>1 DEF Resetting, ResetUpTo
  <2> QED
    BY <2>1, <2>3, <2>4 DEF Good, Serving, Reading
<1> QED
  BY <1>5, <1>6

(* One step of the reset. *)
LEMMA ResetAdvances ==
  ASSUME TypeInv, NEW c \in Chan, NEW k \in 1 .. 6, ResetUpTo(c, k),
         {R(c), RT(c)} \subseteq driven, {R(c), RT(c)} \subseteq opened,
         Set(ResetSequence[k][1], ResetSequence[k][2]), UNCHANGED <<stored, born>>
  PROVE  ResetUpTo(c, k + 1)'
<1> DEFINE p == ResetSequence[k][1]
           v == ResetSequence[k][2]
<1>1. /\ Raising(c) \in {1, 2} /\ Emptying(c) = Raising(c) + 2
      /\ Enabling(c) = Raising(c) + 4
      /\ ResetSequence[Raising(c)] = <<R(c), 1>>
      /\ ResetSequence[Emptying(c)] = <<RT(c), 0>>
      /\ ResetSequence[Enabling(c)] = <<RT(c), 1>>
  BY Resets
<1>2. /\ v \in {0, 1} /\ Set(p, v)
      /\ k \notin {Raising(c), Emptying(c), Enabling(c)} => p \notin {R(c), RT(c)}
  BY Resets
<1>3. /\ born[c] \in Nat /\ stored[c] \in Nat /\ born[c] <= stored[c]
  BY DEF TypeInv, GotOK, ChipsOK
<1>4. CASE k = Raising(c)
  <2>1. p = R(c) /\ v = 1
    BY <1>1, <1>4
  <2>2. level'[R(c)] = 1
    BY <1>2, <2>1, SetLevel DEF TypeInv
  <2>3. ~(k + 1 > Emptying(c)) /\ ~(k + 1 > Enabling(c))
    BY <1>1, <1>4
  <2> QED
    BY <2>2, <2>3 DEF ResetUpTo
<1>5. CASE k = Emptying(c)
  <2>1. p = RT(c) /\ v = 0
    BY <1>1, <1>5
  <2>2. k > Raising(c) /\ ~(k + 1 > Enabling(c))
    BY <1>1, <1>5
  <2>3. level[R(c)] = 1
    BY <2>2 DEF ResetUpTo
  <2>4. level'[R(c)] = 1 /\ level'[RT(c)] = 0 /\ mem'[c] = <<>>
    BY <1>2, <2>1, <2>3, SetRetransmit
  <2> QED
    BY <2>2, <2>4 DEF ResetUpTo
<1>6. CASE k = Enabling(c)
  <2>1. p = RT(c) /\ v = 1
    BY <1>1, <1>6
  <2>2. k > Raising(c) /\ k > Emptying(c) /\ k <= Enabling(c) /\ ~(k + 1 <= Enabling(c))
    BY <1>1, <1>6
  <2>3. level[R(c)] = 1 /\ mem[c] = <<>>
    BY <2>2 DEF ResetUpTo
  <2>4. level'[R(c)] = 1 /\ level'[RT(c)] = 1 /\ mem'[c] = <<>>
    BY <1>2, <2>1, <2>3, SetRetransmit
  <2>5. New(c)'
    <3>1. Len(mem'[c]) = 0 /\ born'[c] = born[c] /\ stored'[c] = stored[c]
      BY <2>4
    <3> QED
      BY <1>3, <3>1 DEF New
  <2> QED
    BY <2>2, <2>4, <2>5 DEF ResetUpTo
<1>7. CASE k \notin {Raising(c), Emptying(c), Enabling(c)}
  <2>1. p \notin {R(c), RT(c)}
    BY <1>2, <1>7
  <2>2. /\ level'[R(c)] = level[R(c)] /\ level'[RT(c)] = level[RT(c)]
        /\ level[RT(c)] = 1 => mem'[c] = mem[c]
        /\ level[RT(c)] = 0 => mem'[c] = <<>>
    BY <1>2, <2>1, SetOther
  <2>3. /\ k + 1 > Raising(c) => k > Raising(c)
        /\ k + 1 > Emptying(c) /\ k + 1 <= Enabling(c) => k > Emptying(c) /\ k <= Enabling(c)
        /\ k + 1 > Enabling(c) => k > Enabling(c)
    BY <1>1, <1>7
  <2>4. k > Enabling(c) => level'[RT(c)] = 1 /\ New(c)'
    BY <2>2 DEF ResetUpTo, New
  <2> QED
    BY <2>2, <2>3, <2>4 DEF ResetUpTo
<1> QED
  BY <1>4, <1>5, <1>6, <1>7

LEMMA ResetGood ==
  ASSUME TypeInv, NEW c \in Chan, Sound(c)', Good(c), Reset
  PROVE  Good(c)'
<1>1. /\ stage = "reset" /\ at \in 1 .. 6
      /\ Set(ResetSequence[at][1], ResetSequence[at][2])
      /\ IF at < 6 THEN at' = at + 1 /\ stage' = stage
                    ELSE at' = 1 /\ stage' = "flag"
      /\ UNCHANGED <<stored, opened, failed, stray, chan, word, got, born>>
  BY ResetSteps
<1>2. {R(c), RT(c)} \subseteq driven /\ PinsOf(c) \subseteq opened /\ driven' = driven
  BY <1>1 DEF Good, Prepared, Set
<1>3. {R(c), RT(c)} \subseteq opened
  BY <1>2, PinSets
<1>4. PICK k \in 1 .. 6 : k = at
  BY <1>1
<1>5. ResetUpTo(c, k + 1)'
  BY <1>1, <1>2, <1>3, <1>4, ResetAdvances DEF Good, Resetting
<1>6. Prepared(c)'
  BY <1>1, <1>2 DEF Prepared
<1>7. CASE at < 6
  BY <1>1, <1>4, <1>5, <1>6, <1>7 DEF Good, Resetting, Serving, Reading
<1>8. CASE ~(at < 6)
  <2>1. stage' = "flag" /\ k + 1 > Raising(c) /\ k + 1 > Enabling(c)
    BY <1>1, <1>4, <1>8 DEF Raising, Emptying, Enabling
  <2>2. level'[R(c)] = 1 /\ level'[RT(c)] = 1 /\ New(c)'
    BY <1>5, <2>1 DEF ResetUpTo
  <2>3. got'[c] = <<>>
    BY <1>1 DEF TypeInv, GotOK, Reading
  <2> QED
    BY <1>6, <2>1, <2>2, <2>3 DEF Good, Resetting, Serving, InHand
<1> QED
  BY <1>7, <1>8

-----------------------------------------------------------------------------
(* The loop. *)

(* What Serving says of a chip, in the loop. *)
LEMMA LoopState ==
  ASSUME TypeInv, NEW c \in Chan, Good(c), stage \in Reading
  PROVE  /\ {R(c), RT(c)} \subseteq driven /\ PinsOf(c) \subseteq opened
         /\ R(c) \in opened /\ EF(c) \in opened
         /\ level[RT(c)] = 1 /\ New(c)
         /\ level[R(c)] = IF InHand(c) THEN 0 ELSE 1
<1>1. stage \notin {"register", "direct", "open", "reset"}
  BY DEF Reading
<1> QED
  BY <1>1, PinSets DEF Good, Prepared, Serving

(* In the loop a chip stays good when its pins and the words are as they    *)
(* were and it is in hand, or to be strobed, only if it was before.         *)
LEMMA LoopKeeps ==
  ASSUME TypeInv, NEW c \in Chan, Good(c), stage \in Reading, stage' \in Reading,
         UNCHANGED <<driven, opened, stored, born>>,
         level'[R(c)] = level[R(c)], level'[RT(c)] = level[RT(c)],
         mem'[c] = mem[c], latch'[c] = latch[c], got'[c] = got[c],
         InHand(c)' <=> InHand(c), InHand(c) => word' = word,
         stage' = "strobe" /\ chan' = c => mem[c] # <<>>
  PROVE  Good(c)'
<1>1. stage \notin {"register", "direct", "open", "reset"}
  BY DEF Reading
<1>2. stage' \notin {"register", "direct", "open", "reset"}
  BY DEF Reading
<1>3. Prepared(c)'
  BY <1>1, <1>2 DEF Good, Prepared
<1>4. Resetting(c)'
  BY <1>2 DEF Resetting
<1>5. New(c)' <=> New(c)
  BY DEF New
<1>6. Flush(c)' <=> Flush(c)
  BY DEF Flush
<1>7. Serving(c)'
  <2>1. /\ level[RT(c)] = 1 /\ New(c)
        /\ level[R(c)] = IF InHand(c) THEN 0 ELSE 1
        /\ InHand(c) =>
             /\ Flush(c) /\ AllOf(word, latch[c])
             /\ got[c] # <<>> => latch[c] - 1 > born[c] /\ AllOf(got[c], latch[c] - 1)
        /\ ~InHand(c) /\ got[c] # <<>> => Flush(c) /\ AllOf(got[c], latch[c])
    BY DEF Good, Serving
  <2>2. InHand(c) => AllOf(word, latch[c])' 
    BY <2>1
  <2>3. /\ AllOf(got[c], latch[c] - 1)' <=> AllOf(got[c], latch[c] - 1)
        /\ AllOf(got[c], latch[c])' <=> AllOf(got[c], latch[c])
    BY DEF AllOf
  <2> QED
    BY <1>5, <1>6, <2>1, <2>2, <2>3 DEF Serving
<1> QED
  BY <1>3, <1>4, <1>7 DEF Good

LEMMA ReadFlagGood ==
  ASSUME TypeInv, NEW c \in Chan, Good(c), ReadFlag
  PROVE  Good(c)'
<1>1. /\ stage = "flag" /\ stage' \in {"strobe", "flag", "idle"}
      /\ stage' = "strobe" => Flag(chan) = 1 /\ chan' = chan
      /\ UNCHANGED <<kernel, chip, stored, opened, got, born>>
  BY DEF ReadFlag, NextChannel, history
<1>2. stage \in Reading /\ stage' \in Reading /\ ~InHand(c) /\ ~InHand(c)'
  BY <1>1 DEF Reading, InHand
<1>3. stage' = "strobe" /\ chan' = c => mem[c] # <<>>
  BY <1>1 DEF Flag
<1> QED
  BY <1>1, <1>2, <1>3, LoopKeeps DEF kernel, chip

LEMMA StrobeGood ==
  ASSUME TypeInv, NEW c \in Chan, Good(c), Strobe
  PROVE  Good(c)'
<1>1. /\ stage = "strobe" /\ stage' = "bits" /\ word' = <<>> /\ Set(R(chan), 0)
      /\ UNCHANGED <<stored, opened, failed, stray, at, chan, got, born>>
  BY DEF Strobe, history
<1>2. chan \in Chan /\ stage \in Reading /\ stage' \in Reading /\ ~InHand(c)
  BY <1>1 DEF TypeInv, PlaceOK, Reading, InHand
<1>3. /\ {R(c), RT(c)} \subseteq driven /\ PinsOf(c) \subseteq opened
      /\ R(c) \in opened /\ level[RT(c)] = 1 /\ New(c) /\ level[R(c)] = 1
  BY <1>2, LoopState
<1>4. driven' = driven
  BY <1>1 DEF Set
<1>5. CASE chan = c
  <2>1. mem[c] # <<>>
    BY <1>1, <1>2, <1>5 DEF Good, Serving
  <2>2. /\ level'[R(c)] = 0 /\ level'[RT(c)] = 1
        /\ mem'[c] = Tail(mem[c]) /\ latch'[c] = Head(mem[c])
    BY <1>1, <1>3, <1>5, <2>1, SetStrobe
  <2>3. /\ latch'[c] = stored[c] - Len(mem[c]) + 1 /\ latch'[c] \in Nat
        /\ Len(mem'[c]) = Len(mem[c]) - 1 /\ Len(mem[c]) \in Nat \ {0}
    BY <2>1, <2>2, TakeFront DEF TypeInv
  <2>4. /\ born[c] \in Nat /\ stored[c] \in Nat /\ latch[c] \in Nat
        /\ born[c] + Len(mem[c]) <= stored[c]
    BY <1>3 DEF TypeInv, GotOK, ChipsOK, New
  <2>5. Flush(c)' /\ New(c)'
    <3>1. /\ latch'[c] > born[c] /\ latch'[c] + Len(mem'[c]) = stored[c]
          /\ born[c] + Len(mem'[c]) <= stored[c]
      BY <2>3, <2>4
    <3> QED
      BY <1>1, <3>1 DEF Flush, New
  <2>6. got[c] # <<>> => latch'[c] - 1 > born[c] /\ AllOf(got[c], latch'[c] - 1)
    <3> SUFFICES ASSUME got[c] # <<>>
                 PROVE  latch'[c] - 1 > born[c] /\ AllOf(got[c], latch'[c] - 1)
      OBVIOUS
    <3>1. /\ latch[c] > born[c] /\ latch[c] + Len(mem[c]) = stored[c]
          /\ AllOf(got[c], latch[c])
      BY <1>2 DEF Good, Serving, Flush
    <3>2. latch'[c] - 1 = latch[c]
      BY <2>3, <2>4, <3>1
    <3> QED
      BY <3>1, <3>2
  <2>7. InHand(c)'
    BY <1>1, <1>5 DEF InHand
  <2>8. AllOf(word, latch[c])'
    BY <1>1 DEF AllOf
  <2>9. got[c] # <<>> => AllOf(got[c], latch[c] - 1)'
    BY <1>1, <2>6 DEF AllOf
  <2>10. Serving(c)'
    BY <1>1, <2>2, <2>5, <2>6, <2>7, <2>8, <2>9 DEF Serving
  <2>11. Prepared(c)' /\ Resetting(c)'
    BY <1>1, <1>3, <1>4 DEF Prepared, Resetting
  <2> QED
    BY <2>10, <2>11 DEF Good
<1>6. CASE chan # c
  <2>1. R(chan) \notin {R(c), RT(c)}
    BY <1>2, <1>6, PinNames
  <2>2. /\ level'[R(c)] = level[R(c)] /\ level'[RT(c)] = level[RT(c)]
        /\ mem'[c] = mem[c] /\ latch'[c] = latch[c]
    BY <1>1, <1>3, <2>1, SetOther
  <2>3. ~InHand(c)'
    BY <1>1, <1>6 DEF InHand
  <2> QED
    BY <1>1, <1>2, <1>4, <2>2, <2>3, LoopKeeps
<1> QED
  BY <1>5, <1>6

LEMMA ReadBitGood ==
  ASSUME TypeInv, NEW c \in Chan, Good(c), ReadBit
  PROVE  Good(c)'
<1>1. /\ stage = "bits" /\ at \in 1 .. Bits /\ word \in Seq(Int) /\ Len(word) = at - 1
      /\ Bit(chan, PinOf(chan, at)) \in Int
      /\ word' = Append(word, Bit(chan, PinOf(chan, at))) /\ Len(word') = at
      /\ stage' \in {"bits", "release"}
      /\ UNCHANGED <<kernel, chip, stored, opened, failed, stray, chan, got, born>>
  BY ReadBitSteps
<1>2. stage \in Reading /\ stage' \in Reading /\ stage' # "strobe" /\ (InHand(c)' <=> InHand(c))
  BY <1>1 DEF Reading, InHand
<1>3. CASE chan # c
  BY <1>1, <1>2, <1>3, LoopKeeps DEF InHand, kernel, chip
<1>4. CASE chan = c
  <2>1. InHand(c)
    BY <1>1, <1>4 DEF InHand
  <2>2. /\ {R(c), RT(c)} \subseteq driven /\ PinsOf(c) \subseteq opened /\ level[R(c)] = 0
    BY <1>2, <2>1, LoopState
  <2>3. Bit(chan, PinOf(chan, at)) = latch[c]
    <3>1. Data(c, at) \in opened
      BY <1>1, <2>2 DEF PinsOf
    <3>2. Line(R(c)) = 0
      BY <2>2 DEF Line
    <3> QED
      BY <1>4, <3>1, <3>2 DEF Bit, PinOf, Output
  <2>4. AllOf(word, latch[c])
    BY <1>2, <2>1 DEF Good, Serving
  <2>5. AllOf(word', latch[c])
    <3>1. /\ \A i \in 1 .. Len(word) : word'[i] = word[i]
          /\ word'[Len(word) + 1] = latch[c]
      BY <1>1, <2>3, AppendProperties
    <3>2. \A i \in 1 .. Len(word') : i \in 1 .. Len(word) \/ i = Len(word) + 1
      BY <1>1
    <3> QED
      BY <2>4, <3>1, <3>2 DEF AllOf
  <2>6. UNCHANGED <<driven, opened, level, mem, latch, stored, born, got>>
    BY <1>1 DEF kernel, chip
  <2>7. Serving(c)'
    <3>1. /\ level[RT(c)] = 1 /\ New(c) /\ level[R(c)] = 0 /\ Flush(c)
          /\ got[c] # <<>> => latch[c] - 1 > born[c] /\ AllOf(got[c], latch[c] - 1)
      BY <1>2, <2>1 DEF Good, Serving
    <3>2. New(c)' /\ Flush(c)'
      BY <2>6, <3>1 DEF New, Flush
    <3>3. AllOf(word, latch[c])'
      BY <2>5, <2>6 DEF AllOf
    <3>4. got[c] # <<>> => AllOf(got[c], latch[c] - 1)'
      BY <2>6, <3>1 DEF AllOf
    <3> QED
      BY <1>2, <2>1, <2>6, <3>1, <3>2, <3>3, <3>4 DEF Serving
  <2>8. Prepared(c)' /\ Resetting(c)'
    BY <1>1, <2>2, <2>6 DEF Prepared, Resetting
  <2> QED
    BY <2>7, <2>8 DEF Good
<1> QED
  BY <1>3, <1>4

LEMMA ReleaseGood ==
  ASSUME TypeInv, NEW c \in Chan, Good(c), Release
  PROVE  Good(c)'
<1>1. /\ stage = "release" /\ stage' \in {"flag", "idle"} /\ Set(R(chan), 1)
      /\ chan \in Chan /\ got' = [got EXCEPT ![chan] = word]
      /\ UNCHANGED <<stored, opened, failed, stray, at, born>>
  BY ReleaseSteps
<1>2. stage \in Reading /\ stage' \in Reading /\ ~InHand(c)' /\ driven' = driven
  BY <1>1 DEF Reading, InHand, Set
<1>3. /\ {R(c), RT(c)} \subseteq driven /\ PinsOf(c) \subseteq opened
      /\ R(c) \in opened /\ level[RT(c)] = 1 /\ New(c)
  BY <1>2, LoopState
<1>4. CASE chan = c
  <2>1. InHand(c)
    BY <1>1, <1>4 DEF InHand
  <2>2. Flush(c) /\ AllOf(word, latch[c])
    BY <1>2, <2>1 DEF Good, Serving
  <2>3. /\ level'[R(c)] = 1 /\ level'[RT(c)] = 1
        /\ mem'[c] = mem[c] /\ latch'[c] = latch[c]
    BY <1>1, <1>3, <1>4, SetStrobe
  <2>4. got'[c] = word
    BY <1>1, <1>4 DEF TypeInv, GotOK
  <2>5. New(c)' /\ Flush(c)'
    BY <1>1, <1>3, <2>2, <2>3 DEF New, Flush
  <2>6. AllOf(got[c], latch[c])'
    BY <2>2, <2>3, <2>4 DEF AllOf
  <2>7. Serving(c)'
    BY <1>1, <1>2, <2>3, <2>5, <2>6 DEF Serving
  <2>8. Prepared(c)' /\ Resetting(c)'
    BY <1>1, <1>2, <1>3 DEF Prepared, Resetting
  <2> QED
    BY <2>7, <2>8 DEF Good
<1>5. CASE chan # c
  <2>1. R(chan) \notin {R(c), RT(c)} /\ ~InHand(c)
    BY <1>1, <1>5, PinNames DEF InHand
  <2>2. /\ level'[R(c)] = level[R(c)] /\ level'[RT(c)] = level[RT(c)]
        /\ mem'[c] = mem[c] /\ latch'[c] = latch[c]
    BY <1>1, <1>3, <2>1, SetOther
  <2>3. got'[c] = got[c] /\ stage' # "strobe"
    BY <1>1, <1>5 DEF TypeInv, GotOK
  <2> QED
    BY <1>1, <1>2, <2>1, <2>2, <2>3, LoopKeeps
<1> QED
  BY <1>4, <1>5

LEMMA IdleGood ==
  ASSUME TypeInv, NEW c \in Chan, Good(c), Idle
  PROVE  Good(c)'
<1>1. /\ stage = "idle" /\ stage' \in {"led", "flag"}
      /\ UNCHANGED <<kernel, chip, stored, opened, got, born>>
  BY DEF Idle, history
<1>2. stage \in Reading /\ stage' \in Reading /\ ~InHand(c) /\ ~InHand(c)' /\ stage' # "strobe"
  BY <1>1 DEF Reading, InHand
<1> QED
  BY <1>1, <1>2, LoopKeeps DEF kernel, chip

LEMMA SaveLedGood ==
  ASSUME TypeInv, NEW c \in Chan, Sound(c), Good(c), SaveLed
  PROVE  Good(c)'
<1>1. /\ stage = "led" /\ stage' = "flag"
      /\ UNCHANGED <<stored, opened, got, born>>
  BY DEF SaveLed, history
<1>2. PICK v \in {0, 1} : Set(stray, v)
  BY DEF SaveLed
<1>3. stage \in Reading /\ stage' \in Reading /\ ~InHand(c) /\ ~InHand(c)' /\ stage' # "strobe"
  BY <1>1 DEF Reading, InHand
<1>4. {R(c), RT(c)} \subseteq driven /\ level[RT(c)] = 1
  BY <1>3, LoopState
<1>5. /\ level'[R(c)] = level[R(c)] /\ level'[RT(c)] = level[RT(c)]
      /\ mem'[c] = mem[c] /\ latch'[c] = latch[c] /\ driven' = driven
  <2>1. stray \notin {R(c), RT(c)}
    BY DEF Sound
  <2> QED
    BY <1>2, <1>4, <2>1, SetOther DEF Set
<1> QED
  BY <1>1, <1>3, <1>5, LoopKeeps

-----------------------------------------------------------------------------
(* The hardware, and the proof for every step. *)

(* A step that changes neither the thread nor the words and lines of c. *)
LEMMA Unconcerned ==
  ASSUME NEW c \in Chan, Good(c),
         UNCHANGED <<driven, level, opened, stage, at, chan, word, got, born>>,
         mem'[c] = mem[c], latch'[c] = latch[c], stored'[c] = stored[c]
  PROVE  Good(c)'
<1>1. Prepared(c)'
  BY DEF Good, Prepared
<1>2. (New(c)' <=> New(c)) /\ (Flush(c)' <=> Flush(c)) /\ (InHand(c)' <=> InHand(c))
  BY DEF New, Flush, InHand
<1>3. Resetting(c)'
  BY <1>2 DEF Good, Resetting, ResetUpTo
<1>4. Serving(c)'
  BY <1>2 DEF Good, Serving, AllOf
<1> QED
  BY <1>1, <1>3, <1>4 DEF Good

LEMMA HwWriteGood ==
  ASSUME TypeInv, NEW c \in Chan, Good(c), NEW d \in Chan, HwWrite(d)
  PROVE  Good(c)'
<1> DEFINE m == Append(mem[d], stored[d] + 1)
<1>1. /\ stored' = [stored EXCEPT ![d] = stored[d] + 1] /\ mem' = [mem EXCEPT ![d] = m]
      /\ Line(RT(d)) = 1 /\ m \in Seq(Nat) /\ Len(m) = Len(mem[d]) + 1
      /\ UNCHANGED <<kernel, latch, opened, stage, at, chan, word, got, born>>
  BY HwWriteSteps
<1> HIDE DEF m
<1>2. /\ stored \in [Chan -> Nat] /\ mem \in [Chan -> Seq(Nat)]
      /\ latch[c] \in Nat /\ born[c] \in Nat
  BY DEF TypeInv, ChipsOK, GotOK
<1>3. CASE d # c
  BY <1>1, <1>2, <1>3, Unconcerned DEF kernel
<1>4. CASE d = c
  <2>1. /\ stored'[c] = stored[c] + 1 /\ Len(mem'[c]) = Len(mem[c]) + 1
        /\ stored[c] \in Nat /\ Len(mem[c]) \in Nat /\ mem'[c] \in Seq(Nat)
    BY <1>1, <1>2, <1>4, LenProperties
  <2>2. mem'[c] # <<>>
    <3>1. Len(mem'[c]) # 0
      BY <2>1
    <3> QED
      BY <3>1
  <2>3. UNCHANGED <<driven, level, latch, opened, stage, at, chan, word, got, born>>
    BY <1>1 DEF kernel
  <2>4. (New(c) => New(c)') /\ (Flush(c) => Flush(c)') /\ (InHand(c)' <=> InHand(c))
    <3>1. New(c) => New(c)'
      BY <1>2, <2>1, <2>3 DEF New
    <3>2. Flush(c) => Flush(c)'
      BY <1>2, <2>1, <2>3 DEF Flush
    <3> QED
      BY <2>3, <3>1, <3>2 DEF InHand
  <2>5. Prepared(c)'
    BY <2>3 DEF Good, Prepared
  <2>6. Resetting(c)'
    <3> SUFFICES ASSUME stage = "reset"
                 PROVE  ResetUpTo(c, at)'
      BY <2>3 DEF Resetting
    <3>1. ResetUpTo(c, at) /\ {R(c), RT(c)} \subseteq driven
      BY DEF Good, Resetting, Prepared
    <3>2. level[RT(c)] = 1
      BY <1>1, <1>4, <3>1 DEF Line
    <3> QED
      BY <2>3, <2>4, <3>1, <3>2 DEF ResetUpTo
  <2>7. Serving(c)'
    BY <2>2, <2>3, <2>4 DEF Good, Serving, AllOf
  <2> QED
    BY <2>5, <2>6, <2>7 DEF Good
<1> QED
  BY <1>3, <1>4

(* In the thread only fifo_init makes calls that may fail. *)
LEMMA FailuresStay ==
  ASSUME Next, ~Kill
  PROVE  failed \subseteq failed' /\ stray' = stray
BY DEF Next, Thread, HwWrite, Export, RegisterFails, Direct, Open, Reset, ReadFlag,
       Strobe, ReadBit, Release, Idle, SaveLed

LEMMA GoodStep ==
  ASSUME TypeInv, SoundInv, [Next]_vars
  PROVE  SoundInv'
<1> SUFFICES ASSUME NEW c \in Chan, Sound(c)'
             PROVE  Good(c)'
  BY DEF SoundInv, Good
<1>1. CASE Kill
  BY <1>1, GoodAtFirst DEF Kill
<1>2. CASE UNCHANGED vars
  <2>1. Good(c)
    BY <1>2 DEF SoundInv, Good, Sound, vars
  <2> QED
    BY <1>2, <2>1, Unconcerned DEF vars
<1>3. CASE Next /\ ~Kill
  <2>1. Sound(c)
    BY <1>3, FailuresStay, SoundBefore
  <2>2. Good(c)
    BY <2>1 DEF SoundInv, Good
  <2>3. CASE \E d \in Chan : HwWrite(d)
    BY <2>2, <2>3, HwWriteGood
  <2>4. CASE Export
    <3>1. stage' = "register" \/ (stage' = "direct" /\ at' = 1)
      BY <2>4 DEF Export, Advance
    <3> QED
      BY <3>1, GoodAtFirst
  <2>5. CASE RegisterFails
    BY <2>5, GoodAtFirst DEF RegisterFails
  <2>6. CASE Thread /\ ~Export /\ ~RegisterFails
    BY <2>1, <2>2, <2>6, DirectGood, OpenGood, ResetGood, ReadFlagGood, StrobeGood,
       ReadBitGood, ReleaseGood, IdleGood, SaveLedGood DEF Thread
  <2> QED
    BY <1>3, <2>3, <2>4, <2>5, <2>6 DEF Next
<1> QED
  BY <1>1, <1>2, <1>3

LEMMA Invariance == Spec => []Inv
<1>1. Init => Inv
  BY TypeInit, GoodInit DEF Inv, SoundInv, Good
<1>2. Inv /\ [Next]_vars => Inv'
  BY TypeStep, GoodStep DEF Inv
<1> QED
  BY <1>1, <1>2, PTL DEF Spec

(* What a process has read from a sound chip. *)
LEMMA GotFacts ==
  ASSUME Inv, NEW c \in Chan, Sound(c), got[c] # <<>>
  PROVE  \E n \in Nat : /\ n > born[c] /\ n <= stored[c]
                        /\ got[c] = Word(n) /\ AllOf(got[c], n)
<1>1. /\ stage \in Reading /\ got[c] \in Seq(Int) /\ Len(got[c]) \in {0, Bits}
      /\ born[c] \in Nat
  BY DEF Inv, TypeInv, GotOK
<1>2. Serving(c)
  BY DEF Inv, SoundInv
<1>3. /\ latch[c] \in Nat /\ stored[c] \in Nat /\ Len(mem[c]) \in Nat
      /\ latch[c] + Len(mem[c]) <= stored[c]
  BY LenProperties DEF Inv, TypeInv, ChipsOK, Numbered
<1>4. PICK n \in Nat : n > born[c] /\ n <= stored[c] /\ AllOf(got[c], n)
  <2>1. CASE InHand(c)
    <3>1. latch[c] - 1 > born[c] /\ AllOf(got[c], latch[c] - 1)
      BY <1>1, <1>2, <2>1 DEF Serving
    <3>2. latch[c] - 1 \in Nat /\ latch[c] - 1 <= stored[c]
      BY <1>1, <1>3, <3>1
    <3> QED
      BY <3>1, <3>2
  <2>2. CASE ~InHand(c)
    <3>1. latch[c] > born[c] /\ AllOf(got[c], latch[c])
      BY <1>1, <1>2, <2>2 DEF Serving, Flush
    <3>2. latch[c] <= stored[c]
      BY <1>3
    <3> QED
      BY <1>3, <3>1, <3>2
  <2> QED
    BY <2>1, <2>2
<1>5. Len(got[c]) = Bits
  BY <1>1, EmptySeq
<1>6. got[c] = Word(n)
  <2>1. got[c] \in [1 .. Bits -> Int]
    BY <1>1, <1>5, LenProperties
  <2>2. \A i \in 1 .. Bits : got[c][i] = n
    BY <1>4, <1>5 DEF AllOf
  <2> QED
    BY <2>1, <2>2 DEF Word
<1> QED
  BY <1>4, <1>6

(* Every word read from a chip whose pins are in order is one word of that  *)
(* chip, from the first bit to the last: the data pins are sampled one by   *)
(* one, but only while R holds the word at the output, whatever the chip    *)
(* stores meanwhile and whatever happens to the other chip.                 *)
THEOREM WordsAreWhole == Spec => []WordWhole
<1>1. Inv => WordWhole
  <2> SUFFICES ASSUME Inv, NEW c \in Chan, Sound(c), got[c] # <<>>
               PROVE  \E n \in 1 .. stored[c] : got[c] = Word(n)
    BY DEF WordWhole
  <2>1. PICK n \in Nat : n > born[c] /\ n <= stored[c] /\ got[c] = Word(n)
    BY GotFacts
  <2>2. born[c] \in Nat /\ stored[c] \in Nat
    BY DEF Inv, TypeInv, GotOK, ChipsOK
  <2>3. n \in 1 .. stored[c]
    BY <2>1, <2>2
  <2> QED
    BY <2>1, <2>3
<1> QED
  BY <1>1, Invariance, PTL

(* No word comes from before the process started: the reset of fifo_init    *)
(* empties a chip in whatever state a dead process left its lines.          *)
THEOREM WordsAreFresh == Spec => []Fresh
<1>1. Inv => Fresh
  <2> SUFFICES ASSUME Inv, NEW c \in Chan, Sound(c), NEW i \in DOMAIN got[c]
               PROVE  got[c][i] > born[c]
    BY DEF Fresh
  <2>1. got[c] \in Seq(Int)
    BY DEF Inv, TypeInv, GotOK
  <2>2. i \in 1 .. Len(got[c])
    BY <2>1, LenProperties
  <2>3. got[c] # <<>>
    BY <2>2
  <2>4. PICK n \in Nat : n > born[c] /\ AllOf(got[c], n)
    BY <2>3, GotFacts
  <2> QED
    BY <2>2, <2>4 DEF AllOf
<1> QED
  BY <1>1, Invariance, PTL

(* Of a chip whose pins are in order no word is lost between two that a     *)
(* process reads, and none is read twice.                                   *)
THEOREM WordsSucceed == Spec => Successive
<1>1. ASSUME Inv, [Next]_vars, NEW c \in Chan, stage = "release", stage' # "release",
             chan = c, Sound(c), got[c] # <<>>, got'[c] # <<>>, NEW i \in 1 .. Bits
      PROVE  got'[c][i] = got[c][i] + 1
  <2>1. TypeInv /\ InHand(c) /\ Serving(c)
    BY <1>1 DEF Inv, SoundInv, InHand
  <2>2. AllOf(word, latch[c]) /\ AllOf(got[c], latch[c] - 1)
    BY <1>1, <2>1 DEF Serving, Reading
  <2>3. Release \/ Kill
    BY <1>1 DEF Next, Thread, vars, HwWrite, Export, RegisterFails, Direct, Open, Reset,
              ReadFlag, Strobe, ReadBit, Idle, SaveLed
  <2>4. ~Kill
    BY <1>1 DEF Kill
  <2>5. /\ Len(word) = Bits /\ got' = [got EXCEPT ![chan] = word]
    BY <2>1, <2>3, <2>4, ReleaseSteps
  <2>6. got \in [Chan -> Seq(Int)] /\ Len(got[c]) \in {0, Bits} /\ latch[c] \in Nat
    BY <2>1 DEF TypeInv, GotOK, ChipsOK
  <2>7. Len(got[c]) = Bits
    BY <1>1, <2>6, EmptySeq
  <2>8. got'[c] = word
    BY <1>1, <2>5, <2>6
  <2>9. word[i] = latch[c] /\ got[c][i] = latch[c] - 1
    BY <1>1, <2>2, <2>5, <2>7 DEF AllOf
  <2> QED
    BY <2>6, <2>8, <2>9
<1>2. Inv /\ [Next]_vars =>
        [\A c \in Chan :
           stage = "release" /\ stage' # "release" /\ chan = c /\ Sound(c)
             /\ got[c] # <<>> /\ got'[c] # <<>>
           => \A i \in 1 .. Bits : got'[c][i] = got[c][i] + 1]_vars
  BY <1>1
<1> QED
  BY <1>2, Invariance, PTL DEF Spec, Successive

-----------------------------------------------------------------------------
(* The refinement. *)

(* Sequences that begin with a given word. *)
LEMMA InFront ==
  ASSUME NEW s \in Seq(Nat), NEW x \in Nat
  PROVE  /\ <<x>> \o s \in Seq(Nat) /\ <<x>> \o s # <<>>
         /\ Head(<<x>> \o s) = x /\ Tail(<<x>> \o s) = s
<1> DEFINE t == <<x>> \o s
<1>1. <<x>> \in Seq(Nat) /\ Len(<<x>>) = 1 /\ <<x>>[1] = x
  OBVIOUS
<1>2. /\ t \in Seq(Nat) /\ Len(t) = 1 + Len(s) /\ Len(s) \in Nat
      /\ \A i \in 1 .. 1 + Len(s) : t[i] = IF i <= 1 THEN <<x>>[i] ELSE s[i - 1]
  BY <1>1, ConcatProperties, LenProperties
<1> HIDE DEF t
<1>3. t # <<>>
  <2>1. Len(t) # 0
    BY <1>2
  <2> QED
    BY <2>1
<1>4. Head(t) = x
  <2>1. Head(t) = t[1] /\ 1 \in 1 .. 1 + Len(s)
    BY <1>2
  <2> QED
    BY <1>1, <1>2, <2>1
<1>5. Tail(t) = s
  <2>1. /\ Tail(t) \in Seq(Nat) /\ Len(Tail(t)) = Len(s)
        /\ \A i \in 1 .. Len(s) : Tail(t)[i] = t[i + 1]
    BY <1>2, <1>3, HeadTailProperties
  <2>2. \A i \in 1 .. Len(s) : t[i + 1] = s[i]
    <3> TAKE i \in 1 .. Len(s)
    <3>1. PICK j \in 1 .. 1 + Len(s) : j = i + 1
      BY <1>2
    <3>2. ~(j <= 1) /\ j - 1 = i
      BY <3>1
    <3> QED
      BY <1>2, <3>1, <3>2
  <2> QED
    BY <2>1, <2>2, SeqEqual
<1> QED
  BY <1>2, <1>3, <1>4, <1>5 DEF t

LEMMA HeadAndTail ==
  ASSUME NEW s \in Seq(Nat), s # <<>>
  PROVE  <<Head(s)>> \o Tail(s) = s
<1>1. /\ Head(s) = s[1] /\ Head(s) \in Nat /\ Tail(s) \in Seq(Nat)
      /\ Len(Tail(s)) = Len(s) - 1 /\ Len(s) \in Nat \ {0}
      /\ \A i \in 1 .. Len(Tail(s)) : Tail(s)[i] = s[i + 1]
  BY HeadTailProperties, EmptySeq
<1> DEFINE t == <<Head(s)>> \o Tail(s)
<1>2. /\ <<Head(s)>> \in Seq(Nat) /\ Len(<<Head(s)>>) = 1 /\ <<Head(s)>>[1] = Head(s)
  BY <1>1
<1>3. /\ t \in Seq(Nat) /\ Len(t) = Len(s)
      /\ \A i \in 1 .. Len(s) : t[i] = IF i <= 1 THEN <<Head(s)>>[i] ELSE Tail(s)[i - 1]
  <2>1. /\ t \in Seq(Nat) /\ Len(t) = 1 + Len(Tail(s))
        /\ \A i \in 1 .. 1 + Len(Tail(s)) :
             t[i] = IF i <= 1 THEN <<Head(s)>>[i] ELSE Tail(s)[i - 1]
    BY <1>1, <1>2, ConcatProperties
  <2>2. 1 + Len(Tail(s)) = Len(s)
    BY <1>1
  <2> QED
    BY <2>1, <2>2
<1> HIDE DEF t
<1>4. ASSUME NEW i \in 1 .. Len(s)
      PROVE  t[i] = s[i]
  <2>1. CASE i = 1
    BY <1>1, <1>2, <1>3, <2>1
  <2>2. CASE i # 1
    <3>1. ~(i <= 1) /\ i - 1 \in 1 .. Len(Tail(s)) /\ i - 1 + 1 = i
      BY <1>1, <2>2
    <3> QED
      BY <1>1, <1>3, <3>1
  <2> QED
    BY <2>1, <2>2
<1>5. t = s
  BY <1>3, <1>4, SeqEqual
<1> QED
  BY <1>5 DEF t

(* What a step does to chip c, seen as the atomic queue. *)
Begins(c) == /\ ~Serves(c) /\ Serves(c)' /\ stored'[c] = stored[c]
             /\ Waiting(c)' = Waiting(c) /\ Taken(c)' = Taken(c)
Stores(c) == /\ stored'[c] = stored[c] + 1
             /\ Waiting(c)' = IF Serves(c) THEN Append(Waiting(c), stored'[c]) ELSE Waiting(c)
             /\ (Serves(c)' <=> Serves(c)) /\ Taken(c)' = Taken(c)
Takes(c) == /\ Serves(c) /\ Serves(c)' /\ Waiting(c) # <<>>
            /\ Taken(c)' = Word(Head(Waiting(c)))
            /\ Waiting(c)' = Tail(Waiting(c)) /\ stored'[c] = stored[c]
Ends(c) == /\ Serves(c) /\ ~Serves(c)' /\ Waiting(c)' = <<>> /\ Taken(c)' = <<>>
           /\ stored'[c] = stored[c]
Stands(c) == /\ (Serves(c)' <=> Serves(c)) /\ Waiting(c)' = Waiting(c)
             /\ Taken(c)' = Taken(c) /\ stored'[c] = stored[c]
Queues(c) == Begins(c) \/ Stores(c) \/ Takes(c) \/ Ends(c) \/ Stands(c)

(* A chip that is not in service has nothing to show. *)
LEMMA OutOfService ==
  ASSUME NEW c \in Chan, ~Serves(c), ~Serves(c)', stored'[c] = stored[c]
  PROVE  Stands(c)
BY DEF Stands, Waiting, Taken

(* Neither has one that serves and whose words and place stay as they are.  *)
LEMMA InService ==
  ASSUME NEW c \in Chan, Serves(c), Serves(c)', stored'[c] = stored[c],
         mem'[c] = mem[c], latch'[c] = latch[c], got'[c] = got[c], InHand(c)' <=> InHand(c)
  PROVE  Stands(c)
BY DEF Stands, Waiting, Taken

(* The steps of the loop that do nothing to the words of chip c. *)
LEMMA QuietLoop ==
  ASSUME TypeInv, NEW c \in Chan, Sound(c), Good(c),
         \/ ReadFlag \/ ReadBit \/ Idle \/ SaveLed
         \/ (Strobe \/ Release) /\ chan # c
  PROVE  /\ stage \in Reading /\ stage' \in Reading
         /\ UNCHANGED <<stored, failed, stray>>
         /\ mem'[c] = mem[c] /\ latch'[c] = latch[c] /\ got'[c] = got[c]
         /\ InHand(c)' <=> InHand(c)
<1>1. CASE ReadFlag
  BY <1>1 DEF ReadFlag, NextChannel, InHand, Reading, chip
<1>2. CASE ReadBit
  BY <1>2 DEF ReadBit, InHand, Reading, chip
<1>3. CASE Idle
  BY <1>3 DEF Idle, InHand, Reading, chip
<1>4. CASE SaveLed
  <2>1. /\ stage = "led" /\ stage' = "flag" /\ UNCHANGED <<stored, failed, stray, got>>
    BY <1>4 DEF SaveLed
  <2>2. PICK v \in {0, 1} : Set(stray, v)
    BY <1>4 DEF SaveLed
  <2>3. stage \in Reading /\ stage' \in Reading /\ ~InHand(c) /\ ~InHand(c)'
    BY <2>1 DEF Reading, InHand
  <2>4. {R(c), RT(c)} \subseteq driven /\ level[RT(c)] = 1
    BY <2>3, LoopState
  <2>5. mem'[c] = mem[c] /\ latch'[c] = latch[c]
    BY <2>2, <2>4, SetOther DEF Sound
  <2> QED
    BY <2>1, <2>3, <2>5
<1>5. CASE (Strobe \/ Release) /\ chan # c
  <2>1. /\ stage \in Reading /\ stage' \in Reading /\ UNCHANGED <<stored, failed, stray>>
        /\ \E v \in {0, 1} : Set(R(chan), v)
        /\ Strobe => stage' = "bits" /\ chan' = chan /\ got' = got
        /\ Release => stage' \in {"flag", "idle"} /\ got' = [got EXCEPT ![chan] = word]
    BY <1>5 DEF Strobe, Release, Released, NextChannel, Reading
  <2>2. ~InHand(c) /\ ~InHand(c)'
    BY <1>5, <2>1 DEF InHand
  <2>3. chan \in Chan /\ got \in [Chan -> Seq(Int)]
    BY DEF TypeInv, PlaceOK, GotOK
  <2>4. R(chan) \notin {R(c), RT(c)}
    BY <1>5, <2>3, PinNames
  <2>5. {R(c), RT(c)} \subseteq driven /\ level[RT(c)] = 1
    BY <2>1, LoopState
  <2>6. mem'[c] = mem[c] /\ latch'[c] = latch[c]
    BY <2>1, <2>4, <2>5, SetOther
  <2>7. got'[c] = got[c]
    BY <1>5, <2>1, <2>3
  <2> QED
    BY <2>1, <2>2, <2>6, <2>7
<1> QED
  BY <1>1, <1>2, <1>3, <1>4, <1>5

LEMMA HwWriteQueues ==
  ASSUME TypeInv, NEW c \in Chan, NEW d \in Chan, HwWrite(d)
  PROVE  Queues(c)
<1> DEFINE m == Append(mem[d], stored[d] + 1)
<1>1. /\ stored' = [stored EXCEPT ![d] = stored[d] + 1] /\ mem' = [mem EXCEPT ![d] = m]
      /\ UNCHANGED <<latch, failed, stray, stage, at, chan, got>>
  BY HwWriteSteps
<1>2. /\ stored \in [Chan -> Nat] /\ mem \in [Chan -> Seq(Nat)] /\ latch[c] \in Nat
  BY DEF TypeInv, ChipsOK
<1>3. /\ (Serves(c)' <=> Serves(c)) /\ (InHand(c)' <=> InHand(c)) /\ Taken(c)' = Taken(c)
  BY <1>1 DEF Serves, Sound, InHand, Taken
<1>4. CASE d # c
  <2>1. stored'[c] = stored[c] /\ mem'[c] = mem[c]
    BY <1>1, <1>2, <1>4
  <2> QED
    BY <1>1, <1>3, <2>1, OutOfService, InService DEF Queues
<1>5. CASE d = c
  <2>1. stored'[c] = stored[c] + 1 /\ mem'[c] = Append(mem[c], stored[c] + 1)
    BY <1>1, <1>2, <1>5
  <2>2. CASE ~Serves(c)
    BY <1>3, <2>1, <2>2 DEF Queues, Stores, Waiting
  <2>3. CASE Serves(c)
    <3> DEFINE front == IF InHand(c) THEN <<latch[c]>> ELSE <<>>
               x == stored[c] + 1
               s == mem[c]
    <3>1. front \in Seq(Nat) /\ s \in Seq(Nat) /\ x \in Nat /\ <<x>> \in Seq(Nat)
      BY <1>2
    <3>2. Waiting(c) = front \o s /\ Waiting(c)' = front \o Append(s, x)
      BY <1>1, <1>3, <2>1, <2>3 DEF Waiting
    <3> HIDE DEF front, x, s
    <3>3. front \o Append(s, x) = Append(front \o s, x)
      <4>1. Append(s, x) = s \o <<x>> /\ front \o s \in Seq(Nat)
        BY <3>1, AppendIsConcat, ConcatProperties
      <4>2. Append(front \o s, x) = (front \o s) \o <<x>>
        BY <3>1, <4>1, AppendIsConcat
      <4> QED
        BY <3>1, <4>1, <4>2, ConcatAssociative
    <3>4. x = stored'[c]
      BY <2>1 DEF x
    <3> QED
      BY <1>3, <2>1, <2>3, <3>2, <3>3, <3>4 DEF Queues, Stores
  <2> QED
    BY <2>2, <2>3
<1> QED
  BY <1>4, <1>5

LEMMA ResetQueues ==
  ASSUME TypeInv, SoundInv, NEW c \in Chan, Reset
  PROVE  Queues(c)
<1>1. /\ stage = "reset" /\ at \in 1 .. 6
      /\ Set(ResetSequence[at][1], ResetSequence[at][2])
      /\ IF at < 6 THEN at' = at + 1 /\ stage' = stage
                    ELSE at' = 1 /\ stage' = "flag"
      /\ UNCHANGED <<stored, opened, failed, stray, chan, word, got, born>>
  BY ResetSteps
<1>2. (Sound(c)' <=> Sound(c)) /\ ~InHand(c) /\ ~InHand(c)'
  BY <1>1 DEF Sound, InHand
<1>3. /\ Raising(c) \in {1, 2} /\ Emptying(c) = Raising(c) + 2
      /\ Enabling(c) = Raising(c) + 4
  BY Resets
<1>4. Serves(c) <=> Sound(c) /\ at > Emptying(c)
  BY <1>1 DEF Serves, Reading
<1>5. Serves(c)' <=> Sound(c) /\ at + 1 > Emptying(c)
  <2>1. CASE at < 6
    BY <1>1, <1>2, <2>1 DEF Serves, Reading
  <2>2. CASE ~(at < 6)
    BY <1>1, <1>2, <1>3, <2>2 DEF Serves, Reading
  <2> QED
    BY <2>1, <2>2
<1>6. CASE ~Sound(c) \/ at < Emptying(c)
  <2>1. ~Serves(c) /\ ~Serves(c)'
    BY <1>1, <1>3, <1>4, <1>5, <1>6
  <2> QED
    BY <1>1, <2>1, OutOfService DEF Queues
<1>7. CASE Sound(c) /\ at >= Emptying(c)
  <2>1. Good(c)
    BY <1>7 DEF SoundInv, Good
  <2>2. {R(c), RT(c)} \subseteq driven /\ PinsOf(c) \subseteq opened /\ ResetUpTo(c, at)
    BY <1>1, <2>1 DEF Good, Prepared, Resetting
  <2>3. {R(c), RT(c)} \subseteq opened
    BY <2>2, PinSets
  <2>4. PICK k \in 1 .. 6 : k = at
    BY <1>1
  <2>5. CASE at = Emptying(c)
    <3>1. k + 1 > Emptying(c) /\ k + 1 <= Enabling(c)
      BY <1>3, <2>4, <2>5
    <3>2. ResetUpTo(c, k + 1)'
      BY <1>1, <2>2, <2>3, <2>4, ResetAdvances
    <3>3. mem'[c] = <<>>
      BY <3>1, <3>2 DEF ResetUpTo
    <3>4. got'[c] = <<>>
      BY <1>1 DEF TypeInv, GotOK, Reading
    <3>5. ~Serves(c) /\ Serves(c)'
      BY <1>1, <1>3, <1>4, <1>5, <1>7, <2>5
    <3>6. Waiting(c) = <<>> /\ Taken(c) = <<>>
      BY <3>5 DEF Waiting, Taken
    <3>7. Waiting(c)' = <<>> /\ Taken(c)' = <<>>
      <4>1. <<>> \o <<>> = <<>>
        BY EmptySeq, ConcatEmptySeq
      <4> QED
        BY <1>2, <3>3, <3>4, <3>5, <4>1 DEF Waiting, Taken
    <3> QED
      BY <1>1, <3>5, <3>6, <3>7 DEF Queues, Begins
  <2>6. CASE at > Emptying(c)
    <3>1. Serves(c) /\ Serves(c)'
      BY <1>1, <1>3, <1>4, <1>5, <1>7, <2>6
    <3>2. level[R(c)] = 1 /\ (level[RT(c)] = 0 => mem[c] = <<>>) /\ level[RT(c)] \in {0, 1}
      <4>1. at > Raising(c) /\ (at <= Enabling(c) \/ at > Enabling(c))
        BY <1>1, <1>3, <2>6
      <4>2. RT(c) \in Lines /\ level \in [Lines -> {0, 1}]
        BY PinSets DEF TypeInv, PinsOK
      <4> QED
        BY <2>2, <2>6, <4>1, <4>2 DEF ResetUpTo
    <3>3. mem'[c] = mem[c] /\ latch'[c] = latch[c]
      <4>1. CASE at = Enabling(c)
        <5>1. Set(RT(c), 1)
          BY <1>1, <4>1, Resets
        <5>2. mem'[c] = mem[c] /\ level'[R(c)] = 1 /\ level'[RT(c)] = 1 /\ driven' = driven
          BY <2>2, <2>3, <3>2, <5>1, SetRetransmit DEF Set
        <5>3. Line(R(c))' = 1 /\ Line(RT(c))' = 1
          BY <2>2, <5>2, DrivenLines
        <5>4. Emptied(c) \/ Shifted(c) \/ Kept(c)
          BY <5>1, ChipMoves DEF Set, TypeInv
        <5> QED
          BY <5>2, <5>3, <5>4 DEF Emptied, Shifted, Kept, Falls
      <4>2. CASE at # Enabling(c)
        <5> DEFINE p == ResetSequence[at][1]
                   v == ResetSequence[at][2]
        <5>1. at \notin {Raising(c), Emptying(c), Enabling(c)}
          BY <1>3, <2>6, <4>2
        <5>2. p \notin {R(c), RT(c)} /\ v \in {0, 1} /\ Set(p, v)
          BY <1>1, <5>1, Resets
        <5>3. /\ level'[R(c)] = level[R(c)] /\ level'[RT(c)] = level[RT(c)]
              /\ level[RT(c)] = 1 => mem'[c] = mem[c] /\ latch'[c] = latch[c]
              /\ level[RT(c)] = 0 => mem'[c] = <<>>
          BY <2>2, <5>2, SetOther
        <5>4. mem'[c] = mem[c]
          BY <3>2, <5>3
        <5>5. Line(R(c)) = 1 /\ Line(R(c))' = 1
          BY <2>2, <3>2, <5>2, <5>3, DrivenLines DEF Set
        <5>6. Emptied(c) \/ Shifted(c) \/ Kept(c)
          BY <5>2, ChipMoves DEF Set, TypeInv
        <5> QED
          BY <5>4, <5>5, <5>6 DEF Emptied, Shifted, Kept, Falls
      <4> QED
        BY <4>1, <4>2
    <3> QED
      BY <1>1, <1>2, <3>1, <3>3, InService DEF Queues
  <2> QED
    BY <1>1, <1>3, <1>7, <2>5, <2>6
<1> QED
  BY <1>1, <1>3, <1>6, <1>7

(* R falls: the front word is on its way, and still in the queue. *)
LEMMA StrobeQueues ==
  ASSUME TypeInv, NEW c \in Chan, Sound(c), Good(c), Strobe, chan = c
  PROVE  Stands(c)
<1>1. /\ stage = "strobe" /\ stage' = "bits" /\ Set(R(c), 0) /\ chan' = c
      /\ UNCHANGED <<stored, failed, stray, got>>
  BY DEF Strobe
<1>2. stage \in Reading /\ stage' \in Reading /\ ~InHand(c) /\ InHand(c)'
  BY <1>1 DEF Reading, InHand
<1>3. /\ {R(c), RT(c)} \subseteq driven /\ R(c) \in opened
      /\ level[RT(c)] = 1 /\ level[R(c)] = 1
  BY <1>2, LoopState
<1>4. mem[c] # <<>>
  BY <1>1, <1>2 DEF Good, Serving
<1>5. mem'[c] = Tail(mem[c]) /\ latch'[c] = Head(mem[c])
  BY <1>1, <1>3, <1>4, SetStrobe
<1>6. Serves(c) /\ Serves(c)'
  BY <1>1, <1>2 DEF Serves, Sound
<1>7. mem[c] \in Seq(Nat)
  BY DEF TypeInv, ChipsOK
<1>8. Waiting(c) = mem[c]
  BY <1>2, <1>6, <1>7, ConcatEmptySeq DEF Waiting
<1>9. Waiting(c)' = <<Head(mem[c])>> \o Tail(mem[c])
  BY <1>2, <1>5, <1>6 DEF Waiting
<1>10. Waiting(c)' = Waiting(c)
  BY <1>4, <1>7, <1>8, <1>9, HeadAndTail
<1>11. Taken(c)' = Taken(c)
  BY <1>1, <1>6 DEF Taken
<1> QED
  BY <1>1, <1>6, <1>10, <1>11 DEF Stands

(* R rises again: the word is taken. *)
LEMMA ReleaseQueues ==
  ASSUME TypeInv, NEW c \in Chan, Sound(c), Good(c), Release, chan = c
  PROVE  Takes(c)
<1>1. /\ stage = "release" /\ stage' \in {"flag", "idle"} /\ Set(R(c), 1)
      /\ word \in Seq(Int) /\ Len(word) = Bits
      /\ got' = [got EXCEPT ![c] = word]
      /\ UNCHANGED <<stored, failed, stray>>
  BY ReleaseSteps
<1>2. stage \in Reading /\ stage' \in Reading /\ InHand(c) /\ ~InHand(c)'
  BY <1>1 DEF Reading, InHand
<1>3. /\ {R(c), RT(c)} \subseteq driven /\ R(c) \in opened /\ level[RT(c)] = 1
  BY <1>2, LoopState
<1>4. mem'[c] = mem[c] /\ latch'[c] = latch[c]
  BY <1>1, <1>3, SetStrobe
<1>5. Serves(c) /\ Serves(c)'
  BY <1>1, <1>2 DEF Serves, Sound
<1>6. mem[c] \in Seq(Nat) /\ latch[c] \in Nat /\ got'[c] = word
  BY <1>1 DEF TypeInv, ChipsOK, GotOK
<1>7. Waiting(c) = <<latch[c]>> \o mem[c] /\ Waiting(c)' = mem[c]
  BY <1>2, <1>4, <1>5, <1>6, ConcatEmptySeq DEF Waiting
<1>8. Taken(c)' = Word(latch[c])
  <2>1. AllOf(word, latch[c])
    BY <1>2 DEF Good, Serving
  <2>2. word \in [1 .. Bits -> Int] /\ \A i \in 1 .. Bits : word[i] = latch[c]
    BY <1>1, <2>1, LenProperties DEF AllOf
  <2>3. word = Word(latch[c])
    BY <2>2 DEF Word
  <2> QED
    BY <1>5, <1>6, <2>3 DEF Taken
<1>9. stored'[c] = stored[c]
  BY <1>1
<1>10. Waiting(c) # <<>> /\ Head(Waiting(c)) = latch[c] /\ Tail(Waiting(c)) = mem[c]
  BY <1>6, <1>7, InFront
<1> QED
  BY <1>5, <1>7, <1>8, <1>9, <1>10, Zenon DEF Takes

LEMMA EveryStepQueues ==
  ASSUME Inv, [Next]_vars, NEW c \in Chan
  PROVE  Queues(c)
<1>1. TypeInv /\ SoundInv
  BY DEF Inv
<1>2. CASE UNCHANGED vars
  <2>1. (Serves(c)' <=> Serves(c)) /\ Waiting(c)' = Waiting(c) /\ Taken(c)' = Taken(c)
    BY <1>2 DEF vars, Serves, Sound, Waiting, InHand, Taken
  <2> QED
    BY <1>2, <2>1 DEF vars, Queues, Stands
<1>3. CASE Kill
  <2>1. ~Serves(c)' /\ stored' = stored
    BY <1>3 DEF Kill, Serves, Reading
  <2>2. CASE Serves(c)
    BY <2>1, <2>2 DEF Queues, Ends, Waiting, Taken
  <2>3. CASE ~Serves(c)
    BY <2>1, <2>3, OutOfService DEF Queues
  <2> QED
    BY <2>2, <2>3
<1>4. CASE \E d \in Chan : HwWrite(d)
  BY <1>1, <1>4, HwWriteQueues
<1>5. CASE Export \/ RegisterFails \/ Direct \/ Open
  <2>1. /\ stage \in {"register", "direct", "open"} /\ stored' = stored
        /\ stage' \in {"register", "direct", "open"} \/ (stage' = "reset" /\ at' = 1)
    BY <1>5 DEF Export, RegisterFails, Direct, Open, Advance
  <2>2. ~(1 > Emptying(c))
    BY DEF Emptying
  <2>3. ~Serves(c) /\ ~Serves(c)'
    BY <2>1, <2>2 DEF Serves, Reading
  <2> QED
    BY <2>1, <2>3, OutOfService DEF Queues
<1>6. CASE Reset
  BY <1>1, <1>6, ResetQueues
<1>7. CASE ReadFlag \/ Strobe \/ ReadBit \/ Release \/ Idle \/ SaveLed
  <2>1. /\ stage \in Reading /\ stage' \in Reading /\ UNCHANGED <<stored, failed, stray>>
    BY <1>7 DEF ReadFlag, Strobe, ReadBit, Release, Idle, SaveLed, NextChannel, Reading
  <2>2. (Serves(c) <=> Sound(c)) /\ (Serves(c)' <=> Sound(c))
    BY <2>1 DEF Serves, Sound
  <2>3. CASE ~Sound(c)
    BY <2>1, <2>2, <2>3, OutOfService DEF Queues
  <2>4. CASE Sound(c)
    <3>1. Good(c)
      BY <1>1, <2>4 DEF SoundInv, Good
    <3>2. CASE Strobe /\ chan = c
      BY <1>1, <2>4, <3>1, <3>2, StrobeQueues DEF Queues
    <3>3. CASE Release /\ chan = c
      BY <1>1, <2>4, <3>1, <3>3, ReleaseQueues DEF Queues
    <3>4. CASE ~(Strobe /\ chan = c) /\ ~(Release /\ chan = c)
      <4>1. /\ mem'[c] = mem[c] /\ latch'[c] = latch[c] /\ got'[c] = got[c]
            /\ InHand(c)' <=> InHand(c)
        BY <1>1, <1>7, <2>4, <3>1, <3>4, QuietLoop
      <4> QED
        BY <2>1, <2>2, <2>4, <4>1, InService DEF Queues
    <3> QED
      BY <3>2, <3>3, <3>4
  <2> QED
    BY <2>3, <2>4
<1> QED
  BY <1>2, <1>3, <1>4, <1>5, <1>6, <1>7 DEF Next, Thread

(* For chip A the detailed steps are steps of the atomic queue. *)
LEMMA ChipImplementsA ==
  /\ Init => FifoA!Init
  /\ Inv /\ [Next]_vars => [FifoA!Next]_FifoA!vars
<1>1. ASSUME Init
      PROVE  FifoA!Init
  <2>1. ~Serves("A") /\ stored["A"] = 0
    BY <1>1 DEF Init, Serves, Reading, Chan
  <2>2. Waiting("A") = <<>> /\ Taken("A") = <<>>
    BY <2>1 DEF Waiting, Taken
  <2> QED
    BY <2>1, <2>2 DEF FifoA!Init, Serves
<1>2. ASSUME Inv, [Next]_vars
      PROVE  [FifoA!Next]_FifoA!vars
  <2>1. "A" \in Chan
    BY DEF Chan
  <2>2. Queues("A")
    BY <1>2, <2>1, EveryStepQueues
  <2>3. Serves("A") \in BOOLEAN /\ Serves("A")' \in BOOLEAN
    BY DEF Serves
  <2>4. CASE Begins("A")
    BY <2>3, <2>4, Zenon DEF Begins, FifoA!Next, FifoA!Begin
  <2>5. CASE Stores("A")
    BY <2>3, <2>5, Zenon DEF Stores, FifoA!Next, FifoA!Store
  <2>6. CASE Takes("A")
    BY <2>3, <2>6, Zenon DEF Takes, Word, FifoA!Next, FifoA!Take
  <2>7. CASE Ends("A")
    BY <2>3, <2>7, Zenon DEF Ends, FifoA!Next, FifoA!End
  <2>8. CASE Stands("A")
    BY <2>3, <2>8, Zenon DEF Stands, FifoA!vars
  <2> QED
    BY <2>2, <2>4, <2>5, <2>6, <2>7, <2>8 DEF Queues
<1> QED
  BY <1>1, <1>2

(* For chip B the detailed steps are steps of the atomic queue. *)
LEMMA ChipImplementsB ==
  /\ Init => FifoB!Init
  /\ Inv /\ [Next]_vars => [FifoB!Next]_FifoB!vars
<1>1. ASSUME Init
      PROVE  FifoB!Init
  <2>1. ~Serves("B") /\ stored["B"] = 0
    BY <1>1 DEF Init, Serves, Reading, Chan
  <2>2. Waiting("B") = <<>> /\ Taken("B") = <<>>
    BY <2>1 DEF Waiting, Taken
  <2> QED
    BY <2>1, <2>2 DEF FifoB!Init, Serves
<1>2. ASSUME Inv, [Next]_vars
      PROVE  [FifoB!Next]_FifoB!vars
  <2>1. "B" \in Chan
    BY DEF Chan
  <2>2. Queues("B")
    BY <1>2, <2>1, EveryStepQueues
  <2>3. Serves("B") \in BOOLEAN /\ Serves("B")' \in BOOLEAN
    BY DEF Serves
  <2>4. CASE Begins("B")
    BY <2>3, <2>4, Zenon DEF Begins, FifoB!Next, FifoB!Begin
  <2>5. CASE Stores("B")
    BY <2>3, <2>5, Zenon DEF Stores, FifoB!Next, FifoB!Store
  <2>6. CASE Takes("B")
    BY <2>3, <2>6, Zenon DEF Takes, Word, FifoB!Next, FifoB!Take
  <2>7. CASE Ends("B")
    BY <2>3, <2>7, Zenon DEF Ends, FifoB!Next, FifoB!End
  <2>8. CASE Stands("B")
    BY <2>3, <2>8, Zenon DEF Stands, FifoB!vars
  <2> QED
    BY <2>2, <2>4, <2>5, <2>6, <2>7, <2>8 DEF Queues
<1> QED
  BY <1>1, <1>2

(* The reader, which samples a word bit by bit while the hardware stores    *)
(* others and the pins of the other chip may fail, implements a queue whose *)
(* front word is taken in one step, for each chip: the step is the release  *)
(* of R, with which the word that was held at the output is returned.       *)
THEOREM ReaderImplementsAtomicFifo == Spec => ReadsAtomically
<1>1. Spec => FifoA!Spec
  BY ChipImplementsA, Invariance, PTL DEF Spec, FifoA!Spec
<1>2. Spec => FifoB!Spec
  BY ChipImplementsB, Invariance, PTL DEF Spec, FifoB!Spec
<1> QED
  BY <1>1, <1>2 DEF ReadsAtomically
=============================================================================
