----------------------------- MODULE FifoReader -----------------------------
(***************************************************************************)
(* FifoReader of fiforeader.cpp: the two FIFO chips, driven pin by pin     *)
(* through /sys/class/gpio.                                                *)
(*                                                                         *)
(* fifo_init exports the pins, sets their directions, opens their value    *)
(* files and resets the chips.  A word is read by pulling the read line R  *)
(* of a chip low, sampling the data pins one by one and releasing R.       *)
(* Every one of these steps is a system call of its own: the hardware goes *)
(* on writing in between, the process may be killed, and a call may fail,  *)
(* which the code never looks at.  Pins, directions and levels belong to   *)
(* the kernel and to the board: they outlive the process.                  *)
(*                                                                         *)
(* Words are numbered in the order in which a chip stores them; a word     *)
(* that has been read is the sequence of the numbers its bits came from.   *)
(* The full flags and the pins of the MCU are left out: nothing depends on *)
(* them here (Capture models the switch).                                  *)
(***************************************************************************)
EXTENDS Integers, Sequences

CONSTANTS
  Bits,       \* data pins of a chip (16 in the code)
  Depth,      \* words a chip can hold
  StrayPins,  \* pins whose descriptor m_save_led.fd may happen to equal;
              \* <<>> stands for a number that is no pin's descriptor
  MaxWords,   \* MaxWords[c], a bound: words chip c stores
  MaxFaults,  \* bound: system calls that fail
  MaxKills    \* bound: deaths of the process

Chan == {"A", "B"}

R(c) == <<"R", c>>
RT(c) == <<"rt", c>>
EF(c) == <<"ef", c>>
Data(c, i) == <<"data", c, i>>
Lines == {R(c) : c \in Chan} \cup {RT(c) : c \in Chan}
PinsOf(c) == {R(c), RT(c), EF(c)} \cup {Data(c, i) : i \in 1 .. Bits}
Pins == PinsOf("A") \cup PinsOf("B")

ASSUME FifoReaderAssumption ==
  /\ Bits \in Nat \ {0} /\ Depth \in Nat \ {0}
  /\ StrayPins \subseteq Pins \cup {<<>>} /\ StrayPins # {}
  /\ MaxWords \in [Chan -> Nat] /\ MaxFaults \in Nat /\ MaxKills \in Nat

VARIABLES
  exported,   \* pins the kernel has exported
  driven,     \* pins whose direction is "out"
  level,      \* level[p]: what the line p was last set to
  mem,        \* mem[c]: words in chip c
  latch,      \* latch[c]: the word chip c has at its output
  stored,     \* stored[c]: words chip c has ever stored
  opened,     \* pins whose value file this process has open
  failed,     \* history: pins a call of this process has failed for
  stray,      \* the pin whose descriptor m_save_led.fd equals
  stage, at,  \* where the thread is
  chan,       \* the channel it is reading
  word,       \* the bits read so far
  got,        \* got[c]: the last word this process has read from chip c
  born,       \* history: stored[c] when the process started
  faults, kills

chip == <<mem, latch>>
kernel == <<exported, driven, level>>
history == <<born, faults, kills>>
vars == <<exported, driven, level, mem, latch, stored, opened, failed, stray,
          stage, at, chan, word, got, born, faults, kills>>

(* The lines of the chips, with their pull-ups. *)
Line(p) == IF p \in driven THEN level[p] ELSE 1

(* The order in which gpio_register, gpio_direct_init and gpio_all_open    *)
(* treat the pins.                                                         *)
DataPins ==
  [k \in 1 .. 2 * Bits |->
     IF k <= Bits THEN Data("A", k) ELSE Data("B", k - Bits)]
RegisterOrder ==
  DataPins \o <<R("A"), RT("A"), EF("A"), R("B"), EF("B"), RT("B")>>
DirectOrder ==
  DataPins \o <<EF("A"), EF("B"), RT("A"), RT("B"), R("A"), R("B")>>
OpenOrder == DirectOrder

(* What fifo_init then sets the lines to. *)
ResetSequence ==
  << <<R("A"), 1>>, <<R("B"), 1>>, <<RT("A"), 0>>, <<RT("B"), 0>>,
     <<RT("A"), 1>>, <<RT("B"), 1>> >>

Init ==
  /\ exported = {} /\ driven = {}
  /\ level = [p \in Lines |-> 1]
  /\ mem = [c \in Chan |-> <<>>]
  /\ latch = [c \in Chan |-> 0]
  /\ stored = [c \in Chan |-> 0]
  /\ opened = {} /\ failed = {}
  /\ stray \in StrayPins
  /\ stage = "register" /\ at = 1 /\ chan = "A"
  /\ word = <<>>
  /\ got = [c \in Chan |-> <<>>]
  /\ born = stored
  /\ faults = 0 /\ kills = 0

-----------------------------------------------------------------------------
(* The chips and the hardware that fills them. *)

(* A falling R moves the front word to the output; rt low empties the chip. *)
Falls(c) == Line(R(c)) = 1 /\ Line(R(c))' = 0 /\ Line(RT(c))' = 1 /\ mem[c] # <<>>

ChipsFollow ==
  /\ mem' = [c \in Chan |-> CASE Line(RT(c))' = 0 -> <<>>
                              [] Falls(c) -> Tail(mem[c])
                              [] OTHER -> mem[c]]
  /\ latch' = [c \in Chan |-> IF Falls(c) THEN Head(mem[c]) ELSE latch[c]]

(* The data pins carry the output word while R is low, and float otherwise: *)
(* what is then read comes from no word.                                   *)
Floating == -1
Output(c) == IF Line(R(c)) = 0 THEN latch[c] ELSE Floating

HwWrite(c) ==
  /\ stored[c] < MaxWords[c]
  /\ Len(mem[c]) < Depth
  /\ Line(RT(c)) = 1
  /\ stored' = [stored EXCEPT ![c] = @ + 1]
  /\ mem' = [mem EXCEPT ![c] = Append(@, stored'[c])]
  /\ UNCHANGED <<kernel, latch, opened, failed, stray, stage, at, chan, word,
                 got, history>>

-----------------------------------------------------------------------------
(* Plausible mistakes, each put in the place of the definition it varies.  *)

(* The reset lines are configured as inputs. *)
StrobesOnly == {R(c) : c \in Chan}

(* read_fifo_B forgets the offset of its pins. *)
PinOfA(c, i) == Data("A", i)

(* One bit too many. *)
LastBitAfter(i) == i > Bits

(* The empty flag is taken to be high when the chip is empty. *)
EmptyHigh(c) == IF EF(c) \in opened /\ mem[c] = <<>> THEN 1 ELSE 0

(* R is not released. *)
HeldLow == 0

-----------------------------------------------------------------------------
(* Calls on an open pin. *)

(* set_single_gpio_out: what write returns is not looked at. *)
Set(p, v) ==
  /\ level' = IF p \in opened \cap driven THEN [level EXCEPT ![p] = v] ELSE level
  /\ UNCHANGED <<exported, driven>>
  /\ ChipsFollow

(* get_single_gpio_in: after a read that fails the pin is taken to be '0'. *)
Flag(c) == IF EF(c) \in opened /\ mem[c] # <<>> THEN 1 ELSE 0
Bit(c, p) == IF p \in opened THEN Output(c) ELSE 0

(* Which pin of chip c carries bit i: m_fifo_pin[i] or m_fifo_pin[i + 16]. *)
PinOf(c, i) == Data(c, i)

LastBit(i) == i = Bits

(* The level R is left at between two words. *)
Released == 1

-----------------------------------------------------------------------------
(* fifo_init: gpio_register, gpio_direct_init, gpio_all_open, the reset.   *)

Outputs == Lines

(* A call fails because the pin is not there, or for a reason of its own.  *)
CallFails(p) ==
  \/ p \notin exported /\ UNCHANGED faults
  \/ p \in exported /\ faults < MaxFaults /\ faults' = faults + 1

Advance(order, next) ==
  IF at < Len(order) THEN at' = at + 1 /\ UNCHANGED stage
                     ELSE at' = 1 /\ stage' = next

Export ==
  /\ stage = "register"
  /\ \/ exported' = exported \cup {RegisterOrder[at]} /\ UNCHANGED faults
     \/ faults < MaxFaults /\ faults' = faults + 1 /\ UNCHANGED exported
  /\ Advance(RegisterOrder, "direct")
  /\ UNCHANGED <<driven, level, chip, stored, opened, failed, stray, chan,
                 word, got, born, kills>>

(* The export file cannot be opened; gpio_init ignores the result.         *)
RegisterFails ==
  /\ stage = "register" /\ at = 1
  /\ faults < MaxFaults /\ faults' = faults + 1
  /\ stage' = "direct"
  /\ UNCHANGED <<kernel, chip, stored, opened, failed, stray, at, chan, word,
                 got, born, kills>>

(* A pin that becomes an output is low at first. *)
Direct ==
  /\ stage = "direct"
  /\ LET p == DirectOrder[at] IN
       \/ /\ p \in exported
          /\ driven' = IF p \in Outputs THEN driven \cup {p} ELSE driven \ {p}
          /\ level' = IF p \in Outputs THEN [level EXCEPT ![p] = 0] ELSE level
          /\ ChipsFollow
          /\ UNCHANGED <<failed, faults>>
       \/ /\ CallFails(p)
          /\ failed' = failed \cup {p}
          /\ UNCHANGED <<driven, level, chip>>
  /\ Advance(DirectOrder, "open")
  /\ UNCHANGED <<exported, stored, opened, stray, chan, word, got, born, kills>>

Open ==
  /\ stage = "open"
  /\ LET p == OpenOrder[at] IN
       \/ /\ p \in exported
          /\ opened' = opened \cup {p}
          /\ UNCHANGED <<failed, faults>>
       \/ /\ CallFails(p)
          /\ failed' = failed \cup {p}
          /\ UNCHANGED opened
  /\ Advance(OpenOrder, "reset")
  /\ UNCHANGED <<kernel, chip, stored, stray, chan, word, got, born, kills>>

Reset ==
  /\ stage = "reset"
  /\ Set(ResetSequence[at][1], ResetSequence[at][2])
  /\ Advance(ResetSequence, "flag")
  /\ UNCHANGED <<stored, opened, failed, stray, chan, word, got, history>>

-----------------------------------------------------------------------------
(* get_fifo_A_value and get_fifo_B_value, called in turn by the loop.      *)

NextChannel ==
  IF chan = "A" THEN chan' = "B" /\ stage' = "flag"
                ELSE chan' = "A" /\ stage' = "idle"

ReadFlag ==
  /\ stage = "flag"
  /\ IF Flag(chan) = 1 THEN stage' = "strobe" /\ UNCHANGED chan
                       ELSE NextChannel
  /\ UNCHANGED <<kernel, chip, stored, opened, failed, stray, at, word, got,
                 history>>

Strobe ==
  /\ stage = "strobe"
  /\ Set(R(chan), 0)
  /\ word' = <<>>
  /\ stage' = "bits"
  /\ UNCHANGED <<stored, opened, failed, stray, at, chan, got, history>>

ReadBit ==
  /\ stage = "bits"
  /\ word' = Append(word, Bit(chan, PinOf(chan, at)))
  /\ IF LastBit(at) THEN at' = 1 /\ stage' = "release"
                    ELSE at' = at + 1 /\ UNCHANGED stage
  /\ UNCHANGED <<kernel, chip, stored, opened, failed, stray, chan, got,
                 history>>

Release ==
  /\ stage = "release"
  /\ Set(R(chan), Released)
  /\ got' = [got EXCEPT ![chan] = word]
  /\ word' = <<>>
  /\ NextChannel
  /\ UNCHANGED <<stored, opened, failed, stray, at, history>>

(* When it sees an empty chip the loop puts a bit of the data on m_save_led *)
(* ...                                                                      *)
Idle ==
  /\ stage = "idle"
  /\ stage' = IF \E c \in Chan : Flag(c) = 0 THEN "led" ELSE "flag"
  /\ UNCHANGED <<kernel, chip, stored, opened, failed, stray, at, chan, word,
                 got, history>>

(* ... through a descriptor that nothing has set. *)
SaveLed ==
  /\ stage = "led"
  /\ \E v \in {0, 1} : Set(stray, v)
  /\ stage' = "flag"
  /\ UNCHANGED <<stored, opened, failed, stray, at, chan, word, got, history>>

Thread ==
  \/ Export \/ RegisterFails \/ Direct \/ Open \/ Reset
  \/ ReadFlag \/ Strobe \/ ReadBit \/ Release \/ Idle \/ SaveLed

(* The process dies and is started again.  ~FifoReader leaves the pins as  *)
(* they are, and the kernel closes the files.                              *)
Kill ==
  /\ kills < MaxKills /\ kills' = kills + 1
  /\ opened' = {} /\ failed' = {}
  /\ stray' \in StrayPins
  /\ stage' = "register" /\ at' = 1 /\ chan' = "A"
  /\ word' = <<>> /\ got' = [c \in Chan |-> <<>>]
  /\ born' = stored
  /\ UNCHANGED <<kernel, chip, stored, faults>>

Next == (\E c \in Chan : HwWrite(c)) \/ Thread \/ Kill

Spec == Init /\ [][Next]_vars

(* The capture thread runs; it waits for nothing but its sleeps.           *)
FairSpec == Spec /\ WF_vars(Thread)

-----------------------------------------------------------------------------
(* Properties. *)

Stages == {"register", "direct", "open", "reset", "flag", "strobe", "bits",
           "release", "idle", "led"}
Reading == {"flag", "strobe", "bits", "release", "idle", "led"}

TypeOK ==
  /\ exported \subseteq Pins /\ driven \subseteq exported
  /\ opened \subseteq exported /\ failed \subseteq Pins
  /\ level \in [Lines -> {0, 1}]
  /\ \A c \in Chan : Len(mem[c]) <= Depth /\ latch[c] \in 0 .. stored[c]
  /\ stray \in StrayPins
  /\ stage \in Stages /\ chan \in Chan
  /\ at \in 1 .. Len(RegisterOrder)
  /\ Len(word) <= Bits
  /\ \A c \in Chan : Len(got[c]) \in {0, Bits} /\ born[c] \in 0 .. stored[c]

(* Every call for the pins of c has worked, and the descriptor that        *)
(* m_save_led happens to hold is not the one of a line of c.               *)
Sound(c) == failed \cap PinsOf(c) = {} /\ stray \notin {R(c), RT(c)}

Word(n) == [i \in 1 .. Bits |-> n]

(* A word that is returned has all its bits from one word of its own chip, *)
(* although the chip is written to and the other chip is in any condition. *)
WordWhole ==
  \A c \in Chan :
    Sound(c) /\ got[c] # <<>> => \E n \in 1 .. stored[c] : got[c] = Word(n)

(* A process returns no word that was in the chip before it started: the   *)
(* reset of fifo_init works from every condition a killed process, even    *)
(* one that had pulled R low, can have left the pins and the chip in.      *)
Fresh ==
  \A c \in Chan :
    Sound(c) => \A i \in DOMAIN got[c] : got[c][i] > born[c]

(* After the first word, the words returned for a chip follow each other   *)
(* without a gap and without a repetition.                                 *)
Successive ==
  [][\A c \in Chan :
       stage = "release" /\ stage' # "release" /\ chan = c /\ Sound(c)
         /\ got[c] # <<>> /\ got'[c] # <<>>
       => \A i \in 1 .. Bits : got'[c][i] = got[c][i] + 1]_vars

(* Once fifo_init has emptied it, a sound chip serves as a queue whose      *)
(* front word is taken in one step, which is how Capture reads it.  A word *)
(* on its way out, while R is low, is still in the queue.                  *)
Emptying(c) == IF c = "A" THEN 3 ELSE 4
Serves(c) ==
  Sound(c) /\ (stage \in Reading \/ (stage = "reset" /\ at > Emptying(c)))
InHand(c) == chan = c /\ stage \in {"bits", "release"}
Waiting(c) ==
  IF Serves(c) THEN (IF InHand(c) THEN <<latch[c]>> ELSE <<>>) \o mem[c] ELSE <<>>
Taken(c) == IF Serves(c) THEN got[c] ELSE <<>>

FifoA == INSTANCE AtomicFifo WITH
  serving <- Serves("A"), stored <- stored["A"], queue <- Waiting("A"), taken <- Taken("A")
FifoB == INSTANCE AtomicFifo WITH
  serving <- Serves("B"), stored <- stored["B"], queue <- Waiting("B"), taken <- Taken("B")

(* The reader implements the atomic queue for each chip, whatever the      *)
(* other one does.                                                         *)
ReadsAtomically == FifoA!Spec /\ FifoB!Spec

(* While the loop runs, and whatever is wrong with the other chip, the      *)
(* reader catches up with a sound chip: when the hardware pauses (as it     *)
(* does after MaxWords), the last word stored, and so by Successive every   *)
(* word before it, is returned.                                             *)
CatchesUp ==
  \A c \in Chan :
    (stage \in Reading /\ Sound(c) /\ mem[c] # <<>>)
      ~> (got[c] = Word(stored[c]) \/ stage \notin Reading)
=============================================================================
