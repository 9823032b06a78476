------------------------------ MODULE Capture ------------------------------
(***************************************************************************)
(* The acquisition loop, cap_thread_handler of main.cpp.                   *)
(*                                                                         *)
(* Two external FIFO chips, A and B, receive frames of FrameLen 16-bit     *)
(* words; the first word of a frame is the head 0xA55A.  One iteration of  *)
(* the loop reads at most one word from A, then at most one word from B,   *)
(* into two deques; looks for a head at the front of each deque; when both *)
(* deques still hold FrameLen words, removes one frame from each and       *)
(* merges them; and, when it sees an empty chip, copies the position of    *)
(* the save switch into the send flags.                                    *)
(*                                                                         *)
(* A word is represented by its position in the stream its chip is fed     *)
(* with: word w belongs to frame w \div FrameLen.  The value of a word     *)
(* matters only through IsHead.                                            *)
(***************************************************************************)
EXTENDS Integers, Sequences

CONSTANTS
  FrameLen,   \* words in a frame on one channel (18 in the code)
  Depth,      \* words a FIFO chip can hold
  MaxSkew,    \* how far the writer of one chip may run ahead of the other
  Start,      \* Start[c]: first word chip c stores after fifo_init's reset
  Alias,      \* payload words whose value happens to be 0xA55A
  MaxWords,   \* bound: the streams end before this word
  Positions   \* positions the save switch is ever put in

Chan == {"A", "B"}
Other(c) == IF c = "A" THEN "B" ELSE "A"

ASSUME CaptureAssumption ==
  /\ FrameLen \in Nat \ {0}
  /\ Depth \in Nat \ {0}
  /\ MaxSkew \in Nat
  /\ Start \in [Chan -> Nat]
  /\ \A c \in Chan : Start[c] - Start[Other(c)] <= MaxSkew
  /\ Alias \subseteq Nat
  /\ MaxWords \in Nat
  /\ Positions \subseteq BOOLEAN

VARIABLES
  written,    \* written[c]: next word the hardware offers to chip c
  fifo,       \* fifo[c]: words stored in chip c
  buf,        \* bufA and bufB
  frame,      \* frame[c]: the words of channel c in the last Msg1.AD
  emitted,    \* frames handed to the queue, the TCP server and the CAN task
  switch,     \* the save switch, m_mcu_CMN[2] read as "save wanted"
  send,       \* what the last enable_send() of the loop was called with
  pc,         \* where the loop is
  round,      \* rounds done of "find head and delete front"
  lost,       \* history: a full chip refused a word
  dropped     \* history: a deque of 2 * FrameLen words shed its front

hw == <<written, fifo, lost>>
vars == <<written, fifo, buf, frame, emitted, switch, send, pc, round, lost,
          dropped>>

IsHead(w) == w % FrameLen = 0 \/ w \in Alias

Init ==
  /\ written = Start
  /\ fifo = [c \in Chan |-> <<>>]
  /\ buf = [c \in Chan |-> <<>>]
  /\ frame = [c \in Chan |-> <<>>]
  /\ emitted = 0
  /\ switch \in Positions
  /\ send = FALSE
  /\ pc = "readA"
  /\ round = 0
  /\ lost = FALSE
  /\ dropped = FALSE

-----------------------------------------------------------------------------
(* The hardware that fills the chips, and the operator's switch. *)

Offer(c) ==
  /\ written[c] < MaxWords
  /\ written[c] - written[Other(c)] < MaxSkew
  /\ written' = [written EXCEPT ![c] = @ + 1]

HwWrite(c) ==
  /\ Offer(c)
  /\ Len(fifo[c]) < Depth
  /\ fifo' = [fifo EXCEPT ![c] = Append(@, written[c])]
  /\ UNCHANGED <<buf, frame, emitted, switch, send, pc, round, lost, dropped>>

(* A full chip ignores the write; its full flag, m_fifo_ff_A2 or           *)
(* m_fifo_ff_B2, is never read by the program.                             *)
HwLose(c) ==
  /\ Offer(c)
  /\ Len(fifo[c]) = Depth
  /\ lost' = TRUE
  /\ UNCHANGED <<fifo, buf, frame, emitted, switch, send, pc, round, dropped>>

Toggle ==
  /\ switch' \in Positions \ {switch}
  /\ UNCHANGED <<hw, buf, frame, emitted, send, pc, round, dropped>>

-----------------------------------------------------------------------------
(* Plausible mistakes, each put in the place of the definition it varies.  *)

(* The deques are cut at one frame instead of two. *)
PushShort(s, w) ==
  IF Len(s) + 1 > FrameLen THEN Append(Tail(s), w) ELSE Append(s, w)

(* More than a frame must be there. *)
BothHaveMore == \A c \in Chan : Len(buf[c]) > FrameLen

(* The round counter is not started again. *)
GateNoReset ==
  /\ pc = "gate"
  /\ pc' = IF \A c \in Chan : Len(buf[c]) >= FrameLen THEN "find" ELSE "idle"
  /\ UNCHANGED <<hw, buf, frame, emitted, switch, send, round, dropped>>

(* Only A is searched for a head. *)
FindHeadOfA ==
  /\ pc = "find"
  /\ buf' = [buf EXCEPT !["A"] = IF IsHead(@[1]) THEN @ ELSE Tail(@)]
  /\ round' = round + 1
  /\ pc' = IF round' = FrameLen THEN "frame" ELSE "find"
  /\ UNCHANGED <<hw, frame, emitted, switch, send, dropped>>

(* EmitFrame, but the deques shed k words. *)
EmitShedding(k) ==
  /\ pc = "frame"
  /\ \A c \in Chan : Len(buf[c]) >= FrameLen
  /\ frame' = [c \in Chan |-> SubSeq(buf[c], 1, FrameLen)]
  /\ buf' = [c \in Chan |-> SubSeq(buf[c], k + 1, Len(buf[c]))]
  /\ emitted' = emitted + 1
  /\ pc' = "idle"
  /\ UNCHANGED <<hw, switch, send, round, dropped>>

EmitTooMuch == EmitShedding(FrameLen + 1)
EmitNothingShed == EmitShedding(0)

(* The empty flag is read the wrong way round. *)
IdleInverted ==
  /\ pc = "idle"
  /\ pc' = "readA"
  /\ send' = IF \E c \in Chan : fifo[c] # <<>> THEN switch ELSE send
  /\ UNCHANGED <<hw, buf, frame, emitted, switch, round, dropped>>

-----------------------------------------------------------------------------
(* The loop. *)

(* push_back, then pop_front when the deque has grown past 2 * FrameLen.   *)
Push(s, w) ==
  IF Len(s) + 1 > 2 * FrameLen THEN Append(Tail(s), w) ELSE Append(s, w)

(* get_fifo_X_value: no word when the empty flag says so.                  *)
Read(c, here, next) ==
  /\ pc = here
  /\ pc' = next
  /\ IF fifo[c] = <<>>
     THEN UNCHANGED <<fifo, buf, dropped>>
     ELSE /\ fifo' = [fifo EXCEPT ![c] = Tail(@)]
          /\ buf' = [buf EXCEPT ![c] = Push(@, Head(fifo[c]))]
          /\ dropped' = (dropped \/ Len(buf[c]) + 1 > 2 * FrameLen)
  /\ UNCHANGED <<written, frame, emitted, switch, send, round, lost>>

ReadA == Read("A", "readA", "readB")
ReadB == Read("B", "readB", "gate")

BothHave == \A c \in Chan : Len(buf[c]) >= FrameLen

(* A head is looked for only when both deques may hold a frame. *)
Gate ==
  /\ pc = "gate"
  /\ pc' = IF BothHave THEN "find" ELSE "idle"
  /\ round' = 0
  /\ UNCHANGED <<hw, buf, frame, emitted, switch, send, dropped>>

(* One of FrameLen rounds: each deque sheds its front unless it is a head. *)
FindHead ==
  /\ pc = "find"
  /\ buf' = [c \in Chan |-> IF IsHead(buf[c][1]) THEN buf[c] ELSE Tail(buf[c])]
  /\ round' = round + 1
  /\ pc' = IF round' = FrameLen THEN "frame" ELSE "find"
  /\ UNCHANGED <<hw, frame, emitted, switch, send, dropped>>

(* "one frame": the frame is merged into Msg1.AD and handed on. *)
EmitFrame ==
  /\ pc = "frame"
  /\ BothHave
  /\ frame' = [c \in Chan |-> SubSeq(buf[c], 1, FrameLen)]
  /\ buf' = [c \in Chan |-> SubSeq(buf[c], FrameLen + 1, Len(buf[c]))]
  /\ emitted' = emitted + 1
  /\ pc' = "idle"
  /\ UNCHANGED <<hw, switch, send, round, dropped>>

(* The search has left less than a frame in one of the deques. *)
NoFrame ==
  /\ pc = "frame"
  /\ ~BothHave
  /\ pc' = "idle"
  /\ UNCHANGED <<hw, buf, frame, emitted, switch, send, round, dropped>>

(* The send flags follow the switch only when a chip is seen empty. *)
Idle ==
  /\ pc = "idle"
  /\ pc' = "readA"
  /\ send' = IF \E c \in Chan : fifo[c] = <<>> THEN switch ELSE send
  /\ UNCHANGED <<hw, buf, frame, emitted, switch, round, dropped>>

Loop == ReadA \/ ReadB \/ Gate \/ FindHead \/ EmitFrame \/ NoFrame \/ Idle

Next ==
  \/ \E c \in Chan : HwWrite(c)
  \/ \E c \in Chan : HwLose(c)
  \/ Toggle
  \/ Loop

Spec == Init /\ [][Next]_vars

(* The loop never blocks and is always runnable. *)
FairSpec == Spec /\ WF_vars(Loop)

-----------------------------------------------------------------------------
(* Properties. *)

TypeOK ==
  /\ written \in [Chan -> Nat]
  /\ fifo \in [Chan -> Seq(Nat)]
  /\ buf \in [Chan -> Seq(Nat)]
  /\ frame \in [Chan -> Seq(Nat)]
  /\ emitted \in Nat
  /\ switch \in BOOLEAN
  /\ send \in BOOLEAN
  /\ pc \in {"readA", "readB", "gate", "find", "frame", "idle"}
  /\ round \in 0 .. FrameLen
  /\ lost \in BOOLEAN
  /\ dropped \in BOOLEAN
  /\ \A c \in Chan : Len(fifo[c]) <= Depth
  /\ \A c \in Chan : Len(buf[c]) <= 2 * FrameLen

(* s is one frame exactly as the hardware sent it: a head and the          *)
(* FrameLen - 1 words that followed it.                                    *)
Whole(s) ==
  /\ Len(s) = FrameLen
  /\ s[1] % FrameLen = 0
  /\ \A i \in 1 .. FrameLen : s[i] = s[1] + i - 1

(* As long as no chip has overflowed, each half of every merged frame is   *)
(* one whole hardware frame - however far apart the two writers run, even  *)
(* when a deque sheds words in mid-frame, and wherever in a frame the      *)
(* chips start - provided no payload word looks like a head.               *)
WholeFrame == ~lost /\ emitted > 0 => \A c \in Chan : Whole(frame[c])

(* When both chips start at the same head and their writers stay less than *)
(* a frame apart, the two halves of a merged frame are the same hardware   *)
(* frame, and no deque ever sheds a word: the loop needs no sequence       *)
(* numbers.  Payload words that look like heads do no harm.                *)
InStep ==
  ~lost => /\ ~dropped
           /\ emitted > 0 => frame["A"] = frame["B"] /\ Whole(frame["A"])

(* As long as nothing is lost or shed, consecutive merged frames are       *)
(* consecutive hardware frames on each channel: "find head" never throws   *)
(* away a frame, and a pairing once established never shifts.              *)
Gapless ==
  [][emitted' # emitted /\ emitted > 0 /\ ~lost /\ ~dropped
       => \A c \in Chan : frame'[c][1] = frame[c][1] + FrameLen]_vars

(* Whatever is lost, shed or mistaken for a head, the loop never hands on  *)
(* a word twice and never goes back: on each channel a merged frame is     *)
(* strictly ascending and lies after the one before it.                    *)
Forward ==
  [][emitted' # emitted
       => \A c \in Chan :
            /\ \A i \in 1 .. FrameLen - 1 : frame'[c][i] < frame'[c][i + 1]
            /\ emitted > 0 => frame[c][FrameLen] < frame'[c][1]]_vars

(* Once both writers have offered all of the first k frames, the loop hands *)
(* on k frames, unless a chip overflowed.                                   *)
FrameDelivered ==
  \A k \in 1 .. MaxWords \div FrameLen :
    (\A c \in Chan : written[c] >= Start[c] + k * FrameLen)
      ~> (emitted >= k \/ lost)

(* If the switch comes to rest and the loop keeps finding a chip empty, the *)
(* send flags come to rest at the position of the switch.                   *)
SwitchFollowed ==
  \A on \in BOOLEAN :
    (<>[](switch = on) /\ []<>(pc = "idle" /\ \E c \in Chan : fifo[c] = <<>>))
      => <>[](send = on)
=============================================================================
