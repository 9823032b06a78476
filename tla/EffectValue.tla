---------------------------- MODULE EffectValue ----------------------------
(***************************************************************************)
(* One effective value calculator: EffectValueCalculator, fed by the       *)
(* capture thread (add_data) and asked once a second by the CAN send       *)
(* thread (calc_effect_value).                                             *)
(*                                                                         *)
(* Both threads take m_mutex, but calc_effect_value looks at the deque     *)
(* twice without it: buf.empty() before, buf.size() after the sum.  A      *)
(* deque is two iterators, its ends; one that stays in its node changes in *)
(* one word, one that goes on to the next node in several.                 *)
(*                                                                         *)
(* A sample is its number, from 0; the deque holds those from `start' up   *)
(* to, not including, `finish'.                                            *)
(***************************************************************************)
EXTENDS Integers

CONSTANTS
  BUF_LEN,     \* samples kept (2000)
  Node,        \* samples in a node of the deque (256)
  MaxSamples   \* bound: samples added

ASSUME EffectValueAssumption ==
  /\ BUF_LEN \in Nat \ {0} /\ Node \in Nat \ {0} /\ MaxSamples \in Nat

VARIABLES
  start, finish,   \* the ends of buf
  m_mutex,         \* who holds it: "capture", "send" or "free"
  cpc,             \* add_data: "idle", "push", "grow", "trim", "shrink", "unlock"
  rpc,             \* calc_effect_value: "idle", "lock", "unlock", "size" or
                   \* "done"
  from, to,        \* the samples that were summed
  ends,            \* which ends size() has read
  divisor,         \* the size, once both are read
  torn             \* history: an end changed its node while size() was reading

deque == <<start, finish>>
writer == <<m_mutex, cpc>>
summed == <<from, to>>
reading == <<ends, divisor, torn>>
vars == <<deque, writer, rpc, summed, reading>>

Init ==
  /\ start = 0 /\ finish = 0
  /\ m_mutex = "free" /\ cpc = "idle" /\ rpc = "idle"
  /\ from = 0 /\ to = 0
  /\ ends = {} /\ divisor = 0 /\ torn = FALSE

-----------------------------------------------------------------------------
(* add_data, in the capture thread. *)

Lock ==
  /\ cpc = "idle" /\ finish < MaxSamples
  /\ m_mutex = "free"
  /\ m_mutex' = "capture"
  /\ cpc' = "push"
  /\ UNCHANGED <<deque, rpc, summed, reading>>

(* Does the end leave its node when it moves on by one? *)
Leaves(end) == (end + 1) % Node = 0

PushBack ==
  /\ cpc = "push" /\ ~Leaves(finish)
  /\ finish' = finish + 1
  /\ cpc' = "trim"
  /\ UNCHANGED <<start, m_mutex, rpc, summed, reading>>

(* To another node: the words of the iterator are stored one by one, until *)
(* GrowEnd or ShrinkEnd.                                                   *)
GrowBegin ==
  /\ cpc = "push" /\ Leaves(finish)
  /\ cpc' = "grow"
  /\ torn' = (torn \/ rpc = "size")
  /\ UNCHANGED <<deque, m_mutex, rpc, summed, ends, divisor>>

GrowEnd ==
  /\ cpc = "grow"
  /\ finish' = finish + 1
  /\ cpc' = "trim"
  /\ UNCHANGED <<start, m_mutex, rpc, summed, reading>>

(* A plausible mistake: one sample more is kept. *)
KeepOneMore ==
  /\ cpc = "trim"
  /\ finish - start <= BUF_LEN + 1
  /\ cpc' = "unlock"
  /\ UNCHANGED <<deque, m_mutex, rpc, summed, reading>>

Keep ==
  /\ cpc = "trim"
  /\ finish - start <= BUF_LEN
  /\ cpc' = "unlock"
  /\ UNCHANGED <<deque, m_mutex, rpc, summed, reading>>

PopFront ==
  /\ cpc = "trim" /\ finish - start > BUF_LEN /\ ~Leaves(start)
  /\ start' = start + 1
  /\ cpc' = "unlock"
  /\ UNCHANGED <<finish, m_mutex, rpc, summed, reading>>

ShrinkBegin ==
  /\ cpc = "trim" /\ finish - start > BUF_LEN /\ Leaves(start)
  /\ cpc' = "shrink"
  /\ torn' = (torn \/ rpc = "size")
  /\ UNCHANGED <<deque, m_mutex, rpc, summed, ends, divisor>>

ShrinkEnd ==
  /\ cpc = "shrink"
  /\ start' = start + 1
  /\ cpc' = "unlock"
  /\ UNCHANGED <<finish, m_mutex, rpc, summed, reading>>

Unlock ==
  /\ cpc = "unlock"
  /\ m_mutex' = "free"
  /\ cpc' = "idle"
  /\ UNCHANGED <<deque, rpc, summed, reading>>

-----------------------------------------------------------------------------
(* calc_effect_value, in the send thread. *)

(* buf.empty() compares two words, which are never torn. *)
Call ==
  /\ rpc \in {"idle", "done"}
  /\ rpc' = IF finish = start THEN "idle" ELSE "lock"
  /\ UNCHANGED <<deque, writer, summed, reading>>

(* A plausible mistake: the sum is made without the mutex. *)
SumUnlocked ==
  /\ rpc = "lock"
  /\ from' = start /\ to' = finish
  /\ rpc' = "size"
  /\ ends' = {} /\ divisor' = 0 /\ torn' = FALSE
  /\ UNCHANGED <<deque, writer>>

(* The sum of the squares, under the mutex. *)
Sum ==
  /\ rpc = "lock" /\ m_mutex = "free"
  /\ m_mutex' = "send"
  /\ from' = start /\ to' = finish
  /\ rpc' = "unlock"
  /\ UNCHANGED <<deque, cpc, reading>>

Release ==
  /\ rpc = "unlock"
  /\ m_mutex' = "free"
  /\ rpc' = "size"
  /\ ends' = {} /\ divisor' = 0 /\ torn' = FALSE
  /\ UNCHANGED <<deque, cpc, summed>>

(* One end is read; the compiler chooses which one first. *)
ReadEnd(end, sign, at) ==
  /\ rpc = "size" /\ end \notin ends
  /\ ends' = ends \cup {end}
  /\ divisor' = divisor + sign * at
  /\ rpc' = IF ends = {} THEN "size" ELSE "done"
  /\ UNCHANGED <<deque, writer, summed, torn>>

(* A plausible mistake: size() - 1, as if for the last index. *)
ReadBeforeFinish == ReadEnd("finish", 1, finish - 1)

ReadFinish == ReadEnd("finish", 1, finish)
ReadStart == ReadEnd("start", -1, start)

Next ==
  \/ Lock \/ PushBack \/ GrowBegin \/ GrowEnd
  \/ Keep \/ PopFront \/ ShrinkBegin \/ ShrinkEnd \/ Unlock
  \/ Call \/ Sum \/ Release \/ ReadFinish \/ ReadStart

Spec == Init /\ [][Next]_vars

-----------------------------------------------------------------------------
(* Properties. *)

TypeOK ==
  /\ start \in Nat /\ finish \in Nat
  /\ m_mutex \in {"free", "capture", "send"}
  /\ cpc \in {"idle", "push", "grow", "trim", "shrink", "unlock"}
  /\ rpc \in {"idle", "lock", "unlock", "size", "done"}
  /\ m_mutex = "capture" <=> cpc # "idle"
  /\ m_mutex = "send" <=> rpc = "unlock"
  /\ from \in Nat /\ to \in Nat
  /\ ends \subseteq {"start", "finish"} /\ divisor \in Int /\ torn \in BOOLEAN

(* What is summed is the newest BUF_LEN samples there were at one moment,  *)
(* or all of them: never the sample too many that add_data keeps for an    *)
(* instant, although the test for an empty deque comes before the lock.    *)
WindowSummed ==
  rpc \in {"unlock", "size", "done"} =>
    to > 0 /\ to - from = IF to < BUF_LEN THEN to ELSE BUF_LEN

(* The header says that the sum is divided by the number of values summed. *)
(* It is divided by a size read later, which differs from that number by   *)
(* no more than the samples that have been added in the meantime - in      *)
(* either direction, while the deque fills or when the thread is held up   *)
(* between the two ends.  Nothing can be said when an end was on its way   *)
(* to another node.                                                        *)
DivisorClose ==
  rpc = "done" /\ ~torn =>
    /\ divisor - (to - from) <= finish - to
    /\ (to - from) - divisor <= finish - to
=============================================================================
