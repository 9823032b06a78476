----------------------------- MODULE FreqWindow -----------------------------
(***************************************************************************)
(* The frequency of each phase: add_data1 and calc_freq1 of                *)
(* dataprocess.cpp, get_fft_freq of utils.cpp.                             *)
(*                                                                         *)
(* The capture thread stores one sample of each phase into a ring of N     *)
(* slots and advances m_count.  Once a second the Qt thread copies the     *)
(* ring of each phase in turn into tmp_data, oldest sample first: from     *)
(* slot m_count to the end, then the slots before m_count.  There is no    *)
(* lock.  Whether a build reads m_count once for a copy or anew in every   *)
(* expression is the compiler's choice, for nothing in the copy can change *)
(* it as far as the compiler knows.  Of the copy the FFT is taken, which   *)
(* here can give any power to any bin, and the largest bin is looked for.  *)
(*                                                                         *)
(* A sample is its number.  The zeros the ring starts with are numbered    *)
(* -N .. -1, in the order of their slots.                                  *)
(***************************************************************************)
EXTENDS Integers, FiniteSets

CONSTANTS
  N,          \* slots of a ring (2000)
  Phases,     \* the phases are 1 .. Phases (3)
  Once,       \* the build reads m_count once for a copy
  Bins,       \* what the FFT returns, N / 2 + 1 (1001)
  MaxSamples, \* bound: samples added
  MaxPower    \* bound: the power of a bin

ASSUME FreqWindowAssumption ==
  /\ N \in Nat \ {0} /\ Phases \in Nat \ {0}
  /\ Once \in BOOLEAN /\ MaxSamples \in Nat
  /\ Bins \in Nat /\ Bins > 2 /\ MaxPower \in Nat

Phase == 1 .. Phases
Slot == 0 .. N - 1
Unset == -N - 1    \* what an entry of tmp_data holds before it is assigned
Bin == 0 .. Bins - 1

VARIABLES
  ring,      \* m_data_ch1, m_data_ch2, m_data_ch3
  m_count,   \* the slot the next sample goes to, N for an instant
  added,     \* samples added: how often m_count has been advanced
  wpc,       \* add_data1: the phase stored next, Phases + 1, or "wrap"
  rpc,       \* where calc_freq1 is
  channel,   \* the phase it copies
  i,         \* its loop variable
  seen,      \* m_count as a build with Once has read it
  tmp,       \* tmp_data
  stray,     \* history: an index of the copy was out of range
  base,      \* history: added, when the copy began
  fresh,     \* history: samples the ring has got that base does not count
  power,     \* the square of each complex[i]
  bin, max, max_index   \* the search for the largest

writer == <<ring, m_count, added, wpc>>
reader == <<rpc, channel, i, seen, tmp, stray, base>>
search == <<power, bin, max, max_index>>
vars == <<writer, reader, fresh, search>>

Init ==
  /\ ring = [p \in Phase |-> [s \in Slot |-> s - N]]
  /\ m_count = 0 /\ added = 0 /\ wpc = 1
  /\ rpc = "wait" /\ channel = 1 /\ i = 0 /\ seen = 0
  /\ tmp = [s \in Slot |-> Unset]
  /\ stray = FALSE /\ base = 0 /\ fresh = 0
  /\ power = [b \in Bin |-> 0] /\ bin = 0 /\ max = -1 /\ max_index = 0

-----------------------------------------------------------------------------
(* add_data1, in the capture thread. *)

Store ==
  /\ wpc \in Phase
  /\ added < MaxSamples
  /\ ring' = [ring EXCEPT ![wpc][m_count] = added]
  /\ fresh' = IF wpc = channel THEN fresh + 1 ELSE fresh
  /\ wpc' = wpc + 1
  /\ UNCHANGED <<m_count, added, reader, search>>

(* Plausible mistakes: after the last slot comes slot 1; the wrap comes one *)
(* sample late.                                                            *)
AdvanceTooFar ==
  /\ wpc = Phases + 1
  /\ m_count' = IF m_count = N - 1 THEN 1 ELSE m_count + 1
  /\ added' = added + 1
  /\ wpc' = 0
  /\ UNCHANGED <<ring, reader, fresh, search>>

WrapLate ==
  /\ wpc = 0
  /\ m_count' = IF m_count > N THEN 0 ELSE m_count
  /\ wpc' = 1
  /\ UNCHANGED <<ring, added, reader, fresh, search>>

Advance ==
  /\ wpc = Phases + 1
  /\ m_count' = m_count + 1
  /\ added' = added + 1
  /\ wpc' = 0
  /\ UNCHANGED <<ring, reader, fresh, search>>

Wrap ==
  /\ wpc = 0
  /\ m_count' = IF m_count >= N THEN 0 ELSE m_count
  /\ wpc' = 1
  /\ UNCHANGED <<ring, added, reader, fresh, search>>

-----------------------------------------------------------------------------
(* calc_freq_func, calc_freq1 and get_fft_freq, in the Qt thread. *)

Count == IF Once THEN seen ELSE m_count

(* The samples of phase p already stored and not counted by added. *)
Ahead(p) == IF wpc \in Phase \cup {Phases + 1} /\ wpc > p THEN 1 ELSE 0

(* calc_freq1(p), its first look at m_count included. *)
Begin(p) ==
  /\ rpc' = "head"
  /\ channel' = p
  /\ i' = 0
  /\ seen' = m_count
  /\ tmp' = [s \in Slot |-> Unset]
  /\ base' = added
  /\ fresh' = Ahead(p)

Timeout ==
  /\ rpc = "wait"
  /\ Begin(1)
  /\ UNCHANGED <<writer, stray, search>>

(* One assignment of the copy, from slot s to entry t. *)
CopyEntry(t, s) ==
  /\ stray' = (stray \/ t \notin Slot \/ s \notin Slot)
  /\ tmp' = IF t \in Slot /\ s \in Slot
            THEN [tmp EXCEPT ![t] = ring[channel][s]] ELSE tmp
  /\ i' = i + 1

HeadTest ==
  /\ rpc = "head"
  /\ IF i < N - Count
     THEN rpc' = "copyHead" /\ UNCHANGED i
     ELSE rpc' = "tail" /\ i' = 0
  /\ UNCHANGED <<writer, channel, seen, tmp, stray, base, fresh, search>>

CopyHead ==
  /\ rpc = "copyHead"
  /\ CopyEntry(i, Count + i)
  /\ rpc' = "head"
  /\ UNCHANGED <<writer, channel, seen, base, fresh, search>>

TailTest ==
  /\ rpc = "tail"
  /\ rpc' = IF i < Count THEN "copyTail" ELSE "done"
  /\ UNCHANGED <<writer, channel, i, seen, tmp, stray, base, fresh, search>>

(* A plausible mistake: the second part of the copy starts an entry late.  *)
CopyTailLate ==
  /\ rpc = "copyTail"
  /\ CopyEntry(N - Count + i + 1, i)
  /\ rpc' = "tail"
  /\ UNCHANGED <<writer, channel, seen, base, fresh, search>>

CopyTail ==
  /\ rpc = "copyTail"
  /\ CopyEntry(N - Count + i, i)
  /\ rpc' = "tail"
  /\ UNCHANGED <<writer, channel, seen, base, fresh, search>>

(* fftw, of which nothing is assumed; tmp_data has served its purpose.     *)
Transform ==
  /\ rpc = "done"
  /\ power' \in [Bin -> 0 .. MaxPower]
  /\ bin' = 0 /\ max' = -1 /\ max_index' = 0
  /\ rpc' = "search"
  /\ i' = 0 /\ seen' = 0 /\ tmp' = [s \in Slot |-> Unset]
  /\ UNCHANGED <<writer, channel, stray, base, fresh>>

(* The search leaves out the last two bins. *)
Searched == 0 .. Bins - 3

(* A plausible mistake: the last of equal bins is taken. *)
CompareEqual ==
  /\ rpc = "search" /\ bin \in Searched
  /\ bin' = bin + 1
  /\ IF max <= power[bin]
     THEN max' = power[bin] /\ max_index' = bin
     ELSE UNCHANGED <<max, max_index>>
  /\ UNCHANGED <<writer, reader, fresh, power>>

Compare ==
  /\ rpc = "search" /\ bin \in Searched
  /\ bin' = bin + 1
  /\ IF max < power[bin]
     THEN max' = power[bin] /\ max_index' = bin
     ELSE UNCHANGED <<max, max_index>>
  /\ UNCHANGED <<writer, reader, fresh, power>>

(* The frequency is max_index times the sample rate over N; then comes the *)
(* next phase.                                                             *)
Report ==
  /\ rpc = "search" /\ bin \notin Searched
  /\ IF channel < Phases
     THEN Begin(channel + 1)
     ELSE /\ rpc' = "wait"
          /\ UNCHANGED <<channel, i, seen, tmp, base, fresh>>
  /\ power' = [b \in Bin |-> 0] /\ bin' = 0 /\ max' = -1 /\ max_index' = 0
  /\ UNCHANGED <<writer, stray>>

Next ==
  \/ Store \/ Advance \/ Wrap
  \/ Timeout \/ HeadTest \/ CopyHead \/ TailTest \/ CopyTail
  \/ Transform \/ Compare \/ Report

Spec == Init /\ [][Next]_vars

-----------------------------------------------------------------------------
(* Properties. *)

TypeOK ==
  /\ ring \in [Phase -> [Slot -> Int]]
  /\ added \in Nat /\ m_count \in 0 .. N
  /\ wpc \in 0 .. Phases + 1
  /\ wpc > 0 => m_count \in Slot
  /\ rpc \in {"wait", "head", "copyHead", "tail", "copyTail", "done",
             "search"}
  /\ channel \in Phase /\ i \in 0 .. N + 1 /\ seen \in 0 .. N
  /\ tmp \in [Slot -> Int]
  /\ stray \in BOOLEAN /\ base \in Nat /\ fresh \in Nat
  /\ power \in [Bin -> Nat] /\ bin \in 0 .. Bins - 2
  /\ max \in Int /\ max_index \in Searched

(* In a build that reads m_count once, the copy stays inside the ring and  *)
(* inside tmp_data even when it starts between the increment of m_count    *)
(* and its wrap.                                                           *)
InRange == Once => ~stray

(* In such a build the window that is measured is the last N samples in    *)
(* their order, but for the first `fresh' entries, which may already hold  *)
(* the samples stored while the copy ran (a whole turn of the ring newer). *)
(* In particular a copy during which nothing is stored is exact.           *)
LatestWindow ==
  Once /\ rpc = "done" =>
    \A t \in Slot :
      \/ tmp[t] = base - N + t
      \/ t < fresh /\ tmp[t] >= base + t /\ (tmp[t] - (base + t)) % N = 0

(* When a search ends, the bin it reports is the lowest of the largest     *)
(* bins, the mean of the signal (bin 0) competing with them, and the two   *)
(* highest bins never.                                                     *)
Largest ==
  rpc = "search" /\ bin \notin Searched =>
    \A b \in Searched :
      /\ power[b] <= power[max_index]
      /\ b < max_index => power[b] < power[max_index]

(* dataprocess.h:58 says of the class: safe for several threads.  So the   *)
(* window would be N consecutive samples, whenever the copy is made.       *)
Consecutive ==
  rpc = "done" => \A t \in Slot \ {0} : tmp[t] = tmp[t - 1] + 1
=============================================================================
