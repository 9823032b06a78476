-------------------------- MODULE FreqWindowProofs --------------------------
(* Proofs about the frequency window and the search for the largest bin,   *)
(* for every size of the ring and of the FFT, and every number of phases.  *)
EXTENDS FreqWindow, TLAPS

Loops == rpc \in {"copyHead", "copyTail"} => i < N

TypeInv == TypeOK /\ Loops

(* A number of whole turns of the ring. *)
Turn(d) == d % N = 0

(* Slot s of a phase holds the newest sample that belongs there. *)
Holds(p, s) ==
  ring[p][s] = added - m_count + s
                 - IF s < m_count \/ (s = m_count /\ Ahead(p) = 1) THEN 0 ELSE N

(* Has phase p got a sample that is not counted yet? *)
RingInv ==
  /\ \A p \in Phase, s \in Slot : Holds(p, s)
  /\ base <= added
  /\ fresh = added - base + Ahead(channel)

(* How far the ring has turned since the copy began. *)
Drift == added - m_count - (base - seen)

Entry(t) ==
  \/ tmp[t] = base - N + t
  \/ t < fresh /\ tmp[t] >= base + t /\ Turn(tmp[t] - (base + t))

Copied ==
  CASE rpc \in {"head", "copyHead"} -> i
    [] rpc \in {"tail", "copyTail"} -> N - seen + i
    [] rpc = "done" -> N
    [] OTHER -> 0

CopyInv ==
  /\ ~stray
  /\ rpc = "head" => i <= N - seen
  /\ rpc = "copyHead" => i < N - seen
  /\ rpc = "tail" => i <= seen
  /\ rpc = "copyTail" => i < seen
  /\ rpc \in {"head", "copyHead", "tail", "copyTail"} => Turn(Drift) /\ Drift >= 0
  /\ \A t \in Slot : t < Copied => Entry(t)

WindowInv == TypeInv /\ RingInv /\ (Once => CopyInv)

(* The search has found the lowest of the largest bins so far. *)
SearchInv ==
  rpc = "search" =>
    /\ bin = 0 => max = -1 /\ max_index = 0
    /\ bin > 0 => max_index < bin /\ max = power[max_index]
    /\ \A b \in 0 .. bin - 1 :
         power[b] <= max /\ (b < max_index => power[b] < max)

-----------------------------------------------------------------------------
(* Types. *)

LEMMA TypeInit == Init => TypeInv
<1> SUFFICES ASSUME Init
             PROVE  TypeInv
  OBVIOUS
<1> USE FreqWindowAssumption
<1>1. ring \in [Phase -> [Slot -> Int]]
  BY DEF Init, Slot
<1>2. tmp \in [Slot -> Int]
  BY DEF Init, Unset, Slot
<1>3. power \in [Bin -> Nat] /\ bin \in 0 .. Bins - 2 /\ max \in Int
      /\ max_index \in Searched
  BY DEF Init, Searched
<1>4. stray \in BOOLEAN /\ rpc = "wait" /\ wpc = 1 /\ channel = 1
  BY DEF Init
<1>5. added = 0 /\ m_count = 0 /\ i = 0 /\ seen = 0 /\ base = 0 /\ fresh = 0
  BY DEF Init
<1>6. TypeOK
  BY <1>1, <1>2, <1>3, <1>4, <1>5 DEF TypeOK, Slot, Phase
<1> QED
  BY <1>4, <1>6 DEF TypeInv, Loops

LEMMA BlankType == [s \in Slot |-> Unset] \in [Slot -> Int]
BY FreqWindowAssumption DEF Unset

(* The types of each thread's variables. *)
WriterOK ==
  /\ ring \in [Phase -> [Slot -> Int]] /\ added \in Nat /\ m_count \in 0 .. N
  /\ wpc \in 0 .. Phases + 1 /\ (wpc > 0 => m_count \in Slot)
CopyOK ==
  /\ rpc \in {"wait", "head", "copyHead", "tail", "copyTail", "done", "search"}
  /\ channel \in Phase /\ i \in 0 .. N + 1 /\ seen \in 0 .. N
  /\ tmp \in [Slot -> Int] /\ stray \in BOOLEAN /\ base \in Nat
  /\ Loops
SearchOK ==
  /\ power \in [Bin -> Nat] /\ bin \in 0 .. Bins - 2
  /\ max \in Int /\ max_index \in Searched

LEMMA TypeParts == TypeInv <=> WriterOK /\ CopyOK /\ fresh \in Nat /\ SearchOK
BY DEF TypeInv, TypeOK, WriterOK, CopyOK, SearchOK

LEMMA TypePartsNext ==
  TypeInv' <=> WriterOK' /\ CopyOK' /\ fresh' \in Nat /\ SearchOK'
BY DEF TypeInv, TypeOK, WriterOK, CopyOK, SearchOK

LEMMA SameWriter == WriterOK /\ UNCHANGED writer => WriterOK'
BY DEF WriterOK, writer

LEMMA SameCopy == CopyOK /\ UNCHANGED reader => CopyOK'
BY DEF CopyOK, reader, Loops

LEMMA SameSearch == SearchOK /\ UNCHANGED search => SearchOK'
BY DEF SearchOK, search

(* Count is an index or N, since m_count is. *)
LEMMA CountType == WriterOK /\ CopyOK => Count \in 0 .. N
BY DEF WriterOK, CopyOK, Count

LEMMA WriterType ==
  ASSUME WriterOK, fresh \in Nat, Store \/ Advance \/ Wrap
  PROVE  WriterOK' /\ fresh' \in Nat /\ UNCHANGED <<reader, search>>
<1> USE FreqWindowAssumption
<1>1. CASE Store
  <2>1. /\ wpc \in Phase /\ ring' = [ring EXCEPT ![wpc][m_count] = added]
        /\ fresh' \in {fresh, fresh + 1} /\ wpc' = wpc + 1
        /\ UNCHANGED <<m_count, added>> /\ UNCHANGED <<reader, search>>
    BY <1>1 DEF Store
  <2>2. wpc > 0 /\ wpc' \in 0 .. Phases + 1
    BY <2>1 DEF Phase
  <2>3. m_count \in Slot /\ added \in Int /\ ring \in [Phase -> [Slot -> Int]]
    BY <2>2 DEF WriterOK
  <2>4. ring' = [ring EXCEPT ![wpc] = [ring[wpc] EXCEPT ![m_count] = added]]
    BY ONLY <2>1, <2>3
  <2>5. [ring[wpc] EXCEPT ![m_count] = added] \in [Slot -> Int]
    BY ONLY <2>1, <2>3
  <2>6. ring' \in [Phase -> [Slot -> Int]]
    BY ONLY <2>1, <2>3, <2>4, <2>5
  <2> QED
    BY <2>1, <2>2, <2>3, <2>6 DEF WriterOK
<1>2. CASE Advance
  <2>1. /\ wpc = Phases + 1 /\ m_count' = m_count + 1 /\ added' = added + 1 /\ wpc' = 0
        /\ UNCHANGED <<ring, fresh>> /\ UNCHANGED <<reader, search>>
    BY <1>2 DEF Advance
  <2>2. m_count \in Slot
    BY <2>1 DEF WriterOK
  <2> QED
    BY <2>1, <2>2 DEF WriterOK, Slot
<1>3. CASE Wrap
  <2>1. /\ m_count' = (IF m_count >= N THEN 0 ELSE m_count) /\ wpc' = 1
        /\ UNCHANGED <<ring, added, fresh>> /\ UNCHANGED <<reader, search>>
    BY <1>3 DEF Wrap
  <2> QED
    BY <2>1 DEF WriterOK, Slot
<1> QED
  BY <1>1, <1>2, <1>3

LEMMA BeginType ==
  ASSUME WriterOK, stray \in BOOLEAN, stray' = stray, NEW p \in Phase, Begin(p)
  PROVE  CopyOK' /\ fresh' \in Nat
<1> USE FreqWindowAssumption
<1>1. /\ rpc' = "head" /\ channel' = p /\ i' = 0 /\ seen' = m_count
      /\ tmp' = [s \in Slot |-> Unset] /\ base' = added /\ fresh' \in {0, 1}
  BY DEF Begin, Ahead
<1>2. tmp' \in [Slot -> Int]
  BY <1>1, BlankType
<1>3. i' \in 0 .. N + 1 /\ seen' \in 0 .. N /\ base' \in Nat /\ fresh' \in Nat
  BY <1>1 DEF WriterOK
<1> QED
  BY <1>1, <1>2, <1>3 DEF CopyOK, Loops

(* The copy keeps to its array, and its variable to N. *)
LEMMA CopyType ==
  ASSUME WriterOK, CopyOK, HeadTest \/ CopyHead \/ TailTest \/ CopyTail
  PROVE  CopyOK' /\ UNCHANGED <<writer, fresh, search>>
<1> USE FreqWindowAssumption
<1>1. Count \in 0 .. N /\ i \in 0 .. N + 1
  BY CountType DEF CopyOK
<1>2. CASE HeadTest \/ TailTest
  <2>1. /\ \/ rpc' = "copyHead" /\ i < N - Count /\ i' = i
           \/ rpc' = "copyTail" /\ i < Count /\ i' = i
           \/ rpc' = "tail" /\ i' = 0
           \/ rpc' = "done" /\ i' = i
        /\ UNCHANGED <<channel, seen, tmp, stray, base>>
        /\ UNCHANGED <<writer, fresh, search>>
    BY <1>2 DEF HeadTest, TailTest
  <2>2. i' \in 0 .. N + 1 /\ (rpc' \in {"copyHead", "copyTail"} => i' < N)
    BY <1>1, <2>1
  <2> QED
    BY <2>1, <2>2 DEF CopyOK, Loops
<1>3. CASE CopyHead \/ CopyTail
  <2>1. /\ rpc \in {"copyHead", "copyTail"} /\ rpc' \in {"head", "tail"} /\ i' = i + 1
        /\ UNCHANGED <<channel, seen, base>> /\ UNCHANGED <<writer, fresh, search>>
    BY <1>3 DEF CopyHead, CopyTail, CopyEntry
  <2>2. PICK t, s : CopyEntry(t, s)
    BY <1>3 DEF CopyHead, CopyTail
  <2>3. stray' \in BOOLEAN
    BY <2>2, Zenon DEF CopyEntry, CopyOK
  <2>4. tmp' \in [Slot -> Int]
    <3>1. tmp \in [Slot -> Int] /\ ring \in [Phase -> [Slot -> Int]] /\ channel \in Phase
      BY DEF CopyOK, WriterOK
    <3>2. tmp' = IF t \in Slot /\ s \in Slot
                 THEN [tmp EXCEPT ![t] = ring[channel][s]] ELSE tmp
      BY <2>2 DEF CopyEntry
    <3> QED
      BY ONLY <3>1, <3>2
  <2>5. i' \in 0 .. N + 1
    BY <1>1, <2>1 DEF CopyOK, Loops
  <2> QED
    BY <2>1, <2>3, <2>4, <2>5 DEF CopyOK, Loops
<1> QED
  BY <1>2, <1>3

(* The search starts afresh, or goes on to the next bin. *)
LEMMA SearchStarts ==
  ASSUME power' \in [Bin -> Nat], bin' = 0, max' = -1, max_index' = 0
  PROVE  SearchOK'
<1>1. bin' \in 0 .. Bins - 2 /\ max' \in Int /\ max_index' \in Searched
  BY FreqWindowAssumption DEF Searched
<1> QED
  BY <1>1 DEF SearchOK

LEMMA CompareType ==
  ASSUME SearchOK, Compare
  PROVE  SearchOK' /\ UNCHANGED <<writer, reader, fresh>>
<1> USE FreqWindowAssumption
<1>1. /\ bin \in Searched /\ bin' = bin + 1 /\ power' = power
      /\ \/ max' = power[bin] /\ max_index' = bin
         \/ max' = max /\ max_index' = max_index
      /\ UNCHANGED <<writer, reader, fresh>>
  BY DEF Compare
<1>2. bin \in Bin /\ bin' \in 0 .. Bins - 2
  BY <1>1 DEF Searched, Bin
<1>3. max' \in Int /\ max_index' \in Searched
  BY <1>1, <1>2 DEF SearchOK
<1> QED
  BY <1>1, <1>2, <1>3 DEF SearchOK

LEMMA TypeNext == TypeInv /\ [Next]_vars => TypeInv'
<1> SUFFICES ASSUME TypeInv, [Next]_vars
             PROVE  TypeInv'
  OBVIOUS
<1> USE FreqWindowAssumption
<1>1. WriterOK /\ CopyOK /\ fresh \in Nat /\ SearchOK
  BY TypeParts
<1>2. CASE Store \/ Advance \/ Wrap
  BY <1>1, <1>2, WriterType, SameCopy, SameSearch, TypePartsNext
<1>3. CASE Timeout
  <2>1. Begin(1) /\ 1 \in Phase /\ stray' = stray
        /\ UNCHANGED <<writer, search>>
    BY <1>3 DEF Timeout, Phase
  <2>2. stray \in BOOLEAN
    BY <1>1 DEF CopyOK
  <2>3. CopyOK' /\ fresh' \in Nat
    BY <1>1, <2>1, <2>2, BeginType
  <2> QED
    BY <1>1, <2>1, <2>3, SameWriter, SameSearch, TypePartsNext
<1>4. CASE HeadTest \/ CopyHead \/ TailTest \/ CopyTail
  <2>1. CopyOK' /\ UNCHANGED <<writer, fresh, search>>
    BY <1>1, <1>4, CopyType
  <2> QED
    BY <1>1, <2>1, SameWriter, SameSearch, TypePartsNext
<1>5. CASE Transform
  <2>1. /\ power' \in [Bin -> 0 .. MaxPower] /\ bin' = 0 /\ max' = -1 /\ max_index' = 0
        /\ rpc' = "search" /\ i' = 0 /\ seen' = 0 /\ tmp' = [s \in Slot |-> Unset]
        /\ UNCHANGED <<channel, stray, base, fresh>> /\ UNCHANGED writer
    BY <1>5 DEF Transform
  <2>2. power' \in [Bin -> Nat]
    <3>1. 0 .. MaxPower \subseteq Nat
      OBVIOUS
    <3> QED
      BY <2>1, <3>1
  <2>3. tmp' \in [Slot -> Int] /\ i' \in 0 .. N + 1 /\ seen' \in 0 .. N
    BY <2>1, BlankType
  <2>4. CopyOK'
    BY <1>1, <2>1, <2>3 DEF CopyOK, Loops
  <2> QED
    BY <1>1, <2>1, <2>2, <2>4, SearchStarts, SameWriter, TypePartsNext
<1>6. CASE Compare
  <2>1. SearchOK' /\ UNCHANGED <<writer, reader, fresh>>
    BY <1>1, <1>6, CompareType
  <2> QED
    BY <1>1, <2>1, SameWriter, SameCopy, TypePartsNext
<1>7. CASE Report
  <2>1. /\ power' = [b \in Bin |-> 0] /\ bin' = 0 /\ max' = -1 /\ max_index' = 0
        /\ UNCHANGED writer /\ stray' = stray
    BY <1>7 DEF Report
  <2>2. SearchOK'
    BY <2>1, SearchStarts
  <2>3. CASE channel < Phases
    <3>1. Begin(channel + 1)
      BY <1>7, <2>3 DEF Report
    <3>2. channel + 1 \in Phase /\ stray \in BOOLEAN
      BY <1>1, <2>3 DEF CopyOK, Phase
    <3>3. CopyOK' /\ fresh' \in Nat
      BY <1>1, <2>1, <3>1, <3>2, BeginType
    <3> QED
      BY <1>1, <2>1, <2>2, <3>3, SameWriter, TypePartsNext
  <2>4. CASE ~(channel < Phases)
    <3>1. rpc' = "wait" /\ UNCHANGED <<channel, i, seen, tmp, base, fresh>>
      BY <1>7, <2>4 DEF Report
    <3>2. CopyOK'
      BY <1>1, <2>1, <3>1 DEF CopyOK, Loops
    <3> QED
      BY <1>1, <2>1, <2>2, <3>1, <3>2, SameWriter, TypePartsNext
  <2> QED
    BY <2>3, <2>4
<1>8. CASE UNCHANGED vars
  <2>1. UNCHANGED writer /\ UNCHANGED reader /\ UNCHANGED search /\ fresh' = fresh
    BY <1>8 DEF vars
  <2> QED
    BY <1>1, <2>1, SameWriter, SameCopy, SameSearch, TypePartsNext
<1> QED
  BY <1>2, <1>3, <1>4, <1>5, <1>6, <1>7, <1>8 DEF Next

LEMMA TypeInvariant == Spec => []TypeInv
<1>1. Init => TypeInv
  BY TypeInit
<1>2. TypeInv /\ [Next]_vars => TypeInv'
  BY TypeNext
<1> QED
  BY <1>1, <1>2, PTL DEF Spec

(* The types of the rings, of the copy, which leaves its array in no build *)
(* without being noticed, and of the search.                               *)
THEOREM TypeCorrect == Spec => []TypeOK
<1>1. TypeInv => TypeOK
  BY DEF TypeInv
<1> QED
  BY <1>1, TypeInvariant, PTL

-----------------------------------------------------------------------------
(* The search. *)

LEMMA SearchNext == TypeInv /\ SearchInv /\ [Next]_vars => SearchInv'
<1> SUFFICES ASSUME TypeInv, SearchInv, [Next]_vars
             PROVE  SearchInv'
  OBVIOUS
<1> USE FreqWindowAssumption DEF SearchInv, writer, reader, search
<1>1. CASE Store \/ Advance \/ Wrap
  BY <1>1 DEF Store, Advance, Wrap
<1>2. CASE Timeout
  BY <1>2 DEF Timeout, Begin
<1>3. CASE HeadTest \/ CopyHead \/ TailTest \/ CopyTail
  BY <1>3 DEF HeadTest, CopyHead, TailTest, CopyTail
<1>4. CASE Transform
  BY <1>4 DEF Transform
<1>5. CASE Compare
  <2>1. /\ bin \in Nat /\ bin \in Bin /\ power \in [Bin -> Nat] /\ max \in Int
        /\ max_index \in Nat /\ max_index \in Bin
        /\ \A b \in 0 .. bin - 1 : b \in Bin
    BY <1>5 DEF TypeInv, TypeOK, Compare, Searched, Bin
  <2>2. /\ rpc = "search" /\ bin' = bin + 1 /\ power' = power /\ rpc' = rpc
    BY <1>5 DEF Compare
  <2>3. CASE max < power[bin]
    <3>1. max' = power[bin] /\ max_index' = bin
      BY <1>5, <2>3 DEF Compare
    <3>2. \A b \in 0 .. bin - 1 : power[b] \in Nat /\ power[b] < power[bin]
      BY <2>1, <2>2, <2>3
    <3>3. power[bin] \in Nat /\ \A b \in 0 .. bin' - 1 : b = bin \/ b \in 0 .. bin - 1
      BY <2>1, <2>2
    <3>4. \A b \in 0 .. bin' - 1 :
            power'[b] <= max' /\ (b < max_index' => power'[b] < max')
      BY <2>1, <2>2, <3>1, <3>2, <3>3
    <3> QED
      BY <2>1, <2>2, <3>1, <3>4
  <2>4. CASE ~(max < power[bin])
    <3>1. max' = max /\ max_index' = max_index
      BY <1>5, <2>4 DEF Compare
    <3>2. bin > 0
      BY <2>1, <2>2, <2>4
    <3>3. power[bin] \in Nat /\ power[bin] <= max
      BY <2>1, <2>4
    <3>4. \A b \in 0 .. bin' - 1 : b = bin \/ b \in 0 .. bin - 1
      BY <2>1, <2>2
    <3>5. \A b \in 0 .. bin' - 1 :
            power'[b] <= max' /\ (b < max_index' => power'[b] < max')
      BY <2>1, <2>2, <3>1, <3>2, <3>3, <3>4
    <3> QED
      BY <2>1, <2>2, <3>1, <3>2, <3>5
  <2> QED
    BY <2>3, <2>4
<1>6. CASE Report
  BY <1>6 DEF Report, Begin
<1>7. CASE UNCHANGED vars
  BY <1>7 DEF vars
<1> QED
  BY <1>1, <1>2, <1>3, <1>4, <1>5, <1>6, <1>7 DEF Next

(* The bin that get_fft_freq reports is the lowest of the largest ones of  *)
(* those it looks at, whatever the FFT returns.                            *)
THEOREM FindsLargest == Spec => []Largest
<1>1. Init => SearchInv
  BY DEF Init, SearchInv
<1>2. TypeInv /\ SearchInv => Largest
  <2> SUFFICES ASSUME TypeInv, SearchInv, rpc = "search", bin \notin Searched,
                      NEW b \in Searched
               PROVE  /\ power[b] <= power[max_index]
                      /\ b < max_index => power[b] < power[max_index]
    BY DEF Largest
  <2>1. bin = Bins - 2 /\ bin > 0 /\ b \in 0 .. bin - 1
    BY FreqWindowAssumption DEF TypeInv, TypeOK, Searched
  <2> QED
    BY <2>1 DEF SearchInv
<1> QED
  BY <1>1, <1>2, SearchNext, TypeInvariant, PTL DEF Spec

-----------------------------------------------------------------------------
(* The window. *)

LEMMA TurnStep ==
  ASSUME NEW d \in Int, Turn(d)
  PROVE  Turn(d + N) /\ Turn(d - N)
<1> USE FreqWindowAssumption
<1> DEFINE q == d \div N
<1>1. q \in Int /\ d = N * q + (d % N)
  OBVIOUS
<1>2. d = N * q
  BY <1>1 DEF Turn
<1> HIDE DEF q
<1>3. d + N = N * (q + 1) /\ d - N = N * (q - 1)
  BY <1>1, <1>2
<1>4. \A k \in Int : (N * k) % N = 0
  OBVIOUS
<1>5. (N * (q + 1)) % N = 0 /\ (N * (q - 1)) % N = 0
  BY <1>1, <1>4
<1> QED
  BY <1>3, <1>5 DEF Turn

LEMMA TurnSmall ==
  ASSUME NEW d \in Int, Turn(d), d > 0
  PROVE  d >= N
<1>1. CASE d < N
  <2>1. d % N = d
    BY <1>1, FreqWindowAssumption
  <2> QED
    BY <2>1 DEF Turn
<1> QED
  BY <1>1, FreqWindowAssumption

(* The slot that entry t is taken from: a is added, b is base, m is        *)
(* m_count, z is seen, h is 1 when the phase is ahead, f is fresh, and v   *)
(* is the sample in slot s.                                                *)
Fits(a, b, m, z, h, t, s, f, v) ==
  /\ a \in Nat /\ b \in Nat /\ b <= a
  /\ m \in 0 .. N /\ z \in 0 .. N /\ h \in {0, 1}
  /\ t \in Slot /\ s \in Slot /\ (s = z + t \/ s = z + t - N)
  /\ Turn(a - m - (b - z)) /\ a - m - (b - z) >= 0
  /\ f = a - b + h
  /\ v = a - m + s - IF s < m \/ (s = m /\ h = 1) THEN 0 ELSE N

(* It holds the sample that belongs there, or one from a later turn, and   *)
(* then there are enough fresh ones.                                       *)
Right(b, t, f, v) ==
  v = b - N + t \/ (t < f /\ v >= b + t /\ Turn(v - (b + t)))

LEMMA SlotValue ==
  ASSUME NEW a, NEW b, NEW m, NEW z, NEW h, NEW t, NEW s, NEW f, NEW v,
         Fits(a, b, m, z, h, t, s, f, v)
  PROVE  Right(b, t, f, v)
<1> USE FreqWindowAssumption DEF Slot, Fits, Right
<1> DEFINE D == a - m - (b - z)
<1>1. D \in Int /\ D >= 0 /\ Turn(D) /\ a = D + m + b - z
  OBVIOUS
<1> HIDE DEF D
<1>2. D = 0 \/ (D >= N /\ Turn(D - N))
  BY <1>1, TurnSmall, TurnStep
<1>3. D <= N \/ (D - N >= N /\ Turn(D - N - N))
  <2>1. ASSUME D > N
        PROVE  D - N >= N /\ Turn(D - N - N)
    <3>1. D - N \in Int /\ D - N > 0 /\ Turn(D - N)
      BY <1>1, <1>2, <2>1
    <3> QED
      BY <3>1, TurnSmall, TurnStep
  <2> QED
    BY <1>1, <2>1
<1>4. f = D + m - z + h
  BY <1>1
<1> DEFINE early == s < m \/ (s = m /\ h = 1)
<1>5. CASE s = z + t /\ early
  <2>1. v - (b + t) = D /\ v >= b + t /\ t < f
    BY <1>1, <1>4, <1>5
  <2> QED
    BY <1>1, <2>1
<1>6. CASE s = z + t /\ ~early
  <2>1. v = b + t + D - N
    BY <1>1, <1>6
  <2>2. CASE D = 0
    BY <2>1, <2>2
  <2>3. CASE D >= N /\ Turn(D - N)
    <3>1. v - (b + t) = D - N /\ v >= b + t
      BY <1>1, <2>1, <2>3
    <3>2. t < f
      BY <1>1, <1>4, <1>6, <2>3
    <3> QED
      BY <2>3, <3>1, <3>2
  <2> QED
    BY <1>2, <2>2, <2>3
<1>7. CASE s = z + t - N /\ early
  <2>1. v = b + t + D - N
    BY <1>1, <1>7
  <2>2. CASE D = 0
    BY <2>1, <2>2
  <2>3. CASE D >= N /\ Turn(D - N)
    <3>1. v - (b + t) = D - N /\ v >= b + t
      BY <1>1, <2>1, <2>3
    <3>2. t < f
      BY <1>1, <1>4, <1>7, <2>3
    <3> QED
      BY <2>3, <3>1, <3>2
  <2> QED
    BY <1>2, <2>2, <2>3
<1>8. CASE s = z + t - N /\ ~early
  <2>1. v = b + t + D - N - N
    BY <1>1, <1>8
  <2>2. D # 0
    BY <1>1, <1>8
  <2>3. CASE D = N
    BY <2>1, <2>3
  <2>4. CASE D - N >= N /\ Turn(D - N - N)
    <3>1. v - (b + t) = D - N - N /\ v >= b + t
      BY <1>1, <2>1, <2>4
    <3>2. t < f
      BY <1>1, <1>4, <1>8, <2>4
    <3> QED
      BY <2>4, <3>1, <3>2
  <2> QED
    BY <1>1, <1>2, <1>3, <2>2, <2>3, <2>4
<1> QED
  BY <1>5, <1>6, <1>7, <1>8

LEMMA AheadValue ==
  ASSUME TypeOK, NEW p \in Phase
  PROVE  Ahead(p) = IF wpc > p THEN 1 ELSE 0
BY FreqWindowAssumption DEF TypeOK, Phase, Ahead

(* The writer keeps every slot the newest of its kind, and counts. *)
LEMMA StoreKeepsRing == TypeInv /\ RingInv /\ Store => RingInv'
<1> SUFFICES ASSUME TypeInv, RingInv, Store
             PROVE  RingInv'
  OBVIOUS
<1> USE FreqWindowAssumption
<1>1. TypeOK /\ TypeOK'
  <2>1. TypeInv'
    BY TypeNext DEF Next
  <2> QED
    BY <2>1 DEF TypeInv
<1>2. /\ wpc \in Phase /\ wpc' = wpc + 1 /\ m_count \in Slot
      /\ ring' = [ring EXCEPT ![wpc][m_count] = added]
      /\ fresh' = IF wpc = channel THEN fresh + 1 ELSE fresh
      /\ UNCHANGED <<m_count, added, base, channel>>
  BY <1>1 DEF Store, reader, TypeOK, Phase
<1>3. /\ ring \in [Phase -> [Slot -> Int]] /\ m_count \in Int /\ added \in Int
      /\ wpc \in Int /\ channel \in Phase
  <2>1. ring \in [Phase -> [Slot -> Int]] /\ channel \in Phase /\ added \in Int
    BY <1>1 DEF TypeOK
  <2>2. m_count \in Int /\ wpc \in Int
    BY <1>1 DEF TypeOK
  <2> QED
    BY <2>1, <2>2
<1>4. \A p \in Phase : /\ Ahead(p) = (IF wpc > p THEN 1 ELSE 0)
                      /\ Ahead(p)' = (IF wpc + 1 > p THEN 1 ELSE 0)
  <2>1. \A p \in Phase : Ahead(p) = (IF wpc > p THEN 1 ELSE 0)
    BY <1>1, AheadValue
  <2>2. \A p \in Phase : Ahead(p)' = (IF wpc' > p THEN 1 ELSE 0)
    BY <1>1, <1>2, FreqWindowAssumption DEF TypeOK, Phase, Ahead
  <2> QED
    BY <1>2, <2>1, <2>2
<1>5. ASSUME NEW p \in Phase, NEW s \in Slot
      PROVE  Holds(p, s)'
  <2>1. p \in Int /\ s \in Int
    BY DEF Phase, Slot
  <2>2. ring[p][s] = added - m_count + s
                       - IF s < m_count \/ (s = m_count /\ Ahead(p) = 1) THEN 0 ELSE N
    BY DEF RingInv, Holds
  <2>3. CASE p = wpc /\ s = m_count
    <3>1. ring'[p][s] = added /\ Ahead(p)' = 1
      BY <1>2, <1>3, <1>4, <2>1, <2>3
    <3> QED
      BY <1>2, <1>3, <2>1, <2>3, <3>1 DEF Holds
  <2>4. CASE p = wpc /\ s # m_count
    <3>1. ring'[p][s] = ring[p][s]
      BY <1>2, <1>3, <2>4
    <3> QED
      BY <1>2, <1>3, <2>1, <2>2, <2>4, <3>1 DEF Holds
  <2>5. CASE p # wpc
    <3>1. ring'[p][s] = ring[p][s]
      BY <1>2, <1>3, <2>5
    <3>2. Ahead(p)' = Ahead(p)
      BY <1>3, <1>4, <2>1, <2>5
    <3> QED
      BY <1>2, <2>2, <3>1, <3>2 DEF Holds
  <2> QED
    BY <2>3, <2>4, <2>5
<1>6. fresh' = added' - base' + Ahead(channel)'
  <2>1. fresh = added - base + Ahead(channel) /\ base \in Int /\ channel \in Int
    BY <1>1, <1>3 DEF RingInv, TypeOK, Phase
  <2>2. Ahead(channel)' = IF wpc + 1 > channel THEN 1 ELSE 0
    BY <1>2, <1>3, <1>4 DEF Ahead
  <2>3. Ahead(channel) = IF wpc > channel THEN 1 ELSE 0
    BY <1>3, <1>4
  <2> QED
    BY <1>2, <1>3, <2>1, <2>2, <2>3
<1> QED
  BY <1>2, <1>5, <1>6 DEF RingInv

LEMMA AdvanceKeepsRing == TypeInv /\ RingInv /\ (Advance \/ Wrap) => RingInv'
<1> SUFFICES ASSUME TypeInv, RingInv, Advance \/ Wrap
             PROVE  RingInv'
  OBVIOUS
<1> USE FreqWindowAssumption
<1>1. /\ m_count \in 0 .. N /\ added \in Nat /\ base \in Nat /\ channel \in Phase
      /\ \A p \in Phase : Ahead(p) = (IF wpc > p THEN 1 ELSE 0)
  <2>1. TypeOK
    BY DEF TypeInv
  <2> QED
    BY <2>1, AheadValue DEF TypeOK
<1>2. ring' = ring /\ base' = base /\ channel' = channel /\ fresh' = fresh
  BY DEF Advance, Wrap, reader
<1>3. CASE Advance
  <2>1. wpc = Phases + 1 /\ wpc' = 0 /\ m_count' = m_count + 1 /\ added' = added + 1
    BY <1>3 DEF Advance
  <2>2. \A p \in Phase : Ahead(p) = 1 /\ Ahead(p)' = 0
    BY <1>1, <2>1 DEF Phase, Ahead
  <2>3. ASSUME NEW p \in Phase, NEW s \in Slot
        PROVE  Holds(p, s)'
    <3>1. ring[p][s] = added - m_count + s
                         - IF s < m_count \/ (s = m_count /\ Ahead(p) = 1) THEN 0 ELSE N
      BY DEF RingInv, Holds
    <3>2. s \in Int /\ Ahead(p) = 1 /\ Ahead(p)' = 0
      BY <2>2 DEF Slot
    <3> QED
      BY <1>1, <1>2, <2>1, <3>1, <3>2 DEF Holds
  <2>4. fresh = added - base + 1
    BY <1>1, <2>2 DEF RingInv
  <2>5. Ahead(channel)' = 0
    BY <1>1, <1>2, <2>1 DEF Ahead, Phase
  <2> QED
    BY <1>1, <1>2, <2>1, <2>3, <2>4, <2>5 DEF RingInv
<1>4. CASE Wrap
  <2>1. /\ wpc = 0 /\ wpc' = 1 /\ added' = added
        /\ m_count' = IF m_count >= N THEN 0 ELSE m_count
    BY <1>4 DEF Wrap
  <2>2. \A p \in Phase : Ahead(p) = 0 /\ Ahead(p)' = 0
    BY <1>1, <2>1 DEF Phase, Ahead
  <2>3. ASSUME NEW p \in Phase, NEW s \in Slot
        PROVE  Holds(p, s)'
    <3>1. ring[p][s] = added - m_count + s
                         - IF s < m_count \/ (s = m_count /\ Ahead(p) = 1) THEN 0 ELSE N
      BY DEF RingInv, Holds
    <3>2. s \in 0 .. N - 1 /\ Ahead(p) = 0 /\ Ahead(p)' = 0
      BY <2>2 DEF Slot
    <3> QED
      BY <1>1, <1>2, <2>1, <3>1, <3>2 DEF Holds
  <2>4. fresh = added - base + 0
    BY <1>1, <2>2 DEF RingInv
  <2>5. Ahead(channel)' = 0
    BY <1>1, <1>2, <2>1 DEF Ahead, Phase
  <2> QED
    BY <1>1, <1>2, <2>1, <2>3, <2>4, <2>5 DEF RingInv
<1> QED
  BY <1>3, <1>4

(* A copy begins with the ring as it is. *)
LEMMA BeginFacts ==
  ASSUME TypeInv, RingInv, NEW p \in Phase, Begin(p), UNCHANGED writer
  PROVE  RingInv' /\ (~stray' => CopyInv')
<1> USE FreqWindowAssumption
<1>1. /\ m_count \in 0 .. N /\ added \in Nat
      /\ UNCHANGED <<ring, m_count, added, wpc>>
      /\ rpc' = "head" /\ channel' = p /\ i' = 0 /\ seen' = m_count
      /\ base' = added /\ fresh' = Ahead(p)
  BY DEF TypeInv, TypeOK, Begin, writer
<1>2. Ahead(p) \in {0, 1} /\ Ahead(channel)' = Ahead(p)
  BY <1>1 DEF Ahead
<1>3. ASSUME NEW q \in Phase, NEW s \in Slot
      PROVE  Holds(q, s)'
  BY <1>1 DEF RingInv, Holds, Ahead
<1>4. RingInv'
  BY <1>1, <1>2, <1>3 DEF RingInv
<1>5. Drift' = 0 /\ Copied' = 0
  BY <1>1 DEF Drift, Copied
<1>6. Turn(0)
  BY DEF Turn
<1>7. Turn(Drift)'
  BY <1>5, <1>6 DEF Turn
<1>8. \A t \in Slot : ~(t < Copied')
  BY <1>5 DEF Slot
<1> QED
  BY <1>1, <1>4, <1>5, <1>7, <1>8 DEF CopyInv

(* Copying slot s to entry t is right when t is the next entry and s the   *)
(* slot that belongs to it.                                                *)
LEMMA EntryCopied ==
  ASSUME TypeInv, RingInv, Turn(Drift), Drift >= 0,
         NEW t \in Slot, NEW s \in Slot, s = seen + t \/ s = seen + t - N,
         CopyEntry(t, s), base' = base, fresh' = fresh
  PROVE  /\ stray' = stray
         /\ Entry(t)'
         /\ \A u \in Slot : Entry(u) => Entry(u)'
<1> USE FreqWindowAssumption
<1>1. /\ added \in Nat /\ base \in Nat /\ base <= added /\ m_count \in 0 .. N
      /\ seen \in 0 .. N /\ channel \in Phase /\ tmp \in [Slot -> Int]
      /\ stray \in BOOLEAN /\ fresh = added - base + Ahead(channel)
  BY DEF TypeInv, TypeOK, RingInv
<1>2. stray' = stray /\ tmp' = [tmp EXCEPT ![t] = ring[channel][s]]
  BY <1>1 DEF CopyEntry
<1> DEFINE v == ring[channel][s]
           h == Ahead(channel)
<1>3. h \in {0, 1}
  BY DEF Ahead
<1>4. v = added - m_count + s - IF s < m_count \/ (s = m_count /\ h = 1) THEN 0 ELSE N
  BY <1>1 DEF RingInv, Holds
<1>5. Turn(added - m_count - (base - seen)) /\ added - m_count - (base - seen) >= 0
  BY DEF Drift
<1>6. tmp'[t] = v
  BY <1>1, <1>2
<1> HIDE DEF v, h
<1>7. fresh = added - base + h
  BY <1>1 DEF h
<1>8. v = base - N + t \/ (t < fresh /\ v >= base + t /\ Turn(v - (base + t)))
  <2>1. Fits(added, base, m_count, seen, h, t, s, fresh, v)
    BY <1>1, <1>3, <1>4, <1>5, <1>7 DEF Fits
  <2>2. Right(base, t, fresh, v)
    BY <2>1, SlotValue, Zenon
  <2> QED
    BY <2>2 DEF Right
<1>9. Entry(t)'
  BY <1>6, <1>8 DEF Entry, Turn
<1>10. ASSUME NEW u \in Slot, Entry(u), u # t
       PROVE  Entry(u)'
  <2>1. tmp'[u] = tmp[u]
    BY <1>1, <1>2, <1>10
  <2> QED
    BY <1>10, <2>1 DEF Entry, Turn
<1> QED
  BY <1>2, <1>9, <1>10

(* A sample stored meanwhile can only make more entries fresh. *)
LEMMA WriterKeepsCopy ==
  ASSUME TypeInv, RingInv, CopyInv, Store \/ Advance \/ Wrap
  PROVE  CopyInv'
<1> USE FreqWindowAssumption
<1>1. /\ UNCHANGED <<rpc, channel, i, seen, tmp, stray, base>>
      /\ fresh \in Nat /\ (fresh' = fresh \/ fresh' = fresh + 1)
      /\ added \in Nat /\ m_count \in 0 .. N /\ base \in Nat /\ seen \in 0 .. N
  BY DEF Store, Advance, Wrap, reader, TypeInv, TypeOK
<1>2. Drift \in Int /\ (Drift' = Drift \/ Drift' = Drift + N)
  BY <1>1 DEF Store, Advance, Wrap, Drift
<1>3. Turn(Drift) /\ Drift >= 0 => Turn(Drift)' /\ Drift' >= 0
  <2>1. ASSUME Turn(Drift), Drift >= 0
        PROVE  Turn(Drift') /\ Drift' >= 0
    <3>1. Turn(Drift + N) /\ Drift + N >= 0
      BY <1>2, <2>1, TurnStep
    <3> QED
      BY <1>2, <2>1, <3>1
  <2>2. Turn(Drift') <=> Turn(Drift)'
    BY DEF Turn
  <2> QED
    BY <2>1, <2>2
<1>4. ASSUME NEW t \in Slot, Entry(t)
      PROVE  Entry(t)'
  <2>1. t < fresh => t < fresh'
    BY <1>1 DEF Slot
  <2> QED
    BY <1>1, <1>4, <2>1 DEF Entry, Turn
<1>5. Copied' = Copied
  BY <1>1 DEF Copied
<1>6. \A t \in Slot : t < Copied' => Entry(t)'
  BY <1>4, <1>5 DEF CopyInv
<1>7. /\ ~stray'
      /\ rpc' = "head" => i' <= N - seen'
      /\ rpc' = "copyHead" => i' < N - seen'
      /\ rpc' = "tail" => i' <= seen'
      /\ rpc' = "copyTail" => i' < seen'
  BY <1>1 DEF CopyInv
<1>8. rpc' \in {"head", "copyHead", "tail", "copyTail"} => Turn(Drift)' /\ Drift' >= 0
  BY <1>1, <1>3 DEF CopyInv
<1> QED
  BY <1>6, <1>7, <1>8 DEF CopyInv

LEMMA WindowInit == Init => WindowInv
<1> SUFFICES ASSUME Init
             PROVE  WindowInv
  OBVIOUS
<1> USE FreqWindowAssumption
<1>1. /\ added = 0 /\ m_count = 0 /\ wpc = 1 /\ rpc = "wait" /\ channel = 1
      /\ base = 0 /\ fresh = 0 /\ ~stray
      /\ ring = [p \in Phase |-> [s \in Slot |-> s - N]]
  BY DEF Init
<1>2. ASSUME NEW p \in Phase, NEW s \in Slot
      PROVE  Holds(p, s)
  <2>1. ring[p][s] = s - N /\ s \in 0 .. N - 1
    BY <1>1 DEF Slot
  <2>2. Ahead(p) = 0
    BY <1>1 DEF Ahead, Phase
  <2> QED
    BY <1>1, <2>1, <2>2 DEF Holds
<1>3. Ahead(channel) = 0
  BY <1>1 DEF Ahead
<1>4. RingInv
  BY <1>1, <1>2, <1>3 DEF RingInv
<1>5. CopyInv
  <2>1. Copied = 0
    BY <1>1 DEF Copied
  <2> QED
    BY <1>1, <2>1 DEF CopyInv, Slot
<1> QED
  BY <1>4, <1>5, TypeInit DEF WindowInv

LEMMA WindowNext == WindowInv /\ [Next]_vars => WindowInv'
<1> SUFFICES ASSUME WindowInv, [Next]_vars
             PROVE  WindowInv'
  OBVIOUS
<1> USE FreqWindowAssumption
<1>1. TypeInv /\ TypeInv' /\ RingInv /\ (Once => CopyInv)
  BY TypeNext DEF WindowInv
<1> SUFFICES RingInv' /\ (Once => CopyInv')
  BY <1>1 DEF WindowInv
<1>2. CASE Store \/ Advance \/ Wrap
  BY <1>1, <1>2, StoreKeepsRing, AdvanceKeepsRing, WriterKeepsCopy
<1>3. CASE Timeout
  <2>1. Begin(1) /\ UNCHANGED writer /\ stray' = stray /\ 1 \in Phase
    BY <1>3 DEF Timeout, Phase
  <2>2. RingInv' /\ (~stray' => CopyInv')
    BY <1>1, <2>1, BeginFacts
  <2> QED
    BY <1>1, <2>1, <2>2 DEF CopyInv
<1>4. CASE Report
  <2>1. UNCHANGED writer /\ stray' = stray
    BY <1>4 DEF Report
  <2>2. CASE channel < Phases
    <3>1. Begin(channel + 1) /\ channel + 1 \in Phase
      BY <1>1, <1>4, <2>2 DEF Report, TypeInv, TypeOK, Phase
    <3>2. RingInv' /\ (~stray' => CopyInv')
      BY <1>1, <2>1, <3>1, BeginFacts
    <3> QED
      BY <1>1, <2>1, <3>2 DEF CopyInv
  <2>3. CASE ~(channel < Phases)
    <3>1. rpc' = "wait" /\ UNCHANGED <<channel, i, seen, tmp, base, fresh>>
      BY <1>4, <2>3 DEF Report
    <3>2. RingInv'
      BY <1>1, <2>1, <3>1 DEF RingInv, Holds, Ahead, writer
    <3>3. Copied' = 0
      BY <3>1 DEF Copied
    <3> QED
      BY <1>1, <2>1, <3>1, <3>2, <3>3 DEF CopyInv, Slot
  <2> QED
    BY <2>2, <2>3
<1>5. CASE Transform
  <2>1. rpc' = "search" /\ UNCHANGED <<writer, channel, stray, base, fresh>>
    BY <1>5 DEF Transform
  <2>2. RingInv'
    BY <1>1, <2>1 DEF RingInv, Holds, Ahead, writer
  <2>3. Copied' = 0
    BY <2>1 DEF Copied
  <2> QED
    BY <1>1, <2>1, <2>2, <2>3 DEF CopyInv, Slot
<1>6. CASE Compare \/ UNCHANGED vars
  <2>1. UNCHANGED <<writer, reader, fresh>>
    BY <1>6 DEF Compare, vars
  <2>2. RingInv'
    BY <1>1, <2>1 DEF RingInv, Holds, Ahead, writer, reader
  <2>3. CopyInv => CopyInv'
    BY <2>1 DEF CopyInv, Copied, Entry, Drift, Turn, writer, reader
  <2> QED
    BY <1>1, <2>2, <2>3
<1>7. CASE HeadTest \/ TailTest
  <2>1. UNCHANGED <<writer, channel, seen, tmp, stray, base, fresh>>
    BY <1>7 DEF HeadTest, TailTest
  <2>2. RingInv'
    BY <1>1, <2>1 DEF RingInv, Holds, Ahead, writer
  <2>3. ASSUME Once
        PROVE  CopyInv'
    <3>1. /\ CopyInv /\ i \in Int /\ seen \in 0 .. N /\ ~stray'
          /\ seen' = seen /\ Count = seen
          /\ \A t \in Slot : Entry(t) => Entry(t)'
      BY <1>1, <2>1, <2>3 DEF CopyInv, TypeInv, TypeOK, Count, Entry, Turn
    <3>2. /\ Turn(Drift)' <=> Turn(Drift)
          /\ Drift' = Drift
      BY <2>1 DEF Drift, Turn, writer
    <3>3. rpc \in {"head", "tail"} /\ Turn(Drift) /\ Drift >= 0
      BY <1>7, <3>1 DEF HeadTest, TailTest, CopyInv
    <3>4. /\ rpc' = "head" => i' <= N - seen'
          /\ rpc' = "copyHead" => i' < N - seen'
          /\ rpc' = "tail" => i' <= seen'
          /\ rpc' = "copyTail" => i' < seen'
      BY <1>7, <3>1 DEF HeadTest, TailTest, CopyInv
    <3>5. Copied' = Copied
      BY <1>7, <3>1 DEF HeadTest, TailTest, CopyInv, Copied
    <3>6. \A t \in Slot : t < Copied' => Entry(t)'
      BY <3>1, <3>5 DEF CopyInv
    <3> QED
      BY <3>1, <3>2, <3>3, <3>4, <3>6 DEF CopyInv
  <2> QED
    BY <2>2, <2>3
<1>8. CASE CopyHead \/ CopyTail
  <2>1. UNCHANGED <<writer, channel, seen, base, fresh>>
    BY <1>8 DEF CopyHead, CopyTail
  <2>2. RingInv'
    BY <1>1, <2>1 DEF RingInv, Holds, Ahead, writer
  <2>3. ASSUME Once
        PROVE  CopyInv'
    <3>1. /\ CopyInv /\ i \in Nat /\ seen \in 0 .. N /\ seen' = seen
          /\ Count = seen /\ Turn(Drift) /\ Drift >= 0
      BY <1>1, <1>8, <2>1, <2>3
         DEF CopyInv, TypeInv, TypeOK, Count, CopyHead, CopyTail
    <3>2. /\ Turn(Drift)' <=> Turn(Drift)
          /\ Drift' = Drift
      BY <2>1 DEF Drift, Turn, writer
    <3>3. \E t \in Slot, s \in Slot :
            /\ s = seen + t \/ s = seen + t - N
            /\ CopyEntry(t, s)
            /\ Copied = t /\ Copied' = t + 1
      <4>1. CASE CopyHead
        <5>1. rpc = "copyHead" /\ i < N - seen /\ CopyEntry(i, seen + i)
              /\ rpc' = "head" /\ i' = i + 1
          BY <3>1, <4>1 DEF CopyHead, CopyInv, CopyEntry
        <5>2. i \in Slot /\ seen + i \in Slot
          BY <3>1, <5>1 DEF Slot
        <5>3. Copied = i /\ Copied' = i + 1
          BY <5>1 DEF Copied
        <5> QED
          BY <5>1, <5>2, <5>3
      <4>2. CASE CopyTail
        <5>1. rpc = "copyTail" /\ i < seen /\ CopyEntry(N - seen + i, i)
              /\ rpc' = "tail" /\ i' = i + 1
          BY <3>1, <4>2 DEF CopyTail, CopyInv, CopyEntry
        <5>2. /\ i \in Slot /\ N - seen + i \in Slot
              /\ i = seen + (N - seen + i) - N
          BY <3>1, <5>1 DEF Slot
        <5>3. Copied = N - seen + i /\ Copied' = N - seen + i + 1
          BY <3>1, <5>1 DEF Copied
        <5> QED
          BY <5>1, <5>2, <5>3
      <4> QED
        BY <1>8, <4>1, <4>2
    <3>4. PICK t \in Slot, s \in Slot :
            /\ s = seen + t \/ s = seen + t - N
            /\ CopyEntry(t, s)
            /\ Copied = t /\ Copied' = t + 1
      BY <3>3
    <3>5. /\ stray' = stray
          /\ Entry(t)'
          /\ \A u \in Slot : Entry(u) => Entry(u)'
      BY <1>1, <2>1, <3>1, <3>4, EntryCopied
    <3>6. \A u \in Slot : u < Copied' => u < Copied \/ u = t
      BY <3>4 DEF Slot
    <3>7. \A u \in Slot : u < Copied' => Entry(u)'
      BY <3>1, <3>5, <3>6 DEF CopyInv
    <3>8. /\ rpc' = "head" => i' <= N - seen'
          /\ rpc' = "copyHead" => i' < N - seen'
          /\ rpc' = "tail" => i' <= seen'
          /\ rpc' = "copyTail" => i' < seen'
      BY <1>8, <3>1 DEF CopyHead, CopyTail, CopyInv, CopyEntry
    <3> QED
      BY <3>1, <3>2, <3>5, <3>7, <3>8 DEF CopyInv
  <2> QED
    BY <2>2, <2>3
<1> QED
  BY <1>2, <1>3, <1>4, <1>5, <1>6, <1>7, <1>8 DEF Next

LEMMA WindowInvariant == Spec => []WindowInv
<1>1. Init => WindowInv
  BY WindowInit
<1>2. WindowInv /\ [Next]_vars => WindowInv'
  BY WindowNext
<1> QED
  BY <1>1, <1>2, PTL DEF Spec

(* In a build that reads m_count once for a copy, calc_freq1 never reads   *)
(* or writes beyond an array, though m_count is N for an instant.          *)
THEOREM StaysInRange == Spec => []InRange
<1>1. WindowInv => InRange
  BY DEF WindowInv, CopyInv, InRange
<1> QED
  BY <1>1, WindowInvariant, PTL

(* In such a build the window is the last N samples, in order, but for as  *)
(* many of the first entries as samples were stored during the copy.       *)
THEOREM WindowIsLatest == Spec => []LatestWindow
<1>1. WindowInv => LatestWindow
  <2> SUFFICES ASSUME WindowInv, Once, rpc = "done", NEW t \in Slot
               PROVE  \/ tmp[t] = base - N + t
                      \/ t < fresh /\ tmp[t] >= base + t /\ (tmp[t] - (base + t)) % N = 0
    BY DEF LatestWindow
  <2>1. t < Copied
    BY FreqWindowAssumption DEF Copied, Slot
  <2> QED
    BY <2>1 DEF WindowInv, CopyInv, Entry, Turn
<1> QED
  BY <1>1, WindowInvariant, PTL
=============================================================================
