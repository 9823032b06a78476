------------------------- MODULE EffectValueProofs -------------------------
(* Proofs about an effective value calculator, for every length of the     *)
(* deque, every node size and every number of samples.                     *)
EXTENDS EffectValue, TLAPS

(* The oldest sample kept when f have been added. *)
Oldest(f) == IF f < BUF_LEN THEN 0 ELSE f - BUF_LEN

(* The deque is full or holds all there is, but for one sample too many    *)
(* between push_back and pop_front.                                        *)
Window ==
  /\ cpc \in {"idle", "push", "grow", "unlock"} => start = Oldest(finish)
  /\ cpc \in {"trim", "shrink"} => finish > 0 /\ start = Oldest(finish - 1)
  /\ cpc = "shrink" => finish - start > BUF_LEN

(* What was summed was the deque between two calls of add_data. *)
Summed ==
  /\ rpc = "lock" => finish > 0
  /\ rpc \in {"unlock", "size", "done"} =>
       /\ to > 0 /\ to <= finish /\ from = Oldest(to)
       /\ cpc \in {"trim", "shrink"} => to < finish

(* Each end that size() reads is at or after the one that was summed, and  *)
(* not beyond the end there is now.                                        *)
Read ==
  /\ rpc = "size" =>
       /\ ends = {} => divisor = 0
       /\ ends = {"finish"} => to <= divisor /\ divisor <= finish
       /\ ends = {"start"} => from <= -divisor /\ -divisor <= Oldest(finish)
       /\ ends # {"start", "finish"}
  /\ rpc = "done" =>
       to - Oldest(finish) <= divisor /\ divisor <= finish - from

Inv == TypeOK /\ Window /\ Summed /\ Read

-----------------------------------------------------------------------------

LEMMA InitInv == Init => Inv
<1> SUFFICES ASSUME Init
             PROVE  Inv
  OBVIOUS
<1>1. TypeOK
  <2>1. ends \subseteq {"start", "finish"} /\ torn \in BOOLEAN
    BY DEF Init
  <2>2. m_mutex = "capture" <=> cpc # "idle"
    BY DEF Init
  <2>3. m_mutex = "send" <=> rpc = "unlock"
    BY DEF Init
  <2> QED
    BY <2>1, <2>2, <2>3 DEF Init, TypeOK
<1>2. Window
  BY EffectValueAssumption DEF Init, Window, Oldest
<1>3. Summed /\ Read
  BY DEF Init, Summed, Read
<1> QED
  BY <1>1, <1>2, <1>3 DEF Inv

LEMMA NextInv == Inv /\ [Next]_vars => Inv'
<1> SUFFICES ASSUME Inv, [Next]_vars
             PROVE  Inv'
  OBVIOUS
<1> USE EffectValueAssumption
<1> USE DEF Inv, TypeOK, Window, Summed, Read, Oldest, deque, writer, summed,
            reading
<1>1. CASE Lock
  BY <1>1 DEF Lock
<1>2. CASE PushBack
  BY <1>2 DEF PushBack
<1>3. CASE GrowBegin
  BY <1>3 DEF GrowBegin
<1>4. CASE GrowEnd
  BY <1>4 DEF GrowEnd
<1>5. CASE Keep
  BY <1>5 DEF Keep
<1>6. CASE PopFront
  BY <1>6 DEF PopFront
<1>7. CASE ShrinkBegin
  BY <1>7 DEF ShrinkBegin
<1>8. CASE ShrinkEnd
  BY <1>8 DEF ShrinkEnd
<1>9. CASE Unlock
  BY <1>9 DEF Unlock
<1>10. CASE Call
  BY <1>10 DEF Call
<1>11. CASE Sum
  BY <1>11 DEF Sum
<1>12. CASE Release
  <2>1. Summed' /\ Window'
    BY <1>12 DEF Release
  <2>2. ends' = {} /\ divisor' = 0 /\ rpc' = "size"
    BY <1>12 DEF Release
  <2>3. {} # {"start", "finish"} /\ {} # {"start"} /\ {} # {"finish"}
    OBVIOUS
  <2>4. Read'
    BY <2>2, <2>3
  <2>5. TypeOK'
    <3>1. ends' \subseteq {"start", "finish"} /\ torn' \in BOOLEAN
      BY <1>12 DEF Release
    <3> QED
      BY <1>12, <3>1 DEF Release
  <2> QED
    BY <2>1, <2>4, <2>5
<1>13. CASE ReadFinish
  <2>1. /\ rpc = "size" /\ "finish" \notin ends
        /\ ends' = ends \cup {"finish"}
        /\ rpc' = IF ends = {} THEN "size" ELSE "done"
        /\ UNCHANGED <<start, finish, m_mutex, cpc, from, to, torn>>
    BY <1>13 DEF ReadFinish, ReadEnd
  <2>2. divisor' = divisor + finish
    BY <1>13 DEF ReadFinish, ReadEnd
  <2>3. ends = {} \/ ends = {"start"}
    BY <2>1
  <2>4. Window' /\ Summed' /\ TypeOK'
    BY <2>1, <2>2
  <2>5. Read'
    <3>1. CASE ends = {}
      <4>1. ends' = {"finish"} /\ rpc' = "size"
        BY <3>1, <2>1
      <4>2. /\ {"finish"} # {} /\ {"finish"} # {"start"}
            /\ {"finish"} # {"start", "finish"}
        OBVIOUS
      <4>3. to' <= divisor' /\ divisor' <= finish'
        BY <3>1, <2>1, <2>2
      <4> QED
        BY <4>1, <4>2, <4>3
    <3>2. CASE ends = {"start"}
      <4>1. rpc' = "done" /\ from <= -divisor /\ -divisor <= Oldest(finish)
        <5>1. {"start"} # {}
          OBVIOUS
        <5> QED
          BY <3>2, <2>1, <5>1
      <4>2. to' - Oldest(finish)' <= divisor' /\ divisor' <= finish' - from'
        BY <4>1, <2>1, <2>2
      <4> QED
        BY <4>1, <4>2
    <3> QED
      BY <3>1, <3>2, <2>3
  <2> QED
    BY <2>4, <2>5
<1>14. CASE ReadStart
  <2>1. /\ rpc = "size" /\ "start" \notin ends
        /\ ends' = ends \cup {"start"}
        /\ rpc' = IF ends = {} THEN "size" ELSE "done"
        /\ UNCHANGED <<start, finish, m_mutex, cpc, from, to, torn>>
    BY <1>14 DEF ReadStart, ReadEnd
  <2>2. divisor' = divisor - start
    BY <1>14 DEF ReadStart, ReadEnd
  <2>3. ends = {} \/ ends = {"finish"}
    BY <2>1
  <2>4. Window' /\ Summed' /\ TypeOK'
    BY <2>1, <2>2
  <2>5. from <= start /\ start <= Oldest(finish)
    BY <2>1
  <2>6. Read'
    <3>1. CASE ends = {}
      <4>1. ends' = {"start"} /\ rpc' = "size"
        BY <3>1, <2>1
      <4>2. /\ {"start"} # {} /\ {"start"} # {"finish"}
            /\ {"start"} # {"start", "finish"}
        OBVIOUS
      <4>3. from' <= -divisor' /\ -divisor' <= Oldest(finish)'
        BY <3>1, <2>1, <2>2, <2>5
      <4> QED
        BY <4>1, <4>2, <4>3
    <3>2. CASE ends = {"finish"}
      <4>1. rpc' = "done" /\ to <= divisor /\ divisor <= finish
        <5>1. {"finish"} # {}
          OBVIOUS
        <5> QED
          BY <3>2, <2>1, <5>1
      <4>2. to' - Oldest(finish)' <= divisor' /\ divisor' <= finish' - from'
        BY <4>1, <2>1, <2>2, <2>5
      <4> QED
        BY <4>1, <4>2
    <3> QED
      BY <3>1, <3>2, <2>3
  <2> QED
    BY <2>4, <2>6
<1>15. CASE UNCHANGED vars
  BY <1>15 DEF vars
<1> QED
  BY <1>1, <1>2, <1>3, <1>4, <1>5, <1>6, <1>7, <1>8, <1>9, <1>10, <1>11, <1>12,
     <1>13, <1>14, <1>15 DEF Next

LEMMA Invariant == Spec => []Inv
<1>1. Init => Inv
  BY InitInv
<1>2. Inv /\ [Next]_vars => Inv'
  BY NextInv
<1> QED
  BY <1>1, <1>2, PTL DEF Spec

-----------------------------------------------------------------------------

(* The types of the calculator's state; the mutex is held exactly while    *)
(* add_data is under way or the sum is made.                               *)
THEOREM TypeCorrect == Spec => []TypeOK
<1>1. Inv => TypeOK
  BY DEF Inv
<1> QED
  BY <1>1, Invariant, PTL

(* calc_effect_value sums the newest BUF_LEN samples there were at one     *)
(* moment, or all of them, whatever add_data does between its test for an  *)
(* empty deque and its lock.                                               *)
THEOREM SumsTheWindow == Spec => []WindowSummed
<1>1. Inv => WindowSummed
  BY EffectValueAssumption DEF Inv, TypeOK, Summed, Oldest, WindowSummed
<1> QED
  BY <1>1, Invariant, PTL

(* The number that calc_effect_value divides by is wrong by at most the    *)
(* samples added since the sum.                                            *)
THEOREM DividesClosely == Spec => []DivisorClose
<1>1. Inv => DivisorClose
  BY EffectValueAssumption DEF Inv, TypeOK, Summed, Read, Oldest, DivisorClose
<1> QED
  BY <1>1, Invariant, PTL
=============================================================================
