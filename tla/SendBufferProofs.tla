-------------------------- MODULE SendBufferProofs --------------------------
(* Proofs about the send buffer, for every frame size, clamp and buffer. *)
EXTENDS SendBuffer, TLAPS

(* How far each length can go.  Only ClampLen finds a length above Clamp.  *)
(* While add_data copies, the length is still the one it read, unless the  *)
(* timer has emptied the buffer; what add_data is about to store is never  *)
(* less than what is there.                                                *)
Bounds ==
  /\ off <= Clamp
  /\ n <= Clamp + F
  /\ len <= Clamp + F
  /\ reg <= Clamp + F
  /\ cpc # "clamp" => len <= Clamp
  /\ cpc = "copy" => len \in {0, off}
  /\ cpc = "clamp" => len \in {0, reg}
  /\ tpc = "write" => todo > 0
  /\ cpc # "idle" => frames >= 1

(* While write() reads n bytes, every length in play is at least n or has  *)
(* reached Clamp: nothing of what is read can be copied over.              *)
Window ==
  tpc = "write" =>
    /\ len >= n \/ len >= Clamp
    /\ cpc = "copy" => off >= n \/ off >= Clamp
    /\ cpc = "store" => reg >= n \/ reg >= Clamp

Monotone == cpc = "store" => len <= reg

BoundsInv == TypeOK /\ Bounds /\ Monotone /\ Window

-----------------------------------------------------------------------------

(* A byte of a frame is represented by a positive number. *)
LEMMA ByteNat ==
  ASSUME NEW f \in Nat \ {0}, NEW i \in Nat
  PROVE  Byte(f, i) \in Nat \ {0}
<1> USE SendBufferAssumption
<1>1. (f - 1) * F \in Nat
  OBVIOUS
<1> QED
  BY <1>1 DEF Byte

LEMMA BoundsInit == Init => BoundsInv
<1> SUFFICES ASSUME Init
             PROVE  BoundsInv
  OBVIOUS
<1>1. TypeOK
  <2>1. buf \in [0 .. BufBytes - 1 -> Nat]
    BY DEF Init
  <2>2. chunk \in Seq(Nat)
    BY DEF Init
  <2>3. /\ len \in Nat /\ frames \in Nat /\ off \in Nat /\ copied \in 0 .. F
        /\ reg \in Nat /\ n \in Nat /\ flushed \in Nat
        /\ clients \in 0 .. MaxClients /\ todo \in 0 .. MaxClients
    BY SendBufferAssumption DEF Init
  <2>4. m_send \in BOOLEAN /\ cpc = "idle" /\ tpc = "idle"
    BY DEF Init
  <2> QED
    BY <2>1, <2>2, <2>3, <2>4 DEF TypeOK
<1>2. Bounds /\ Monotone /\ Window
  BY SendBufferAssumption DEF Init, Bounds, Monotone, Window
<1> QED
  BY <1>1, <1>2 DEF BoundsInv

LEMMA BoundsNext == BoundsInv /\ [Next]_vars => BoundsInv'
<1> SUFFICES ASSUME BoundsInv, [Next]_vars
             PROVE  BoundsInv'
  OBVIOUS
<1> USE SendBufferAssumption
<1> USE DEF BoundsInv, TypeOK, Bounds, Monotone, Window
<1>1. CASE AddData
  BY <1>1 DEF AddData, timerVars
<1>2. CASE CopyByte
  <2>1. Byte(frames, copied) \in Nat
    <3>1. frames \in Nat \ {0} /\ copied \in Nat
      BY <1>2 DEF CopyByte
    <3> QED
      BY <3>1, ByteNat
  <2>2. buf' \in [0 .. BufBytes - 1 -> Nat]
    BY <1>2, <2>1 DEF CopyByte
  <2> QED
    BY <1>2, <2>2 DEF CopyByte, timerVars
<1>3. CASE AddLen
  BY <1>3 DEF AddLen, timerVars
<1>4. CASE StoreLen
  BY <1>4 DEF StoreLen, timerVars
<1>5. CASE StoreClamped
  BY <1>5 DEF StoreClamped, timerVars
<1>6. CASE ClampLen
  BY <1>6 DEF ClampLen, timerVars
<1>7. CASE EnableSend
  BY <1>7 DEF EnableSend, capVars, timerVars
<1>8. CASE CheckLen
  BY <1>8 DEF CheckLen, capVars
<1>9. CASE CheckSend
  BY <1>9 DEF CheckSend, capVars
<1>10. CASE LoadLen
  BY <1>10 DEF LoadLen, capVars
<1>11. CASE WriteClient
  <2>1. n \in 0 .. BufBytes
    BY <1>11 DEF WriteClient
  <2>2. \A i \in 1 .. n : buf[i - 1] \in Nat
    BY <2>1
  <2>3. chunk' \in Seq(Nat)
    BY <1>11, <2>1, <2>2 DEF WriteClient
  <2>4. todo' \in 0 .. MaxClients
    BY <1>11 DEF WriteClient
  <2> QED
    BY <1>11, <2>3, <2>4 DEF WriteClient, capVars
<1>12. CASE Reset
  BY <1>12 DEF Reset, Flush, capVars
<1>13. CASE Connect
  BY <1>13 DEF Connect, capVars, timerVars
<1>14. CASE Disconnect
  BY <1>14 DEF Disconnect, capVars, timerVars
<1>15. CASE UNCHANGED vars
  BY <1>15 DEF vars, capVars, timerVars
<1> QED
  BY <1>1, <1>2, <1>3, <1>4, <1>5, <1>6, <1>7, <1>8, <1>9, <1>10, <1>11,
     <1>12, <1>13, <1>14, <1>15 DEF Next, AddDataStep, TimerEvent

LEMMA BoundsInvariant == Spec => []BoundsInv
<1>1. Init => BoundsInv
  BY BoundsInit
<1>2. BoundsInv /\ [Next]_vars => BoundsInv'
  BY BoundsNext
<1> QED
  BY <1>1, <1>2, PTL DEF Spec
(* Every state is type-correct. *)
THEOREM TypeCorrect == Spec => []TypeOK
<1>1. BoundsInv => TypeOK
  BY DEF BoundsInv
<1> QED
  BY <1>1, BoundsInvariant, PTL

(* No interleaving of the two threads lets memcpy or write() leave the     *)
(* buffer.                                                                 *)
THEOREM StaysInBuffer == Spec => []InBuffer
<1>1. BoundsInv => InBuffer
  BY SendBufferAssumption DEF BoundsInv, TypeOK, Bounds, InBuffer
<1> QED
  BY <1>1, BoundsInvariant, PTL

(* What a client is sent is never overwritten while it is read. *)
THEOREM NeverOverlaps == Spec => []NoOverlap
<1>1. BoundsInv => NoOverlap
  BY DEF BoundsInv, Window, NoOverlap
<1> QED
  BY <1>1, BoundsInvariant, PTL

-----------------------------------------------------------------------------
(* The contents of the buffer.  An address is on the grid when it is that  *)
(* of a slot or lies behind all slots.                                     *)

OnGrid(x) == x \in Slots \/ \A a \in Slots : a + F <= x

(* Slot a holds frame f. *)
Holds(a, f) == \A i \in 0 .. F - 1 : buf[a + i] = Byte(f, i)

(* Every slot below x holds one of the frames 1 .. m. *)
Filled(x, m) ==
  \A a \in Slots : a + F <= x => \E f \in 1 .. m : Holds(a, f)

(* The frames in the slots below x are in ascending order. *)
Sorted(x) ==
  \A a, b \in Slots : a < b /\ b + F <= x => buf[a] < buf[b]

Grid ==
  /\ OnGrid(len)
  /\ cpc = "copy" => OnGrid(off)
  /\ cpc \in {"store", "clamp"} => OnGrid(reg)

(* Before add_data has finished, the slots below the length it read hold   *)
(* earlier frames, and the bytes copied so far are those of the new frame; *)
(* once it has finished, all slots below the length about to be stored are *)
(* filled.                                                                 *)
Content ==
  /\ Filled(len, frames) /\ Sorted(len)
  /\ cpc = "copy" =>
       /\ Filled(off, frames - 1) /\ Sorted(off)
       /\ \A i \in 0 .. copied - 1 : buf[off + i] = Byte(frames, i)
  /\ cpc \in {"store", "clamp"} => Filled(reg, frames) /\ Sorted(reg)

ContentInv ==
  /\ BoundsInv
  /\ Grid
  /\ Content
  /\ ChunkWhole
  /\ ChunkAscending

(* Two slots do not overlap, and all slots end at or below Clamp. *)
LEMMA SlotLayout ==
  /\ Slots \subseteq Nat
  /\ \A a \in Slots : a + F <= Clamp
  /\ \A a, b \in Slots : a < b => a + F <= b
<1> USE SendBufferAssumption
<1>1. ASSUME NEW k \in Nat
      PROVE  k * F \in Nat
  OBVIOUS
<1>2. ASSUME NEW j \in Nat, NEW k \in Nat, j < k
      PROVE  j * F + F <= k * F
  <2>1. PICK d \in Nat : k = j + 1 + d
    <3>1. k - j - 1 \in Nat
      BY <1>2
    <3>2. k = j + 1 + (k - j - 1)
      OBVIOUS
    <3> QED
      BY <3>1, <3>2
  <2>2. k * F = j * F + F + d * F
    BY <2>1
  <2>3. d * F \in Nat
    BY <1>1
  <2> QED
    BY <2>2, <2>3
<1>3. ASSUME NEW k \in 0 .. (Clamp \div F) - 1
      PROVE  k * F + F <= Clamp
  <2>1. /\ Clamp \div F \in Nat
        /\ (Clamp \div F) * F <= Clamp
    OBVIOUS
  <2>2. k * F + F <= (Clamp \div F) * F
    BY <1>2, <2>1
  <2> QED
    BY <1>1, <2>1, <2>2
<1>4. ASSUME NEW j \in Nat, NEW k \in Nat, j * F < k * F
      PROVE  j < k
  <2>1. CASE j = k
    BY <2>1, <1>4
  <2>2. CASE k < j
    BY <2>2, <1>1, <1>2, <1>4
  <2> QED
    BY <2>1, <2>2
<1>5. Slots \subseteq Nat
  BY <1>1 DEF Slots
<1>6. \A a \in Slots : a + F <= Clamp
  BY <1>3 DEF Slots
<1>7. ASSUME NEW a \in Slots, NEW b \in Slots, a < b
      PROVE  a + F <= b
  <2>1. PICK j \in 0 .. (Clamp \div F) - 1 : a = j * F
    BY DEF Slots
  <2>2. PICK k \in 0 .. (Clamp \div F) - 1 : b = k * F
    BY DEF Slots
  <2>3. j \in Nat /\ k \in Nat
    OBVIOUS
  <2> QED
    BY <2>1, <2>2, <2>3, <1>2, <1>4, <1>7
<1> QED
  BY <1>5, <1>6, <1>7

(* 0 and Clamp are on the grid, and so is what follows a point of it. *)
LEMMA GridPoints ==
  /\ OnGrid(0)
  /\ OnGrid(Clamp)
  /\ \A x \in Nat : OnGrid(x) => OnGrid(x + F)
  /\ \A x \in Nat : x >= Clamp => OnGrid(x)
<1> USE SendBufferAssumption, SlotLayout
<1>1. OnGrid(0)
  <2>1. CASE Clamp \div F = 0
    <3>1. Slots = {}
      BY <2>1 DEF Slots
    <3> QED
      BY <3>1 DEF OnGrid
  <2>2. CASE Clamp \div F # 0
    <3>1. Clamp \div F \in Nat
      OBVIOUS
    <3>2. 0 \in 0 .. (Clamp \div F) - 1
      BY <2>2, <3>1
    <3>3. 0 * F = 0
      OBVIOUS
    <3>4. 0 \in Slots
      BY <3>2, <3>3 DEF Slots
    <3> QED
      BY <3>4 DEF OnGrid
  <2> QED
    BY <2>1, <2>2
<1>2. \A x \in Nat : x >= Clamp => OnGrid(x)
  BY DEF OnGrid
<1>3. ASSUME NEW x \in Nat, OnGrid(x)
      PROVE  OnGrid(x + F)
  <2>1. CASE \A a \in Slots : a + F <= x
    BY <2>1 DEF OnGrid
  <2>2. CASE x \in Slots
    <3>1. PICK k \in 0 .. (Clamp \div F) - 1 : x = k * F
      BY <2>2 DEF Slots
    <3>2. x + F = (k + 1) * F
      BY <3>1
    <3>3. CASE k + 1 \in 0 .. (Clamp \div F) - 1
      <4>1. x + F \in Slots
        BY <3>2, <3>3 DEF Slots
      <4> QED
        BY <4>1 DEF OnGrid
    <3>4. CASE k + 1 = Clamp \div F
      <4>1. ASSUME NEW a \in Slots
            PROVE  a + F <= x + F
        <5>1. PICK j \in 0 .. (Clamp \div F) - 1 : a = j * F
          BY DEF Slots
        <5>2. j <= k
          BY <3>4
        <5>3. k - j \in Nat /\ (k - j) * F \in Nat
          BY <5>2
        <5>4. k * F = j * F + (k - j) * F
          OBVIOUS
        <5> QED
          BY <3>1, <5>1, <5>3, <5>4
      <4> QED
        BY <4>1 DEF OnGrid
    <3>5. Clamp \div F \in Nat
      OBVIOUS
    <3> QED
      BY <3>3, <3>4, <3>5
  <2> QED
    BY <1>3, <2>1, <2>2 DEF OnGrid
<1> QED
  BY <1>1, <1>2, <1>3

(* A later frame starts with a larger number. *)
LEMMA ByteOrder ==
  ASSUME NEW f \in Nat, NEW g \in Nat, f < g
  PROVE  Byte(f, 0) < Byte(g, 0)
<1> USE SendBufferAssumption
<1>1. g - 1 - f \in Nat
  OBVIOUS
<1>2. (g - 1 - f) * F \in Nat
  BY <1>1
<1>3. (g - 1) * F = (f - 1) * F + F + (g - 1 - f) * F
  OBVIOUS
<1>4. (f - 1) * F \in Int /\ (g - 1) * F \in Int
  OBVIOUS
<1> QED
  BY <1>2, <1>3, <1>4 DEF Byte

LEMMA ContentInit == Init => ContentInv
<1> SUFFICES ASSUME Init
             PROVE  ContentInv
  OBVIOUS
<1> USE SendBufferAssumption, SlotLayout
<1>1. BoundsInv
  BY BoundsInit
<1>2. Grid
  BY GridPoints DEF Init, Grid
<1>3. Content
  BY DEF Init, Content, Filled, Sorted
<1>4. ChunkWhole /\ ChunkAscending
  BY DEF Init, ChunkWhole, ChunkAscending
<1> QED
  BY <1>1, <1>2, <1>3, <1>4 DEF ContentInv

LEMMA GridNext == ContentInv /\ [Next]_vars => Grid'
<1> SUFFICES ASSUME ContentInv, [Next]_vars
             PROVE  Grid'
  OBVIOUS
<1> USE SendBufferAssumption, GridPoints
<1>2. TypeOK /\ Bounds /\ Grid
  BY DEF ContentInv, BoundsInv
<1> USE <1>2 DEF Grid, TypeOK, Bounds
<1>3. CASE AddData
  BY <1>3 DEF AddData, OnGrid
<1>4. CASE CopyByte
  BY <1>4 DEF CopyByte, OnGrid
<1>5. CASE AddLen
  BY <1>5 DEF AddLen, OnGrid
<1>6. CASE StoreLen
  BY <1>6 DEF StoreLen, OnGrid
<1>7. CASE StoreClamped
  BY <1>7 DEF StoreClamped, OnGrid
<1>8. CASE ClampLen
  BY <1>8 DEF ClampLen, OnGrid
<1>9. CASE EnableSend \/ Connect \/ Disconnect
  BY <1>9 DEF EnableSend, Connect, Disconnect, capVars, timerVars, OnGrid
<1>10. CASE CheckLen \/ CheckSend \/ LoadLen \/ WriteClient
  BY <1>10 DEF CheckLen, CheckSend, LoadLen, WriteClient, capVars, OnGrid
<1>11. CASE Reset
  BY <1>11 DEF Reset, capVars, OnGrid
<1>12. CASE UNCHANGED vars
  BY <1>12 DEF vars, capVars, timerVars, OnGrid
<1> QED
  BY <1>3, <1>4, <1>5, <1>6, <1>7, <1>8, <1>9, <1>10, <1>11, <1>12
     DEF Next, AddDataStep, TimerEvent

(* When memcpy is done, the slots below off + F are filled: the new frame  *)
(* lies right behind the earlier ones.                                     *)
LEMMA CopyDone ==
  ASSUME ContentInv, cpc = "copy", copied = F
  PROVE  Filled(off + F, frames) /\ Sorted(off + F)
<1> USE SendBufferAssumption, SlotLayout
<1>1. /\ off \in Nat /\ frames \in Nat /\ frames >= 1
      /\ buf \in [0 .. BufBytes - 1 -> Nat]
  BY DEF ContentInv, BoundsInv, TypeOK, Bounds
<1>2. OnGrid(off) /\ Filled(off, frames - 1) /\ Sorted(off)
  BY DEF ContentInv, Grid, Content
<1>3. Holds(off, frames)
  BY DEF ContentInv, Content, Holds
<1>4. ASSUME NEW a \in Slots, a + F <= off + F, a # off
      PROVE  a + F <= off
  BY <1>1, <1>2, <1>4 DEF OnGrid
<1>5. ASSUME NEW a \in Slots, a + F <= off
      PROVE  /\ \E f \in 1 .. frames - 1 : Holds(a, f)
             /\ buf[a] < Byte(frames, 0)
  <2>1. PICK f \in 1 .. frames - 1 : Holds(a, f)
    BY <1>2, <1>5 DEF Filled
  <2>2. buf[a] = Byte(f, 0)
    <3>1. buf[a + 0] = Byte(f, 0)
      BY <2>1 DEF Holds
    <3> QED
      BY <3>1
  <2>3. f \in Nat /\ f < frames
    BY <1>1
  <2>4. Byte(f, 0) < Byte(frames, 0)
    BY <1>1, <2>3, ByteOrder
  <2> QED
    BY <2>1, <2>2, <2>4
<1>6. Filled(off + F, frames)
  <2> SUFFICES ASSUME NEW a \in Slots, a + F <= off + F
               PROVE  \E f \in 1 .. frames : Holds(a, f)
    BY DEF Filled
  <2>1. CASE a = off
    BY <1>1, <1>3, <2>1
  <2>2. CASE a # off
    BY <1>1, <1>4, <1>5, <2>2
  <2> QED
    BY <2>1, <2>2
<1>7. Sorted(off + F)
  <2> SUFFICES ASSUME NEW a \in Slots, NEW b \in Slots, a < b, b + F <= off + F
               PROVE  buf[a] < buf[b]
    BY DEF Sorted
  <2>1. CASE b = off
    <3>1. buf[b + 0] = Byte(frames, 0)
      BY <1>3, <2>1 DEF Holds
    <3>2. a + F <= off
      BY <2>1
    <3>3. buf[a] < Byte(frames, 0)
      BY <1>5, <3>2
    <3> QED
      BY <3>1, <3>3
  <2>2. CASE b # off
    <3>1. b + F <= off
      BY <1>4, <2>2
    <3> QED
      BY <1>2, <3>1 DEF Sorted
  <2> QED
    BY <2>1, <2>2
<1> QED
  BY <1>6, <1>7

(* memcpy does not touch a slot that ends at or below off. *)
LEMMA CopyKeeps ==
  ASSUME ContentInv, CopyByte
  PROVE  /\ \A x \in Nat, m \in Nat : x <= off /\ Filled(x, m) => Filled(x, m)'
         /\ \A x \in Nat : x <= off /\ Sorted(x) => Sorted(x)'
<1> USE SendBufferAssumption, SlotLayout
<1>1. /\ off \in Nat /\ copied \in Nat
      /\ buf \in [0 .. BufBytes - 1 -> Nat]
      /\ off + F <= BufBytes
  BY DEF ContentInv, BoundsInv, TypeOK, Bounds, CopyByte
<1>2. ASSUME NEW a \in Nat, a < off
      PROVE  buf'[a] = buf[a]
  BY <1>1, <1>2 DEF CopyByte
<1>3. ASSUME NEW a \in Slots, a + F <= off, NEW f, Holds(a, f)
      PROVE  Holds(a, f)'
  <2> SUFFICES ASSUME NEW i \in 0 .. F - 1
               PROVE  buf'[a + i] = Byte(f, i)
    BY DEF Holds, Byte
  <2>1. a + i \in Nat /\ a + i < off
    BY <1>1, <1>3
  <2> QED
    BY <1>2, <1>3, <2>1 DEF Holds
<1>4. ASSUME NEW x \in Nat, NEW m \in Nat, x <= off, Filled(x, m)
      PROVE  Filled(x, m)'
  <2> SUFFICES ASSUME NEW a \in Slots, a + F <= x
               PROVE  \E f \in 1 .. m : Holds(a, f)'
    BY DEF Filled
  <2>1. PICK f \in 1 .. m : Holds(a, f)
    BY <1>4 DEF Filled
  <2>2. a + F <= off
    BY <1>1, <1>4
  <2> QED
    BY <1>3, <2>1, <2>2
<1>5. ASSUME NEW x \in Nat, x <= off, Sorted(x)
      PROVE  Sorted(x)'
  <2> SUFFICES ASSUME NEW a \in Slots, NEW b \in Slots, a < b, b + F <= x
               PROVE  buf'[a] < buf'[b]
    BY DEF Sorted
  <2>1. a < off /\ b < off
    BY <1>1, <1>5
  <2>2. buf'[a] = buf[a] /\ buf'[b] = buf[b]
    BY <1>2, <2>1
  <2> QED
    BY <1>5, <2>2 DEF Sorted
<1> QED
  BY <1>4, <1>5

(* Less of the buffer, and more frames to choose from. *)
LEMMA Weaken ==
  /\ \A x, y \in Nat, m, p \in Nat :
       x <= y /\ m <= p /\ Filled(y, m) => Filled(x, p)
  /\ \A x, y \in Nat : x <= y /\ Sorted(y) => Sorted(x)
<1> USE SendBufferAssumption, SlotLayout
<1>1. ASSUME NEW x \in Nat, NEW y \in Nat, NEW m \in Nat, NEW p \in Nat,
             x <= y, m <= p, Filled(y, m)
      PROVE  Filled(x, p)
  <2> SUFFICES ASSUME NEW a \in Slots, a + F <= x
               PROVE  \E f \in 1 .. p : Holds(a, f)
    BY DEF Filled
  <2>1. a + F <= y
    BY <1>1
  <2>2. PICK f \in 1 .. m : Holds(a, f)
    BY <1>1, <2>1 DEF Filled
  <2> QED
    BY <1>1, <2>2
<1>2. ASSUME NEW x \in Nat, NEW y \in Nat, x <= y, Sorted(y)
      PROVE  Sorted(x)
  BY <1>2 DEF Sorted
<1> QED
  BY <1>1, <1>2

(* Filled and Sorted depend on no variable but buf. *)
LEMMA SameBuffer ==
  ASSUME UNCHANGED buf
  PROVE  /\ \A x, m : Filled(x, m)' <=> Filled(x, m)
         /\ \A x : Sorted(x)' <=> Sorted(x)
BY DEF Filled, Sorted, Holds, Byte

LEMMA ContentNext == ContentInv /\ [Next]_vars => Content'
<1> SUFFICES ASSUME ContentInv, [Next]_vars
             PROVE  Content'
  OBVIOUS
<1>1. TypeOK /\ Bounds /\ Content
  BY DEF ContentInv, BoundsInv
<1>2. /\ len \in Nat /\ off \in Nat /\ reg \in Nat /\ frames \in Nat
      /\ copied \in 0 .. F /\ F \in Nat /\ Clamp \in Nat
  BY <1>1, SendBufferAssumption DEF TypeOK
<1>3. CASE AddData
  <2>1. /\ frames' = frames + 1 /\ off' = len /\ len' = len
        /\ copied' = 0 /\ cpc' = "copy" /\ UNCHANGED buf
    BY <1>3 DEF AddData
  <2>2. Filled(len, frames + 1)
    BY <1>1, <1>2, Weaken DEF Content
  <2> QED
    BY <1>1, <1>2, <2>1, <2>2, SameBuffer DEF Content
<1>4. CASE CopyByte
  <2>1. /\ UNCHANGED <<len, off, frames, cpc>> /\ cpc = "copy"
        /\ copied' = copied + 1 /\ copied < F
    BY <1>4 DEF CopyByte
  <2>2. len <= off /\ frames - 1 \in Nat
    BY <1>1, <1>2, <2>1 DEF Bounds
  <2>3. Filled(len, frames)' /\ Sorted(len)'
    BY <1>1, <1>2, <1>4, <2>1, <2>2, CopyKeeps DEF Content
  <2>4. Filled(off, frames - 1)' /\ Sorted(off)'
    BY <1>1, <1>2, <1>4, <2>1, <2>2, CopyKeeps DEF Content
  <2>5. ASSUME NEW i \in 0 .. copied' - 1
        PROVE  buf'[off + i] = Byte(frames, i)
    <3>1. /\ buf \in [0 .. BufBytes - 1 -> Nat]
          /\ off + F <= BufBytes
      BY <1>1, <2>1, SendBufferAssumption DEF TypeOK, Bounds
    <3>2. buf' = [buf EXCEPT ![off + copied] = Byte(frames, copied)]
      BY <1>4 DEF CopyByte
    <3>3. CASE i = copied
      <4>1. off + copied \in 0 .. BufBytes - 1
        <5>1. /\ off \in Nat /\ copied \in Nat /\ copied < F
              /\ F \in Nat /\ BufBytes \in Nat /\ off + F <= BufBytes
          BY <1>2, <2>1, <3>1, SendBufferAssumption
        <5> QED
          BY <5>1
      <4>2. buf'[off + copied] = Byte(frames, copied)
        BY <3>1, <3>2, <4>1
      <4> QED
        BY <3>3, <4>2
    <3>4. CASE i # copied
      <4>1. i \in 0 .. copied - 1
        BY <1>2, <2>1, <3>4
      <4>2. buf[off + i] = Byte(frames, i)
        BY <1>1, <2>1, <4>1 DEF Content
      <4>3. buf'[off + i] = buf[off + i]
        BY <1>2, <2>1, <3>1, <3>2, <4>1
      <4> QED
        BY <4>2, <4>3
    <3> QED
      BY <3>3, <3>4
  <2>6. \A i \in 0 .. copied' - 1 : buf'[off' + i] = Byte(frames', i)
    BY <2>1, <2>5
  <2> QED
    BY <2>1, <2>3, <2>4, <2>6 DEF Content, Byte
<1>5. CASE AddLen
  <2>1. /\ UNCHANGED <<buf, len, off, frames>> /\ cpc = "copy" /\ copied = F
        /\ cpc' = "store" /\ reg' \in {off + F, len + F}
    BY <1>5 DEF AddLen
  <2>2. Filled(off + F, frames) /\ Sorted(off + F)
    BY <2>1, CopyDone
  <2>3. len + F <= off + F
    BY <1>1, <1>2, <2>1 DEF Bounds
  <2>4. Filled(reg', frames) /\ Sorted(reg')
    BY <1>2, <2>1, <2>2, <2>3, Weaken
  <2> QED
    BY <1>1, <2>1, <2>4, SameBuffer DEF Content
<1>6. CASE StoreLen
  <2>1. /\ UNCHANGED <<buf, off, frames, reg>> /\ cpc = "store"
        /\ cpc' = "clamp" /\ len' = reg
    BY <1>6 DEF StoreLen
  <2> QED
    BY <1>1, <2>1, SameBuffer DEF Content
<1>7. CASE StoreClamped
  <2>1. /\ UNCHANGED <<buf, frames>> /\ cpc = "store" /\ cpc' = "idle"
        /\ len' = IF reg > Clamp THEN Clamp ELSE reg
    BY <1>7 DEF StoreClamped
  <2>2. len' \in Nat /\ len' <= reg
    BY <1>2, <2>1
  <2>3. Filled(len', frames) /\ Sorted(len')
    BY <1>1, <1>2, <2>1, <2>2, Weaken DEF Content
  <2> QED
    BY <2>1, <2>3, SameBuffer DEF Content
<1>8. CASE ClampLen
  <2>1. /\ UNCHANGED <<buf, frames>> /\ cpc = "clamp" /\ cpc' = "idle"
    BY <1>8 DEF ClampLen
  <2>2. PICK seen \in {reg, len} : len' = IF seen > Clamp THEN Clamp ELSE len
    BY <1>8 DEF ClampLen
  <2>3. Filled(seen, frames) /\ Sorted(seen)
    BY <1>1, <2>1, <2>2 DEF Content
  <2>4. Filled(len', frames) /\ Sorted(len')
    <3>1. CASE seen > Clamp
      BY <1>2, <2>2, <2>3, <3>1, Weaken
    <3>2. CASE ~(seen > Clamp)
      BY <1>1, <2>2, <3>2 DEF Content
    <3> QED
      BY <3>1, <3>2
  <2> QED
    BY <2>1, <2>4, SameBuffer DEF Content
<1>9. CASE EnableSend \/ Connect \/ Disconnect
  <2>1. UNCHANGED <<buf, len, off, reg, frames, copied, cpc>>
    BY <1>9 DEF EnableSend, Connect, Disconnect, capVars
  <2> QED
    BY <1>1, <2>1, SameBuffer DEF Content, Byte
<1>10. CASE CheckLen \/ CheckSend \/ LoadLen \/ WriteClient
  <2>1. UNCHANGED <<buf, len, off, reg, frames, copied, cpc>>
    BY <1>10 DEF CheckLen, CheckSend, LoadLen, WriteClient, capVars
  <2> QED
    BY <1>1, <2>1, SameBuffer DEF Content, Byte
<1>11. CASE Reset
  <2>1. UNCHANGED <<buf, off, reg, frames, copied, cpc>> /\ len' = 0
    BY <1>11 DEF Reset, capVars
  <2>2. Filled(0, frames) /\ Sorted(0)
    BY <1>1, <1>2, Weaken DEF Content
  <2> QED
    BY <1>1, <2>1, <2>2, SameBuffer DEF Content, Byte
<1>12. CASE UNCHANGED vars
  <2>1. UNCHANGED <<buf, len, off, reg, frames, copied, cpc>>
    BY <1>12 DEF vars, capVars
  <2> QED
    BY <1>1, <2>1, SameBuffer DEF Content, Byte
<1> QED
  BY <1>3, <1>4, <1>5, <1>6, <1>7, <1>8, <1>9, <1>10, <1>11, <1>12
     DEF Next, AddDataStep, TimerEvent

LEMMA ChunkNext == ContentInv /\ [Next]_vars => ChunkWhole' /\ ChunkAscending'
<1> SUFFICES ASSUME ContentInv, [Next]_vars
             PROVE  ChunkWhole' /\ ChunkAscending'
  OBVIOUS
<1> USE SendBufferAssumption, SlotLayout
<1>1. TypeOK /\ Bounds /\ Window /\ Content
  BY DEF ContentInv, BoundsInv
<1>2. CASE UNCHANGED chunk
  <2>1. frames \in Nat /\ frames' \in Nat /\ frames <= frames'
    <3>1. frames \in Nat
      BY <1>1 DEF TypeOK
    <3>2. frames' \in {frames, frames + 1}
      BY DEF Next, vars, capVars, AddData, AddDataStep, CopyByte, AddLen,
             StoreLen, StoreClamped, ClampLen, EnableSend, TimerEvent,
             CheckLen, CheckSend, LoadLen, WriteClient, Reset, Connect,
             Disconnect
    <3> QED
      BY <3>1, <3>2
  <2>2. ChunkWhole'
    <3> SUFFICES ASSUME NEW a \in Slots, a + F <= Len(chunk)
                 PROVE  \E f \in 1 .. frames' :
                          \A i \in 0 .. F - 1 : chunk[a + i + 1] = Byte(f, i)
      BY <1>2 DEF ChunkWhole, Byte
    <3>1. PICK f \in 1 .. frames :
            \A i \in 0 .. F - 1 : chunk[a + i + 1] = Byte(f, i)
      BY DEF ContentInv, ChunkWhole
    <3>2. f \in 1 .. frames'
      BY <2>1
    <3> QED
      BY <3>1, <3>2
  <2>3. ChunkAscending'
    BY <1>2 DEF ContentInv, ChunkAscending
  <2> QED
    BY <2>2, <2>3
<1>3. CASE WriteClient
  <2>1. /\ n \in Nat /\ len \in Nat /\ tpc = "write" /\ UNCHANGED frames
        /\ chunk' = [i \in 1 .. n |-> buf[i - 1]]
    BY <1>1, <1>3 DEF WriteClient, TypeOK, capVars
  <2>2. len >= n \/ len >= Clamp
    BY <1>1, <2>1 DEF Window
  <2>3. Len(chunk') = n
    BY <2>1
  <2>4. ASSUME NEW a \in Slots, a + F <= n
        PROVE  /\ a + F <= len
               /\ \A i \in 0 .. F - 1 : chunk'[a + i + 1] = buf[a + i]
    <3>1. a + F <= len
      BY <2>1, <2>2, <2>4
    <3>2. ASSUME NEW i \in 0 .. F - 1
          PROVE  chunk'[a + i + 1] = buf[a + i]
      <4>1. a + i + 1 \in 1 .. n /\ a + i + 1 - 1 = a + i
        BY <2>1, <2>4
      <4> QED
        BY <2>1, <4>1
    <3> QED
      BY <3>1, <3>2
  <2>5. ChunkWhole'
    <3> SUFFICES ASSUME NEW a \in Slots, a + F <= n
                 PROVE  \E f \in 1 .. frames :
                          \A i \in 0 .. F - 1 : chunk'[a + i + 1] = Byte(f, i)
      BY <2>1, <2>3 DEF ChunkWhole, Byte
    <3>1. PICK f \in 1 .. frames : Holds(a, f)
      <4>1. a + F <= len
        BY <2>4
      <4> QED
        BY <1>1, <4>1 DEF Content, Filled
    <3>2. ASSUME NEW i \in 0 .. F - 1
          PROVE  chunk'[a + i + 1] = Byte(f, i)
      <4>1. chunk'[a + i + 1] = buf[a + i]
        BY <2>4, Zenon
      <4>2. buf[a + i] = Byte(f, i)
        BY <3>1, Zenon DEF Holds
      <4> QED
        BY <4>1, <4>2
    <3> QED
      BY <3>2, Zenon
  <2>6. ChunkAscending'
    <3> SUFFICES ASSUME NEW a \in Slots, NEW b \in Slots, a < b, b + F <= n
                 PROVE  chunk'[a + 1] < chunk'[b + 1]
      BY <2>3 DEF ChunkAscending
    <3>1. a + F <= n /\ b + F <= len
      BY <2>1, <2>4
    <3>2. chunk'[a + 1] = buf[a] /\ chunk'[b + 1] = buf[b]
      <4>1. 0 \in 0 .. F - 1
        OBVIOUS
      <4>2. chunk'[a + 0 + 1] = buf[a + 0]
        BY <2>4, <3>1, <4>1
      <4>3. chunk'[b + 0 + 1] = buf[b + 0]
        BY <2>4, <4>1
      <4>4. /\ a + 0 = a /\ a + 0 + 1 = a + 1
            /\ b + 0 = b /\ b + 0 + 1 = b + 1
        BY SlotLayout
      <4> QED
        BY <4>2, <4>3, <4>4, Zenon
    <3>3. buf[a] < buf[b]
      BY <1>1, <3>1 DEF Content, Sorted
    <3> QED
      BY <3>2, <3>3
  <2> QED
    BY <2>5, <2>6
<1> QED
  BY <1>2, <1>3
     DEF Next, vars, timerVars, AddData, AddDataStep, CopyByte, AddLen,
         StoreLen, StoreClamped, ClampLen, EnableSend, TimerEvent, CheckLen,
         CheckSend, LoadLen, Reset, Connect, Disconnect

LEMMA ContentInvariant == Spec => []ContentInv
<1>1. Init => ContentInv
  BY ContentInit
<1>2. ContentInv /\ [Next]_vars => ContentInv'
  BY BoundsNext, GridNext, ContentNext, ChunkNext DEF ContentInv
<1> QED
  BY <1>1, <1>2, PTL DEF Spec

(* Every slot below Clamp of every chunk a client is sent is one whole     *)
(* frame.                                                                  *)
THEOREM SendsWholeFrames == Spec => []ChunkWhole
<1>1. ContentInv => ChunkWhole
  BY DEF ContentInv
<1> QED
  BY <1>1, ContentInvariant, PTL

(* The frames of a chunk are in acquisition order, none of them twice. *)
THEOREM SendsInOrder == Spec => []ChunkAscending
<1>1. ContentInv => ChunkAscending
  BY DEF ContentInv
<1> QED
  BY <1>1, ContentInvariant, PTL

-----------------------------------------------------------------------------
(* Nothing that a length covers, or is about to cover, is older than the    *)
(* last time the buffer was emptied between two calls of add_data.         *)

Newer(x) == \A a \in Slots : a + F <= x => buf[a] > Byte(flushed, F - 1)

Later ==
  /\ flushed <= frames
  /\ cpc # "idle" => flushed < frames
  /\ Newer(len)
  /\ cpc = "copy" => Newer(off)
  /\ cpc \in {"store", "clamp"} => Newer(reg)

(* Every byte of a frame has a smaller number than the first of a later.   *)
LEMMA LaterByte ==
  ASSUME NEW f \in Nat, NEW g \in Nat, f < g
  PROVE  Byte(f, F - 1) < Byte(g, 0)
<1> USE SendBufferAssumption
<1>1. g - 1 - f \in Nat
  OBVIOUS
<1>2. (g - 1 - f) * F \in Nat
  BY <1>1
<1>3. (g - 1) * F = (f - 1) * F + F + (g - 1 - f) * F
  OBVIOUS
<1>4. (f - 1) * F \in Int /\ (g - 1) * F \in Int
  OBVIOUS
<1> QED
  BY <1>2, <1>3, <1>4 DEF Byte

LEMMA NewerWeaken ==
  ASSUME NEW x \in Nat, NEW y \in Nat, x <= y, Newer(y)
  PROVE  Newer(x)
<1> SUFFICES ASSUME NEW a \in Slots, a + F <= x
             PROVE  buf[a] > Byte(flushed, F - 1)
  BY DEF Newer
<1>1. a + F <= y
  BY SlotLayout, SendBufferAssumption
<1> QED
  BY <1>1 DEF Newer

LEMMA NewerSame ==
  ASSUME UNCHANGED <<buf, flushed>>
  PROVE  \A x : Newer(x)' <=> Newer(x)
BY DEF Newer, Byte

(* The new frame, right behind what is newer already, is newer too. *)
LEMMA NewerCopied ==
  ASSUME ContentInv, Later, cpc = "copy", copied = F
  PROVE  Newer(off + F)
<1> USE SendBufferAssumption, SlotLayout
<1>1. /\ off \in Nat /\ frames \in Nat /\ flushed \in Nat /\ flushed < frames
      /\ OnGrid(off) /\ Newer(off)
  BY DEF ContentInv, BoundsInv, TypeOK, Grid, Later
<1>2. buf[off + 0] = Byte(frames, 0)
  <2>1. 0 \in 0 .. copied - 1
    OBVIOUS
  <2> QED
    BY <2>1 DEF ContentInv, Content
<1>3. Byte(flushed, F - 1) < Byte(frames, 0)
  BY <1>1, LaterByte
<1> SUFFICES ASSUME NEW a \in Slots, a + F <= off + F
             PROVE  buf[a] > Byte(flushed, F - 1)
  BY DEF Newer
<1>4. CASE a = off
  <2>1. off + 0 = a
    BY <1>1, <1>4
  <2>2. buf[a] = Byte(frames, 0)
    BY <1>2, <2>1
  <2>3. Byte(flushed, F - 1) \in Int /\ Byte(frames, 0) \in Int
    BY <1>1 DEF Byte
  <2> QED
    BY <1>3, <2>2, <2>3
<1>5. CASE a # off
  <2>1. a + F <= off
    BY <1>1, <1>5 DEF OnGrid
  <2> QED
    BY <1>1, <2>1 DEF Newer
<1> QED
  BY <1>4, <1>5

LEMMA LaterInit == Init => Later
<1> SUFFICES ASSUME Init
             PROVE  Later
  OBVIOUS
<1>1. Newer(0)
  BY SlotLayout, SendBufferAssumption DEF Newer
<1> QED
  BY <1>1 DEF Init, Later

LEMMA LaterNext == ContentInv /\ Later /\ [Next]_vars => Later'
<1> SUFFICES ASSUME ContentInv, Later, [Next]_vars
             PROVE  Later'
  OBVIOUS
<1>1. /\ len \in Nat /\ off \in Nat /\ reg \in Nat /\ frames \in Nat
      /\ flushed \in Nat /\ copied \in 0 .. F /\ F \in Nat \ {0} /\ Clamp \in Nat
      /\ buf \in [0 .. BufBytes - 1 -> Nat]
  BY SendBufferAssumption DEF ContentInv, BoundsInv, TypeOK
<1>2. CASE AddData
  <2>1. /\ frames' = frames + 1 /\ off' = len /\ cpc' = "copy"
        /\ UNCHANGED <<buf, len, flushed>>
    BY <1>2 DEF AddData, timerVars
  <2> QED
    BY <1>1, <2>1, NewerSame DEF Later
<1>3. CASE CopyByte
  <2>1. /\ cpc = "copy" /\ copied < F
        /\ buf' = [buf EXCEPT ![off + copied] = Byte(frames, copied)]
        /\ UNCHANGED <<len, off, reg, frames, cpc, flushed>>
    BY <1>3 DEF CopyByte, timerVars
  <2>2. len <= off
    BY <1>1, <2>1 DEF ContentInv, BoundsInv, Bounds
  <2>3. ASSUME NEW x \in Nat, x <= off, Newer(x)
        PROVE  Newer(x)'
    <3> SUFFICES ASSUME NEW a \in Slots, a + F <= x
                 PROVE  buf'[a] > Byte(flushed, F - 1)
      BY <2>1 DEF Newer, Byte
    <3>1. a \in Nat /\ a # off + copied
      BY <1>1, <2>3, SlotLayout
    <3>2. buf'[a] = buf[a]
      BY <1>1, <2>1, <3>1
    <3> QED
      BY <2>3, <3>2 DEF Newer
  <2>4. Newer(len)' /\ Newer(off)'
    BY <1>1, <2>1, <2>2, <2>3 DEF Later
  <2> QED
    BY <2>1, <2>4 DEF Later
<1>4. CASE AddLen
  <2>1. /\ cpc = "copy" /\ copied = F /\ cpc' = "store"
        /\ reg' \in {off + F, len + F}
        /\ UNCHANGED <<buf, len, frames, flushed>>
    BY <1>4 DEF AddLen, timerVars
  <2>2. reg' \in Nat /\ reg' <= off + F /\ off + F \in Nat
    BY <1>1, <2>1 DEF ContentInv, BoundsInv, Bounds
  <2>3. Newer(reg')
    BY <2>1, <2>2, NewerCopied, NewerWeaken
  <2>4. PICK r \in Nat : r = reg'
    BY <2>2
  <2>5. Newer(r)'
    BY <2>1, <2>3, <2>4, NewerSame
  <2> QED
    BY <2>1, <2>4, <2>5, NewerSame DEF Later
<1>5. CASE StoreLen
  <2>1. /\ cpc = "store" /\ cpc' = "clamp" /\ len' = reg
        /\ UNCHANGED <<buf, frames, reg, flushed>>
    BY <1>5 DEF StoreLen, timerVars
  <2> QED
    BY <2>1, NewerSame DEF Later
<1>6. CASE StoreClamped \/ ClampLen
  <2>1. /\ cpc \in {"store", "clamp"} /\ cpc' = "idle"
        /\ UNCHANGED <<buf, frames, flushed>>
    BY <1>6 DEF StoreClamped, ClampLen, timerVars
  <2>2. len' \in Nat /\ (len' <= reg \/ len' <= len)
    BY <1>1, <1>6 DEF StoreClamped, ClampLen
  <2>3. PICK l \in Nat : l = len'
    BY <2>2
  <2>4. Newer(l)
    BY <1>1, <2>1, <2>2, <2>3, NewerWeaken DEF Later
  <2> QED
    BY <2>1, <2>3, <2>4, NewerSame DEF Later
<1>7. CASE Reset
  <2>1. /\ len' = 0 /\ UNCHANGED <<buf, cpc, frames, off, reg>>
        /\ flushed' = IF cpc = "idle" THEN frames ELSE flushed
    BY <1>7 DEF Reset, Flush, capVars
  <2>2. Newer(0)'
    BY <1>1, SlotLayout DEF Newer
  <2>3. CASE cpc = "idle"
    BY <1>1, <2>1, <2>2, <2>3 DEF Later
  <2>4. CASE cpc # "idle"
    BY <2>1, <2>2, <2>4, NewerSame DEF Later
  <2> QED
    BY <2>3, <2>4
<1>8. CASE \/ EnableSend \/ Connect \/ Disconnect
           \/ CheckLen \/ CheckSend \/ LoadLen \/ WriteClient \/ UNCHANGED vars
  <2>1. UNCHANGED <<buf, len, off, reg, frames, cpc, flushed>>
    BY <1>8 DEF EnableSend, Connect, Disconnect, CheckLen, CheckSend, LoadLen,
              WriteClient, vars, capVars, timerVars
  <2> QED
    BY <2>1, NewerSame DEF Later
<1> QED
  BY <1>2, <1>3, <1>4, <1>5, <1>6, <1>7, <1>8 DEF Next, AddDataStep, TimerEvent

LEMMA LaterInvariant == Spec => [](ContentInv /\ Later)
<1>1. Init => Later
  BY LaterInit
<1>2. ContentInv /\ Later /\ [Next]_vars => Later'
  BY LaterNext
<1> QED
  BY <1>1, <1>2, ContentInvariant, PTL DEF Spec

(* A round of the timer sends only frames handed over since the buffer was *)
(* last emptied between two calls of add_data: a frame can be sent in two  *)
(* rounds only when the first of them ended while a frame was being added. *)
THEOREM SendsInRounds == Spec => RoundsAscend
<1> DEFINE A == tpc = "write" /\ tpc' # "write" =>
                  \A a \in Slots :
                    a + F <= Len(chunk') => chunk'[a + 1] > Byte(flushed, F - 1)
<1>1. ContentInv /\ Later /\ [Next]_vars => [A]_vars
  <2> SUFFICES ASSUME ContentInv, Later, [Next]_vars, tpc = "write", tpc' # "write",
                      NEW a \in Slots, a + F <= Len(chunk')
               PROVE  chunk'[a + 1] > Byte(flushed, F - 1)
    OBVIOUS
  <2>1. WriteClient
    BY DEF Next, vars, timerVars, AddData, AddDataStep, CopyByte, AddLen, StoreLen,
           StoreClamped, ClampLen, EnableSend, TimerEvent, CheckLen, CheckSend, LoadLen,
           Reset, Connect, Disconnect
  <2>2. /\ n \in Nat /\ len \in Nat /\ F \in Nat \ {0} /\ Clamp \in Nat
        /\ chunk' = [i \in 1 .. n |-> buf[i - 1]]
        /\ (len >= n \/ len >= Clamp)
    BY <2>1, SendBufferAssumption
       DEF ContentInv, BoundsInv, TypeOK, Window, WriteClient
  <2>3. Len(chunk') = n
    BY <2>2
  <2>4. a \in Nat /\ a + F <= n /\ a + F <= len
    BY <2>2, <2>3, SlotLayout
  <2>5. a + 1 \in 1 .. n /\ a + 1 - 1 = a
    BY <2>2, <2>4
  <2>6. chunk'[a + 1] = buf[a]
    <3>1. PICK i \in 1 .. n : i = a + 1
      BY <2>5
    <3>2. chunk'[i] = buf[i - 1]
      BY <2>2
    <3>3. i - 1 = a
      BY <2>4, <3>1
    <3> QED
      BY <3>1, <3>2, <3>3
  <2> QED
    BY <2>4, <2>6 DEF Later, Newer
<1> QED
  BY <1>1, LaterInvariant, PTL DEF Spec, RoundsAscend
=============================================================================
