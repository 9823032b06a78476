----------------------------- MODULE SendBuffer -----------------------------
(***************************************************************************)
(* The send buffer of the compiled TCP server, device/tcpserver.cpp.       *)
(*                                                                         *)
(* Two threads use it and no lock guards it.  The acquisition thread calls *)
(* add_data() for every merged frame and enable_send() when it has seen an *)
(* empty chip; the Qt thread runs timerEvent() every 5 ms, and, between    *)
(* two timer events, the slots that add and remove clients.                *)
(*                                                                         *)
(* A cell of the buffer is one byte; byte i of the f-th frame handed to    *)
(* add_data is represented by (f - 1) * F + i + 1, and 0 is a byte that    *)
(* was never written.  Reading m_send_data_len, moving data and writing    *)
(* m_send_data_len are steps of their own; where the compiler may either   *)
(* keep the length in a register or read it again, both are possible.      *)
(***************************************************************************)
EXTENDS Integers, Sequences

CONSTANTS
  F,          \* bytes in a frame (74: 37 words)
  Clamp,      \* the length add_data cuts m_send_data_len back to (3800)
  BufBytes,   \* size of m_send_buff in bytes (8000)
  MaxClients, \* bound: clients connected at the same time
  MaxFrames   \* bound: calls of add_data

ASSUME SendBufferAssumption ==
  /\ F \in Nat \ {0}
  /\ Clamp \in Nat \ {0}
  /\ BufBytes \in Nat
  /\ Clamp + F <= BufBytes
  /\ MaxClients \in Nat
  /\ MaxFrames \in Nat

VARIABLES
  buf,        \* m_send_buff
  len,        \* m_send_data_len
  m_send,     \* whether sending is enabled
  clients,    \* number of sockets in the list of clients
  cpc,        \* where add_data is
  frames,     \* calls of add_data so far, the one in progress included
  off,        \* the length add_data read to know where to copy to
  copied,     \* bytes memcpy has copied
  reg,        \* the new length, before it is stored
  tpc,        \* where timerEvent is
  todo,       \* clients timerEvent has not served yet
  n,          \* the length passed to write()
  chunk,      \* the bytes the last write() queued for a client
  flushed     \* history: frames handed over when the timer last emptied the
              \* buffer between two calls of add_data

capVars == <<cpc, frames, off, copied, reg>>
timerVars == <<tpc, todo, n, chunk, flushed>>
vars == <<buf, len, m_send, clients, capVars, timerVars>>

(* Byte i of frame f. *)
Byte(f, i) == (f - 1) * F + i + 1

Flush == flushed' = IF cpc = "idle" THEN frames ELSE flushed

Init ==
  /\ buf = [a \in 0 .. BufBytes - 1 |-> 0]
  /\ len = 0
  /\ m_send = FALSE
  /\ clients = 0
  /\ cpc = "idle"
  /\ frames = 0
  /\ off = 0
  /\ copied = 0
  /\ reg = 0
  /\ tpc = "idle"
  /\ todo = 0
  /\ n = 0
  /\ chunk = <<>>
  /\ flushed = 0

-----------------------------------------------------------------------------
(* Plausible mistakes, each put in the place of the definition it varies.  *)

(* Nothing is cut back. *)
StoreUnclamped ==
  /\ cpc = "store"
  /\ cpc' = "idle"
  /\ len' = reg
  /\ UNCHANGED <<buf, m_send, clients, frames, off, copied, reg, timerVars>>

(* A full buffer starts again from the front. *)
StoreWrapped ==
  /\ cpc = "store"
  /\ cpc' = "idle"
  /\ len' = IF reg > Clamp THEN 0 ELSE reg
  /\ UNCHANGED <<buf, m_send, clients, frames, off, copied, reg, timerVars>>

(* The length is counted up while memcpy is still copying. *)
AddLenEarly ==
  /\ cpc = "copy"
  /\ cpc' = "store"
  /\ reg' \in {off + F, len + F}
  /\ UNCHANGED <<buf, len, m_send, clients, frames, off, copied, timerVars>>

(* The acquisition thread keeps a length of its own, never reset. *)
AddLenPrivate ==
  /\ cpc = "copy"
  /\ copied = F
  /\ cpc' = "store"
  /\ reg' = reg + F
  /\ UNCHANGED <<buf, len, m_send, clients, frames, off, copied, timerVars>>

(* The timer forgets to empty the buffer. *)
ResetForgotten ==
  /\ tpc = "loop"
  /\ todo = 0
  /\ tpc' = "idle"
  /\ Flush
  /\ UNCHANGED <<buf, len, m_send, clients, capVars, todo, n, chunk>>

(* A socket is removed from a list it is no longer in. *)
DisconnectTwice ==
  /\ tpc = "idle"
  /\ clients' = clients - 1
  /\ UNCHANGED <<buf, len, m_send, capVars, timerVars>>

-----------------------------------------------------------------------------
(* The acquisition thread. *)

(* add_data is called; it reads the length to compute the target of memcpy. *)
AddData ==
  /\ cpc = "idle"
  /\ frames < MaxFrames
  /\ cpc' = "copy"
  /\ frames' = frames + 1
  /\ off' = len
  /\ copied' = 0
  /\ UNCHANGED <<buf, len, m_send, clients, reg, timerVars>>

(* memcpy moves one more byte. *)
CopyByte ==
  /\ cpc = "copy"
  /\ copied < F
  /\ buf' = [buf EXCEPT ![off + copied] = Byte(frames, copied)]
  /\ copied' = copied + 1
  /\ UNCHANGED <<len, m_send, clients, cpc, frames, off, reg, timerVars>>

(* m_send_data_len += F: the old length is still in a register, or is read *)
(* again.                                                                  *)
AddLen ==
  /\ cpc = "copy"
  /\ copied = F
  /\ cpc' = "store"
  /\ reg' \in {off + F, len + F}
  /\ UNCHANGED <<buf, len, m_send, clients, frames, off, copied, timerVars>>

(* The sum is stored before it is compared with Clamp. *)
StoreLen ==
  /\ cpc = "store"
  /\ cpc' = "clamp"
  /\ len' = reg
  /\ UNCHANGED <<buf, m_send, clients, frames, off, copied, reg, timerVars>>

(* The sum is compared first and stored once. *)
StoreClamped ==
  /\ cpc = "store"
  /\ cpc' = "idle"
  /\ len' = IF reg > Clamp THEN Clamp ELSE reg
  /\ UNCHANGED <<buf, m_send, clients, frames, off, copied, reg, timerVars>>

ClampLen ==
  /\ cpc = "clamp"
  /\ cpc' = "idle"
  /\ \E seen \in {reg, len} : len' = IF seen > Clamp THEN Clamp ELSE len
  /\ UNCHANGED <<buf, m_send, clients, frames, off, copied, reg, timerVars>>

EnableSend ==
  /\ cpc = "idle"
  /\ m_send' = ~m_send
  /\ UNCHANGED <<buf, len, clients, capVars, timerVars>>

AddDataStep == CopyByte \/ AddLen \/ StoreLen \/ StoreClamped \/ ClampLen

-----------------------------------------------------------------------------
(* The Qt thread. *)

(* timerEvent finds the buffer not empty; when it is, it returns. *)
CheckLen ==
  /\ tpc = "idle"
  /\ len # 0
  /\ tpc' = "check_send"
  /\ UNCHANGED <<buf, len, m_send, clients, capVars, todo, n, chunk, flushed>>

CheckSend ==
  /\ tpc = "check_send"
  /\ tpc' = IF m_send THEN "loop" ELSE "idle"
  /\ todo' = IF m_send THEN clients ELSE 0
  /\ UNCHANGED <<buf, len, m_send, clients, capVars, n, chunk, flushed>>

(* The arguments of the next client->write() are evaluated. *)
LoadLen ==
  /\ tpc = "loop"
  /\ todo > 0
  /\ tpc' = "write"
  /\ n' = len
  /\ UNCHANGED <<buf, len, m_send, clients, capVars, todo, chunk, flushed>>

(* write() copies n bytes into the socket's queue.  Done in one step: see  *)
(* NoOverlap.                                                              *)
WriteClient ==
  /\ tpc = "write"
  /\ tpc' = "loop"
  /\ todo' = todo - 1
  /\ chunk' = [i \in 1 .. n |-> buf[i - 1]]
  /\ UNCHANGED <<buf, len, m_send, clients, capVars, n, flushed>>

Reset ==
  /\ tpc = "loop"
  /\ todo = 0
  /\ tpc' = "idle"
  /\ len' = 0
  /\ Flush
  /\ UNCHANGED <<buf, m_send, clients, capVars, todo, n, chunk>>

(* onNewConnection and onDisconnected: slots of the same thread, so never  *)
(* while timerEvent goes through the list.                                 *)
Connect ==
  /\ tpc = "idle"
  /\ clients < MaxClients
  /\ clients' = clients + 1
  /\ UNCHANGED <<buf, len, m_send, capVars, timerVars>>

Disconnect ==
  /\ tpc = "idle"
  /\ clients > 0
  /\ clients' = clients - 1
  /\ UNCHANGED <<buf, len, m_send, capVars, timerVars>>

TimerEvent == CheckLen \/ CheckSend \/ LoadLen \/ WriteClient \/ Reset

Next ==
  \/ AddData \/ AddDataStep \/ EnableSend
  \/ TimerEvent
  \/ Connect \/ Disconnect

Spec == Init /\ [][Next]_vars

(* add_data never waits, and the timer fires every 5 ms for ever. *)
FairSpec == Spec /\ WF_vars(AddDataStep) /\ WF_vars(TimerEvent)

-----------------------------------------------------------------------------
(* Properties. *)

TypeOK ==
  /\ buf \in [0 .. BufBytes - 1 -> Nat]
  /\ len \in Nat
  /\ m_send \in BOOLEAN
  /\ clients \in 0 .. MaxClients
  /\ cpc \in {"idle", "copy", "store", "clamp"}
  /\ frames \in Nat
  /\ off \in Nat
  /\ copied \in 0 .. F
  /\ reg \in Nat
  /\ tpc \in {"idle", "check_send", "loop", "write"}
  /\ todo \in 0 .. MaxClients
  /\ n \in Nat
  /\ chunk \in Seq(Nat)
  /\ flushed \in Nat

(* Whatever the two threads do, memcpy and write() stay inside m_send_buff:*)
(* the slack of BufBytes over Clamp absorbs the one frame by which the     *)
(* length can run ahead before add_data cuts it back.                      *)
InBuffer ==
  /\ cpc = "copy" => off + F <= BufBytes
  /\ tpc = "write" => n <= BufBytes

(* While write() reads the first n bytes of the buffer, memcpy writes      *)
(* behind them, or behind Clamp, in the tail that a later length gives up. *)
(* This is all that protects a client from receiving a frame half copied.  *)
NoOverlap ==
  cpc = "copy" /\ tpc = "write" => off >= n \/ off >= Clamp

(* The addresses of the frames that fit in the buffer below Clamp. *)
Slots == {k * F : k \in 0 .. (Clamp \div F) - 1}

(* A client is sent whole frames from the first byte of every chunk on;    *)
(* only what follows the last slot below Clamp may be a part of a frame.   *)
ChunkWhole ==
  \A a \in Slots :
    a + F <= Len(chunk)
      => \E f \in 1 .. frames : \A i \in 0 .. F - 1 : chunk[a + i + 1] = Byte(f, i)

(* The frames in one chunk are in the order in which they were acquired    *)
(* and none is in it twice, even when the reset of the timer is overtaken  *)
(* by add_data and old frames are sent again.                              *)
ChunkAscending ==
  \A a, b \in Slots :
    a < b /\ b + F <= Len(chunk) => chunk[a + 1] < chunk[b + 1]

(* What a round of the timer sends is newer than all that was handed over   *)
(* before the buffer was last emptied between two calls of add_data, and   *)
(* so than all that was sent in the rounds before that.  Only a round that *)
(* ends while a frame is being added can be followed by one that sends     *)
(* frames again.                                                           *)
RoundsAscend ==
  [][tpc = "write" /\ tpc' # "write" =>
       \A a \in Slots :
         a + F <= Len(chunk') => chunk'[a + 1] > Byte(flushed, F - 1)]_vars

(* Once sending stays enabled, the buffer is emptied again and again. *)
Drains == <>[]m_send => []<>(len = 0)

(* device/tcpserver.h, add_data: data is put in the buffer "to be sent in  *)
(* batches by the timer".  When the timer empties the buffer, all that is  *)
(* in it has been sent to the last client served.                          *)
NothingDiscarded ==
  [][len' = 0 /\ len # 0 /\ clients > 0 => len <= Len(chunk)]_vars

=============================================================================
