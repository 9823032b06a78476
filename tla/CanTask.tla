------------------------------ MODULE CanTask ------------------------------
(***************************************************************************)
(* The CAN side: CanTask of device/cantask.cpp over CanDevice.             *)
(*                                                                         *)
(* Three threads share the object.  The capture thread calls set_data,     *)
(* which converts the words of a sample with their coefficients k and b    *)
(* into m_data, under m_mutex, and enable_send.  The receive thread stores *)
(* the coefficients it gets from the bus and saves all of them in          *)
(* config.ini, without the mutex.  The send thread copies most words of    *)
(* m_data under the mutex, takes the others from the effective value       *)
(* calculators once a second, and sends them in frames of PerFrame words,  *)
(* then the error code.                                                    *)
(*                                                                         *)
(* A sample is its number, 0 for memory nobody has written; a coefficient  *)
(* is the number of the message that brought it, 0 for the first start.    *)
(***************************************************************************)
EXTENDS Integers

CONSTANTS
  Last,        \* the words are 0 .. Last (35); word Last is not converted
  Rms,         \* words sent as effective values (17 .. 31)
  Tunable,     \* words whose coefficients a message can set (0 .. 29)
  PerFrame,    \* words in a CAN frame (4)
  MaxSamples, MaxMessages, MaxKills   \* bounds

Word == 0 .. Last
Scaled == 0 .. Last - 1
Direct == Word \ Rms
Frames == (Last + 1) \div PerFrame

ASSUME CanTaskAssumption ==
  /\ Last \in Nat \ {0} /\ PerFrame \in Nat \ {0}
  /\ (Last + 1) % PerFrame = 0
  /\ Rms \subseteq Scaled /\ Tunable \subseteq Scaled
  /\ MaxSamples \in Nat /\ MaxMessages \in Nat /\ MaxKills \in Nat

VARIABLES
  kb,        \* m_ad_kb
  config,    \* config.ini
  m_data,    \* the converted words, each with the coefficients it was made with
  effect,    \* m_effect_buf: the newest sample in each calculator
  mutex,     \* who holds m_mutex
  m_send,    \* the send enable
  cpc,       \* capture thread: "idle", "loadK", "storeWord" or "effects"
  cw,        \* the word it is at
  ck,        \* the k it has loaded
  samples,   \* samples handed to set_data
  atStart,   \* history: kb when the last set_data began
  rpc,       \* receive thread: "idle", "storeB" or "save"
  msg,       \* the message it handles: word and number
  messages,  \* messages received
  spc,       \* send thread: "lock", "copy", "clock", "rms", "frames" or "err"
  sw,        \* the word or the frame it is at
  send_buf,  \* its copy of the words: the sample each belongs to
  out,       \* the data frames sent in this round
  kills      \* how often the process has died

capture == <<cpc, cw, ck, samples, atStart>>
receive == <<rpc, msg, messages>>
sender == <<spc, sw, send_buf, out>>
vars == <<kb, config, m_data, effect, mutex, m_send, capture, receive, sender,
          kills>>

Pair(v) == [k |-> v, b |-> v]
Garbage == [of |-> 0, k |-> 0, b |-> 0]

(* The constructor: load_kb, then the threads; m_data and send_buf hold    *)
(* whatever the memory held.                                               *)
Init ==
  /\ config = [w \in Scaled |-> Pair(0)]
  /\ kb = config
  /\ m_data = [w \in Word |-> Garbage]
  /\ effect = [w \in Rms |-> 0]
  /\ mutex = "free" /\ m_send = FALSE
  /\ cpc = "idle" /\ cw = 0 /\ ck = 0 /\ samples = 0 /\ atStart = kb
  /\ rpc = "idle" /\ msg = [word |-> 0, number |-> 0] /\ messages = 0
  /\ spc = "lock" /\ sw = 0 /\ send_buf = [w \in Word |-> 0] /\ out = {}
  /\ kills = 0

-----------------------------------------------------------------------------
(* set_data and enable_send, in the capture thread. *)

SetBegin ==
  /\ cpc = "idle" /\ samples < MaxSamples
  /\ mutex = "free"
  /\ mutex' = "capture"
  /\ samples' = samples + 1
  /\ atStart' = kb
  /\ cw' = 0
  /\ cpc' = "loadK"
  /\ UNCHANGED <<kb, config, m_data, effect, m_send, ck, receive, sender, kills>>

(* A plausible mistake: the coefficients come from the file. *)
LoadSavedK ==
  /\ cpc = "loadK"
  /\ ck' = config[cw].k
  /\ cpc' = "storeWord"
  /\ UNCHANGED <<kb, config, m_data, effect, mutex, m_send, cw, samples, atStart,
                 receive, sender, kills>>

(* The first factor of data[i] * k + b. *)
LoadK ==
  /\ cpc = "loadK"
  /\ ck' = kb[cw].k
  /\ cpc' = "storeWord"
  /\ UNCHANGED <<kb, config, m_data, effect, mutex, m_send, cw, samples, atStart,
                 receive, sender, kills>>

(* b is loaded, and the word stored; after the last converted word, the    *)
(* last word as it is, and unlock.                                         *)
StoreWord ==
  /\ cpc = "storeWord"
  /\ LET word == [of |-> samples, k |-> ck, b |-> kb[cw].b]
     IN  IF cw < Last - 1
         THEN /\ m_data' = [m_data EXCEPT ![cw] = word]
              /\ cpc' = "loadK"
              /\ UNCHANGED mutex
         ELSE /\ m_data' = [m_data EXCEPT ![cw] = word,
                              ![Last] = [of |-> samples, k |-> 0, b |-> 0]]
              /\ cpc' = "effects"
              /\ mutex' = "free"
  /\ cw' = cw + 1
  /\ UNCHANGED <<kb, config, effect, m_send, ck, samples, atStart, receive,
                 sender, kills>>

(* add_data of each calculator, which has a mutex of its own. *)
AddEffect ==
  /\ cpc = "effects"
  /\ IF \E w \in Rms : effect[w] # samples
     THEN /\ \E w \in Rms :
               /\ effect[w] # samples
               /\ \A v \in Rms : effect[v] # samples => w <= v
               /\ effect' = [effect EXCEPT ![w] = m_data[w].of]
          /\ UNCHANGED cpc
     ELSE cpc' = "idle" /\ UNCHANGED effect
  /\ UNCHANGED <<kb, config, m_data, mutex, m_send, cw, ck, samples, atStart,
                 receive, sender, kills>>

EnableSend ==
  /\ cpc = "idle"
  /\ m_send' = ~m_send
  /\ UNCHANGED <<kb, config, m_data, effect, mutex, capture, receive, sender,
                 kills>>

-----------------------------------------------------------------------------
(* thread_recv_func. *)

(* can_read: a message with the coefficients of word w.  After a failed or *)
(* a short read it is what the memory held, and counts like any other.     *)
CanRead(w) ==
  /\ messages' = messages + 1
  /\ msg' = [word |-> w, number |-> messages']

(* A plausible mistake: save_kb is called once for each coefficient.       *)
StoreKAndSave ==
  /\ rpc = "idle" /\ messages < MaxMessages
  /\ \E w \in Tunable : CanRead(w) /\ kb' = [kb EXCEPT ![w].k = messages']
  /\ config' = kb'
  /\ rpc' = "storeB"
  /\ UNCHANGED <<m_data, effect, mutex, m_send, capture, sender, kills>>

(* A message has come, and its k is stored. *)
StoreK ==
  /\ rpc = "idle" /\ messages < MaxMessages
  /\ \E w \in Tunable : CanRead(w) /\ kb' = [kb EXCEPT ![w].k = messages']
  /\ rpc' = "storeB"
  /\ UNCHANGED <<config, m_data, effect, mutex, m_send, capture, sender, kills>>

StoreB ==
  /\ rpc = "storeB"
  /\ kb' = [kb EXCEPT ![msg.word].b = msg.number]
  /\ rpc' = "save"
  /\ UNCHANGED <<config, m_data, effect, mutex, m_send, msg, messages, capture,
                 sender, kills>>

SaveKb ==
  /\ rpc = "save"
  /\ config' = kb
  /\ rpc' = "idle"
  /\ UNCHANGED <<kb, m_data, effect, mutex, m_send, msg, messages, capture,
                 sender, kills>>

-----------------------------------------------------------------------------
(* thread_send_func. *)

(* Plausible mistakes: the copy is made without the mutex; the words of    *)
(* effective value are copied with the others.                             *)
CopyUnlocked ==
  /\ spc = "lock"
  /\ out' = {} /\ sw' = 0
  /\ spc' = "copy"
  /\ UNCHANGED <<kb, config, m_data, effect, mutex, m_send, send_buf, capture,
                 receive, kills>>

SendLock ==
  /\ spc = "lock"
  /\ mutex = "free"
  /\ mutex' = "send"
  /\ out' = {} /\ sw' = 0
  /\ spc' = "copy"
  /\ UNCHANGED <<kb, config, m_data, effect, m_send, send_buf, capture, receive,
                 kills>>

CopyAnyWord ==
  /\ spc = "copy"
  /\ send_buf' = [send_buf EXCEPT ![sw] = m_data[sw].of]
  /\ IF sw < Last
     THEN sw' = sw + 1 /\ UNCHANGED <<mutex, spc>>
     ELSE sw' = 0 /\ mutex' = "free" /\ spc' = "clock"
  /\ UNCHANGED <<kb, config, m_data, effect, m_send, out, capture, receive, kills>>

(* The direct words one after the other, and unlock. *)
CopyWord ==
  /\ spc = "copy"
  /\ send_buf' = IF sw \in Direct
                 THEN [send_buf EXCEPT ![sw] = m_data[sw].of] ELSE send_buf
  /\ IF sw < Last
     THEN sw' = sw + 1 /\ UNCHANGED <<mutex, spc>>
     ELSE sw' = 0 /\ mutex' = "free" /\ spc' = "clock"
  /\ UNCHANGED <<kb, config, m_data, effect, m_send, out, capture, receive, kills>>

(* Has the process used another second of processor time? *)
Clock ==
  /\ spc = "clock"
  /\ spc' \in {"rms", "frames"}
  /\ UNCHANGED <<kb, config, m_data, effect, mutex, m_send, sw, send_buf, out,
                 capture, receive, kills>>

(* calc_effect_value of each calculator in turn. *)
TakeRms ==
  /\ spc = "rms"
  /\ send_buf' = IF sw \in Rms THEN [send_buf EXCEPT ![sw] = effect[sw]]
                               ELSE send_buf
  /\ IF sw < Last THEN sw' = sw + 1 /\ UNCHANGED spc
                  ELSE sw' = 0 /\ spc' = "frames"
  /\ UNCHANGED <<kb, config, m_data, effect, mutex, m_send, out, capture, receive,
                 kills>>

(* can_write: that a write has failed, nobody notices. *)
CanWrite(frame) == out' \in {out, out \cup {frame}}

(* m_send is looked at again for every frame. *)
SendFrame ==
  /\ spc = "frames"
  /\ IF m_send THEN CanWrite(sw) ELSE UNCHANGED out
  /\ IF sw < Frames - 1 THEN sw' = sw + 1 /\ UNCHANGED spc
                        ELSE sw' = 0 /\ spc' = "err"
  /\ UNCHANGED <<kb, config, m_data, effect, mutex, m_send, send_buf, capture,
                 receive, kills>>

(* The error code is sent whether sending is enabled or not. *)
SendErr ==
  /\ spc = "err"
  /\ spc' = "lock"
  /\ UNCHANGED <<kb, config, m_data, effect, mutex, m_send, sw, send_buf, out,
                 capture, receive, kills>>

-----------------------------------------------------------------------------
(* The process dies and starts again, with what is in config.ini. *)

Kill ==
  /\ kills < MaxKills
  /\ kills' = kills + 1
  /\ kb' = config
  /\ m_data' = [w \in Word |-> Garbage]
  /\ effect' = [w \in Rms |-> 0]
  /\ mutex' = "free" /\ m_send' = FALSE
  /\ cpc' = "idle" /\ cw' = 0 /\ ck' = 0 /\ atStart' = config
  /\ rpc' = "idle" /\ msg' = [word |-> 0, number |-> 0]
  /\ spc' = "lock" /\ sw' = 0 /\ send_buf' = [w \in Word |-> 0] /\ out' = {}
  /\ UNCHANGED <<config, samples, messages>>

Next ==
  \/ SetBegin \/ LoadK \/ StoreWord \/ AddEffect \/ EnableSend
  \/ StoreK \/ StoreB \/ SaveKb
  \/ SendLock \/ CopyWord \/ Clock \/ TakeRms \/ SendFrame \/ SendErr
  \/ Kill

Spec == Init /\ [][Next]_vars

-----------------------------------------------------------------------------
(* Properties. *)

Coefficients == [k : Nat, b : Nat]

TypeOK ==
  /\ kb \in [Scaled -> Coefficients] /\ config \in [Scaled -> Coefficients]
  /\ m_data \in [Word -> [of : Nat, k : Nat, b : Nat]]
  /\ effect \in [Rms -> Nat]
  /\ mutex \in {"free", "capture", "send"} /\ m_send \in BOOLEAN
  /\ cpc \in {"idle", "loadK", "storeWord", "effects"}
  /\ cw \in Word /\ ck \in Nat /\ samples \in Nat
  /\ cpc \in {"loadK", "storeWord"} <=> mutex = "capture"
  /\ atStart \in [Scaled -> Coefficients]
  /\ rpc \in {"idle", "storeB", "save"}
  /\ msg \in [word : Scaled, number : Nat] /\ messages \in Nat
  /\ spc \in {"lock", "copy", "clock", "rms", "frames", "err"}
  /\ spc = "copy" <=> mutex = "send"
  /\ sw \in Word
  /\ send_buf \in [Word -> Nat]
  /\ out \subseteq 0 .. Frames - 1
  /\ kills \in Nat

(* The frames of a round carry, in all the words that are not effective    *)
(* values, one and the same sample (or all of them none yet).              *)
OneSample ==
  spc \notin {"lock", "copy"} =>
    \A v, w \in Direct : send_buf[v] = send_buf[w]

(* Coefficients that reach config.ini reach it in pairs: whenever the      *)
(* process dies and whatever it was doing, the k and the b that the next   *)
(* start loads for a word came in one message.                             *)
ConfigPaired == \A w \in Scaled : config[w].k = config[w].b

(* A message takes effect from the next sample on: a word was converted    *)
(* with coefficients at least as new as those in force when its set_data   *)
(* began, and none that have not arrived.                                  *)
Prompt ==
  \A w \in Scaled :
    LET d == m_data[w]
    IN  d.of = samples /\ samples > 0 /\ d # Garbage =>
          /\ atStart[w].k <= d.k /\ d.k <= kb[w].k
          /\ atStart[w].b <= d.b /\ d.b <= kb[w].b

(* What is sent for a word never goes back to an earlier sample, be it     *)
(* taken from m_data or from a calculator, until the process dies.         *)
Onward ==
  [][kills' = kills => \A w \in Word : send_buf'[w] >= send_buf[w]]_vars

(* Word for word as set_data stores a sample and the send thread copies it, *)
(* m_data is a register of whole samples (but for the effective values).   *)
(* It holds a sample when its last word is stored, and a sample is taken   *)
(* when its last word is copied: until then the last word of the copy is   *)
(* still of the sample taken before, and so were all the others.           *)
Taken(w) == send_buf[IF spc \in {"lock", "copy"} THEN Last ELSE w]

Register == INSTANCE SampleRegister WITH
  Words <- Direct, made <- samples, held <- m_data[Last].of,
  shown <- [w \in Direct |-> Taken(w)]

(* What a round sends is the newest sample stored when it was copied, in   *)
(* all its words: copying and converting look like one step each.          *)
CopiesAtomically == Register!Spec

(* cantask.h:17-32 and 51: the interface is safe for several threads, and  *)
(* a word is the raw value times its k plus its b.  So the k and the b of  *)
(* a converted word would come from one message.                           *)
WordPaired == \A w \in Scaled : m_data[w].k = m_data[w].b
=============================================================================
