--------------------------- MODULE CanTaskProofs ---------------------------
(* Proofs about the CAN side, for every number of words, every division    *)
(* of them into frames, and any number of samples, messages and deaths.    *)
EXTENDS CanTask, TLAPS

(* Where the loops over the words are. *)
Indices ==
  /\ cpc \in {"loadK", "storeWord"} => cw \in Scaled
  /\ spc = "clock" => sw = 0
  /\ spc = "frames" => sw \in 0 .. Frames - 1

TypeInv == TypeOK /\ Indices

(* Only the word whose b is about to be stored is not a pair. *)
KbInv ==
  /\ \A w \in Scaled : /\ kb[w].k <= messages /\ kb[w].b <= messages
                       /\ config[w].k <= messages /\ config[w].b <= messages
  /\ rpc = "storeB" => msg.number = messages /\ kb[msg.word].k = messages
  /\ \A w \in Scaled : (rpc = "storeB" /\ w = msg.word) \/ kb[w].k = kb[w].b
  /\ ConfigPaired

(* Coefficients only grow newer while the process lives. *)
PromptInv ==
  /\ \A w \in Scaled : atStart[w].k <= kb[w].k /\ atStart[w].b <= kb[w].b
  /\ cpc = "storeWord" => atStart[cw].k <= ck /\ ck <= kb[cw].k
  /\ Prompt

(* Outside set_data all words are of one sample; the send thread copies    *)
(* while nobody writes, and nothing it has copied is newer than its source.*)
SampleInv ==
  /\ \A w \in Word : m_data[w].of <= samples
  /\ mutex # "capture" => \A v, w \in Word : m_data[v].of = m_data[w].of
  /\ mutex = "capture" => \A w \in Word : w < cw => m_data[w].of = samples
  /\ spc = "copy" => \A w \in Direct : w < sw => send_buf[w] = m_data[w].of
  /\ OneSample
  /\ \A w \in Direct : send_buf[w] <= m_data[w].of
  /\ \A w \in Rms : send_buf[w] <= effect[w] /\ effect[w] <= m_data[w].of

-----------------------------------------------------------------------------
(* Types. *)

LEMMA FramesFact == Frames \in Nat /\ 1 <= Frames /\ Frames <= Last + 1
<1> USE CanTaskAssumption
<1> DEFINE L == Last + 1
           q == L \div PerFrame
<1>1. L \in Nat /\ L > 0 /\ PerFrame \in Nat \ {0} /\ L % PerFrame = 0
  OBVIOUS
<1> HIDE DEF L
<1>2. q \in Int /\ L = PerFrame * q + (L % PerFrame)
  BY <1>1
<1> HIDE DEF q
<1>3. L = PerFrame * q
  BY <1>1, <1>2
<1>4. q > 0
  BY <1>1, <1>2, <1>3
<1>5. q <= PerFrame * q
  BY <1>1, <1>2, <1>4
<1> QED
  BY <1>2, <1>3, <1>4, <1>5 DEF Frames, q, L

LEMMA WordFacts ==
  /\ Scaled \subseteq Word /\ Rms \subseteq Word /\ Tunable \subseteq Scaled
  /\ 0 \in Scaled /\ 0 \in Word /\ Last \in Word /\ Last \notin Scaled
  /\ 0 .. Frames - 1 \subseteq Word /\ 0 \in 0 .. Frames - 1
  /\ Direct \subseteq Word
BY CanTaskAssumption, FramesFact DEF Word, Scaled, Direct

LEMMA TypeInit == Init => TypeInv
<1> SUFFICES ASSUME Init
             PROVE  TypeInv
  OBVIOUS
<1>1. config \in [Scaled -> Coefficients] /\ kb \in [Scaled -> Coefficients]
      /\ atStart \in [Scaled -> Coefficients]
  BY DEF Init, Pair, Coefficients
<1>2. m_data \in [Word -> [of : Nat, k : Nat, b : Nat]]
  BY DEF Init, Garbage
<1>3. effect \in [Rms -> Nat] /\ send_buf \in [Word -> Nat]
  BY DEF Init
<1>4. cw \in Word /\ sw \in Word
  BY WordFacts DEF Init
<1>5. msg \in [word : Scaled, number : Nat]
  BY WordFacts DEF Init
<1>6. cpc = "idle" /\ rpc = "idle" /\ spc = "lock" /\ mutex = "free"
  BY DEF Init
<1>7. m_send \in BOOLEAN /\ ck \in Nat /\ samples \in Nat /\ messages \in Nat
      /\ out \subseteq 0 .. Frames - 1 /\ kills \in Nat
  BY DEF Init
<1>8. TypeOK
  BY <1>1, <1>2, <1>3, <1>4, <1>5, <1>6, <1>7 DEF TypeOK
<1> QED
  BY <1>6, <1>8 DEF TypeInv, Indices

LEMMA TypeNext == TypeInv /\ [Next]_vars => TypeInv'
<1> SUFFICES ASSUME TypeInv, [Next]_vars
             PROVE  TypeInv'
  OBVIOUS
<1> USE WordFacts
<1> USE DEF TypeInv, TypeOK, Indices, capture, receive, sender
<1>1. CASE SetBegin
  BY <1>1 DEF SetBegin
<1>2. CASE LoadK
  <2>1. kb[cw].k \in Nat
    BY <1>2 DEF LoadK, Coefficients
  <2> QED
    BY <1>2, <2>1 DEF LoadK
<1>3. CASE StoreWord
  <2>1. kb[cw].b \in Nat /\ cw \in Word
    BY <1>3 DEF StoreWord, Coefficients
  <2>2. m_data' \in [Word -> [of : Nat, k : Nat, b : Nat]]
    <3> DEFINE word == [of |-> samples, k |-> ck, b |-> kb[cw].b]
               raw == [of |-> samples, k |-> 0, b |-> 0]
    <3>1. word \in [of : Nat, k : Nat, b : Nat] /\ raw \in [of : Nat, k : Nat, b : Nat]
      BY <2>1
    <3>2. \/ m_data' = [m_data EXCEPT ![cw] = word]
          \/ m_data' = [m_data EXCEPT ![cw] = word, ![Last] = raw]
      BY <1>3 DEF StoreWord
    <3> HIDE DEF word, raw
    <3> QED
      BY <2>1, <3>1, <3>2
  <2>3. cw' \in Word /\ (cw < Last - 1 => cw' \in Scaled)
    <3>1. cw' = cw + 1
      BY <1>3 DEF StoreWord
    <3>2. cw \in 0 .. Last - 1
      BY <1>3 DEF StoreWord, Scaled
    <3> QED
      BY <3>1, <3>2, CanTaskAssumption DEF Scaled, Word
  <2> QED
    BY <1>3, <2>2, <2>3 DEF StoreWord
<1>4. CASE AddEffect
  <2>1. effect' \in [Rms -> Nat]
    BY <1>4 DEF AddEffect
  <2> QED
    BY <1>4, <2>1 DEF AddEffect
<1>5. CASE EnableSend
  BY <1>5 DEF EnableSend
<1>6. CASE StoreK
  <2>1. messages' \in Nat
    BY <1>6 DEF StoreK, CanRead
  <2>2. PICK w \in Tunable : /\ msg' = [word |-> w, number |-> messages']
                             /\ kb' = [kb EXCEPT ![w].k = messages']
    BY <1>6 DEF StoreK, CanRead
  <2>3. w \in Scaled
    OBVIOUS
  <2>4. msg' \in [word : Scaled, number : Nat]
    BY <2>1, <2>2, <2>3
  <2>5. kb' \in [Scaled -> Coefficients]
    BY <2>1, <2>2, <2>3 DEF Coefficients
  <2> QED
    BY <1>6, <2>1, <2>4, <2>5 DEF StoreK, CanRead
<1>7. CASE StoreB
  <2>1. /\ kb \in [Scaled -> Coefficients]
        /\ msg.word \in Scaled /\ msg.number \in Nat
        /\ kb' = [kb EXCEPT ![msg.word].b = msg.number]
    BY <1>7 DEF StoreB
  <2>2. kb' \in [Scaled -> Coefficients]
    BY ONLY <2>1 DEF Coefficients
  <2> QED
    BY <1>7, <2>2 DEF StoreB
<1>8. CASE SaveKb
  BY <1>8 DEF SaveKb
<1>9. CASE SendLock
  BY <1>9 DEF SendLock
<1>10. CASE CopyWord
  <2>1. send_buf' \in [Word -> Nat]
    BY <1>10 DEF CopyWord
  <2>2. sw' \in Word
    <3>1. sw' = IF sw < Last THEN sw + 1 ELSE 0
      BY <1>10 DEF CopyWord
    <3>2. sw \in 0 .. Last
      BY DEF Word
    <3> QED
      BY <3>1, <3>2, CanTaskAssumption DEF Word
  <2> QED
    BY <1>10, <2>1, <2>2 DEF CopyWord
<1>11. CASE Clock
  BY <1>11 DEF Clock
<1>12. CASE TakeRms
  <2>1. send_buf' \in [Word -> Nat]
    BY <1>12 DEF TakeRms
  <2>2. sw' \in Word
    <3>1. sw' = IF sw < Last THEN sw + 1 ELSE 0
      BY <1>12 DEF TakeRms
    <3>2. sw \in 0 .. Last
      BY DEF Word
    <3> QED
      BY <3>1, <3>2, CanTaskAssumption DEF Word
  <2> QED
    BY <1>12, <2>1, <2>2 DEF TakeRms
<1>13. CASE SendFrame
  <2>1. out' \subseteq 0 .. Frames - 1
    BY <1>13 DEF SendFrame, CanWrite
  <2>2. sw' \in 0 .. Frames - 1
    BY <1>13, FramesFact DEF SendFrame
  <2> QED
    BY <1>13, <2>1, <2>2 DEF SendFrame
<1>14. CASE SendErr
  BY <1>14 DEF SendErr
<1>15. CASE Kill
  <2>1. /\ m_data' \in [Word -> [of : Nat, k : Nat, b : Nat]]
        /\ effect' \in [Rms -> Nat] /\ send_buf' \in [Word -> Nat]
    BY <1>15 DEF Kill, Garbage
  <2>2. msg' \in [word : Scaled, number : Nat]
    BY <1>15 DEF Kill
  <2>3. /\ kb' \in [Scaled -> Coefficients] /\ config' \in [Scaled -> Coefficients]
        /\ atStart' \in [Scaled -> Coefficients]
    BY <1>15 DEF Kill
  <2>4. /\ cpc' = "idle" /\ rpc' = "idle" /\ spc' = "lock" /\ mutex' = "free"
        /\ cw' \in Word /\ sw' \in Word
    BY <1>15 DEF Kill
  <2>5. m_send' \in BOOLEAN
    BY <1>15 DEF Kill
  <2>6. /\ ck' \in Nat /\ samples' \in Nat /\ messages' \in Nat
    BY <1>15 DEF Kill
  <2>7. kills' \in Nat
    BY <1>15 DEF Kill
  <2>8. out' \subseteq 0 .. Frames - 1
    BY <1>15 DEF Kill
  <2> QED
    BY <2>1, <2>2, <2>3, <2>4, <2>5, <2>6, <2>7, <2>8
<1>16. CASE UNCHANGED vars
  BY <1>16 DEF vars
<1> QED
  BY <1>1, <1>2, <1>3, <1>4, <1>5, <1>6, <1>7, <1>8, <1>9, <1>10, <1>11, <1>12,
     <1>13, <1>14, <1>15, <1>16 DEF Next

LEMMA TypeInvariant == Spec => []TypeInv
<1>1. Init => TypeInv
  BY TypeInit
<1>2. TypeInv /\ [Next]_vars => TypeInv'
  BY TypeNext
<1> QED
  BY <1>1, <1>2, PTL DEF Spec

(* The types of what the three threads share, and who holds m_mutex where. *)
THEOREM TypeCorrect == Spec => []TypeOK
<1>1. TypeInv => TypeOK
  BY DEF TypeInv
<1> QED
  BY <1>1, TypeInvariant, PTL

-----------------------------------------------------------------------------
(* Coefficients. *)

LEMMA KbInit == Init => KbInv /\ PromptInv
<1> SUFFICES ASSUME Init
             PROVE  KbInv /\ PromptInv
  OBVIOUS
<1>1. /\ \A w \in Scaled : kb[w].k = 0 /\ kb[w].b = 0 /\ config[w].k = 0
                          /\ config[w].b = 0 /\ atStart[w].k = 0 /\ atStart[w].b = 0
      /\ messages = 0 /\ rpc = "idle" /\ cpc = "idle" /\ samples = 0
  BY DEF Init, Pair
<1> QED
  BY <1>1 DEF KbInv, PromptInv, ConfigPaired, Prompt

(* What a coefficient is made of. *)
LEMMA KbTypes ==
  ASSUME TypeInv, NEW w \in Scaled
  PROVE  /\ kb[w].k \in Nat /\ kb[w].b \in Nat
         /\ config[w].k \in Nat /\ config[w].b \in Nat
         /\ atStart[w].k \in Nat /\ atStart[w].b \in Nat
         /\ m_data[w].of \in Nat /\ m_data[w].k \in Nat /\ m_data[w].b \in Nat
BY WordFacts DEF TypeInv, TypeOK, Coefficients

LEMMA KbNext == TypeInv /\ KbInv /\ [Next]_vars => KbInv'
<1> SUFFICES ASSUME TypeInv, KbInv, [Next]_vars
             PROVE  KbInv'
  OBVIOUS
<1> USE DEF KbInv, ConfigPaired
<1>1. /\ kb \in [Scaled -> Coefficients] /\ config \in [Scaled -> Coefficients]
      /\ messages \in Nat /\ msg.word \in Scaled /\ msg.number \in Nat
  BY DEF TypeInv, TypeOK
<1>2. \A w \in Scaled : /\ kb[w].k \in Nat /\ kb[w].b \in Nat
                        /\ config[w].k \in Nat /\ config[w].b \in Nat
  BY KbTypes
<1>3. CASE StoreK
  <2>1. PICK v \in Tunable : /\ msg' = [word |-> v, number |-> messages']
                             /\ kb' = [kb EXCEPT ![v].k = messages']
    BY <1>3 DEF StoreK, CanRead
  <2>2. /\ v \in Scaled /\ rpc = "idle" /\ rpc' = "storeB"
        /\ messages' = messages + 1 /\ config' = config
    BY <1>3, WordFacts DEF StoreK, CanRead
  <2>3. kb'[v].k = messages' /\ kb'[v].b = kb[v].b
    BY <1>1, <2>1, <2>2 DEF Coefficients
  <2>4. \A w \in Scaled : w # v => kb'[w] = kb[w]
    BY <1>1, <2>1, <2>2
  <2>5. msg'.word = v /\ msg'.number = messages'
    BY <2>1
  <2> QED
    BY <1>1, <1>2, <2>2, <2>3, <2>4, <2>5
<1>4. CASE StoreB
  <2>1. /\ kb' = [kb EXCEPT ![msg.word].b = msg.number]
        /\ rpc = "storeB" /\ rpc' = "save" /\ messages' = messages /\ config' = config
    BY <1>4 DEF StoreB
  <2>2. kb'[msg.word].b = msg.number /\ kb'[msg.word].k = kb[msg.word].k
    BY <1>1, <2>1 DEF Coefficients
  <2>3. \A w \in Scaled : w # msg.word => kb'[w] = kb[w]
    BY <1>1, <2>1
  <2> QED
    BY <1>1, <1>2, <2>1, <2>2, <2>3
<1>5. CASE SaveKb
  <2>1. /\ config' = kb /\ kb' = kb /\ rpc = "save" /\ rpc' = "idle"
        /\ messages' = messages
    BY <1>5 DEF SaveKb
  <2> QED
    BY <2>1
<1>6. CASE Kill
  <2>1. kb' = config /\ config' = config /\ rpc' = "idle" /\ messages' = messages
    BY <1>6 DEF Kill
  <2> QED
    BY <2>1
<1>7. CASE \/ SetBegin \/ LoadK \/ StoreWord \/ AddEffect \/ EnableSend
           \/ SendLock \/ CopyWord \/ Clock \/ TakeRms \/ SendFrame \/ SendErr
           \/ UNCHANGED vars
  <2>1. UNCHANGED <<kb, config, rpc, msg, messages>>
    BY <1>7 DEF SetBegin, LoadK, StoreWord, AddEffect, EnableSend, SendLock, CopyWord,
                Clock, TakeRms, SendFrame, SendErr, vars, receive
  <2> QED
    BY <2>1
<1> QED
  BY <1>3, <1>4, <1>5, <1>6, <1>7 DEF Next

LEMMA KbInvariant == Spec => [](TypeInv /\ KbInv)
<1>1. Init => KbInv
  BY KbInit
<1>2. TypeInv /\ KbInv /\ [Next]_vars => KbInv'
  BY KbNext
<1> QED
  BY <1>1, <1>2, TypeInvariant, PTL DEF Spec

(* Whenever the process dies, config.ini holds for every word a k and a b  *)
(* that came in one message.                                               *)
THEOREM SavesPairs == Spec => []ConfigPaired
<1>1. KbInv => ConfigPaired
  BY DEF KbInv
<1> QED
  BY <1>1, KbInvariant, PTL

-----------------------------------------------------------------------------
(* Samples. *)

(* What the numbers of samples are. *)
LEMMA SampleTypes ==
  ASSUME TypeInv
  PROVE  /\ samples \in Nat /\ cw \in 0 .. Last /\ sw \in 0 .. Last
         /\ \A w \in Word : m_data[w].of \in Nat /\ send_buf[w] \in Nat
         /\ \A w \in Rms : effect[w] \in Nat
         /\ m_data \in [Word -> [of : Nat, k : Nat, b : Nat]]
         /\ effect \in [Rms -> Nat] /\ send_buf \in [Word -> Nat]
         /\ (cpc = "storeWord" => cw \in 0 .. Last - 1)
         /\ (cpc \in {"loadK", "storeWord"} <=> mutex = "capture")
         /\ (spc = "copy" <=> mutex = "send")
BY DEF TypeInv, TypeOK, Indices, Word, Scaled

LEMMA SampleInit == Init => SampleInv
<1> SUFFICES ASSUME Init
             PROVE  SampleInv
  OBVIOUS
<1>1. /\ \A w \in Word : m_data[w].of = 0 /\ send_buf[w] = 0
      /\ \A w \in Rms : effect[w] = 0
      /\ samples = 0 /\ mutex = "free" /\ spc = "lock"
  BY DEF Init, Garbage
<1> QED
  BY <1>1, WordFacts DEF SampleInv, OneSample

(* A step of set_data writes nothing older, and releases the mutex only    *)
(* when all words are written.                                             *)
LEMMA StoreWordKeeps == TypeInv /\ SampleInv /\ StoreWord => SampleInv'
<1> SUFFICES ASSUME TypeInv, SampleInv, StoreWord
             PROVE  SampleInv'
  OBVIOUS
<1>1. /\ cpc = "storeWord" /\ cw' = cw + 1 /\ cw \in 0 .. Last - 1 /\ cw \in Word
      /\ mutex = "capture" /\ spc # "copy"
      /\ UNCHANGED <<effect, samples, spc, sw, send_buf>>
  BY SampleTypes, WordFacts DEF StoreWord, sender, TypeInv, TypeOK
<1>2. CASE cw < Last - 1
  <2>1. /\ m_data' = [m_data EXCEPT ![cw] = [of |-> samples, k |-> ck, b |-> kb[cw].b]]
        /\ mutex' = mutex
    BY <1>1, <1>2 DEF StoreWord
  <2>2. m_data'[cw].of = samples
    BY <1>1, <2>1, SampleTypes
  <2>3. \A w \in Word : w # cw => m_data'[w] = m_data[w]
    BY <1>1, <2>1, SampleTypes
  <2>4. \A w \in Word : m_data'[w].of <= samples /\ m_data[w].of <= m_data'[w].of
    BY <2>2, <2>3, SampleTypes DEF SampleInv
  <2>5. \A w \in Word : w < cw + 1 => m_data'[w].of = samples
    <3> SUFFICES ASSUME NEW w \in Word, w < cw + 1
                 PROVE  m_data'[w].of = samples
      OBVIOUS
    <3>1. w < cw \/ w = cw
      BY <1>1, CanTaskAssumption DEF Word
    <3> QED
      BY <1>1, <2>2, <2>3, <3>1 DEF SampleInv
  <2>6. /\ \A w \in Direct : send_buf[w] <= m_data'[w].of
        /\ \A w \in Rms : effect[w] <= m_data'[w].of
    <3>1. \A w \in Word : m_data'[w].of \in Nat
      BY <1>1, <2>2, <2>3, SampleTypes
    <3> QED
      BY <2>4, <3>1, SampleTypes, WordFacts DEF SampleInv
  <2> QED
    BY <1>1, <2>1, <2>4, <2>5, <2>6, WordFacts DEF SampleInv, OneSample
<1>3. CASE ~(cw < Last - 1)
  <2>1. /\ m_data' = [m_data EXCEPT ![cw] = [of |-> samples, k |-> ck, b |-> kb[cw].b],
                        ![Last] = [of |-> samples, k |-> 0, b |-> 0]]
        /\ mutex' = "free"
    BY <1>1, <1>3 DEF StoreWord
  <2>2. cw = Last - 1 /\ cw # Last /\ Last \in Word
    BY <1>1, <1>3, CanTaskAssumption, WordFacts
  <2>3. m_data'[cw].of = samples /\ m_data'[Last].of = samples
    BY <1>1, <2>1, <2>2, SampleTypes
  <2>4. \A w \in Word : w # cw /\ w # Last => m_data'[w] = m_data[w]
    BY <1>1, <2>1, <2>2, SampleTypes
  <2>5. \A w \in Word : m_data'[w].of = samples
    <3> SUFFICES ASSUME NEW w \in Word, w # cw, w # Last
                 PROVE  m_data'[w].of = samples
      BY <2>3
    <3>1. w < cw
      BY <2>2, CanTaskAssumption DEF Word
    <3> QED
      BY <1>1, <2>4, <3>1 DEF SampleInv
  <2>6. \A w \in Word : m_data[w].of <= samples
    BY DEF SampleInv
  <2>7. /\ \A w \in Direct : send_buf[w] <= samples
        /\ \A w \in Rms : effect[w] <= samples
    BY <2>6, SampleTypes, WordFacts DEF SampleInv
  <2>8. OneSample'
    BY <1>1 DEF SampleInv, OneSample
  <2>9. \A w \in Word : m_data'[w].of <= samples
    BY <2>5, SampleTypes
  <2>10. /\ \A w \in Direct : send_buf[w] <= m_data'[w].of
         /\ \A w \in Rms : effect[w] <= m_data'[w].of /\ send_buf[w] <= effect[w]
    BY <2>5, <2>7, WordFacts DEF SampleInv
  <2>11. \A v, w \in Word : m_data'[v].of = m_data'[w].of
    BY <2>5
  <2> QED
    BY <1>1, <2>1, <2>8, <2>9, <2>10, <2>11 DEF SampleInv
<1> QED
  BY <1>2, <1>3

(* The send thread copies words of one sample, since it holds the mutex.   *)
LEMMA CopyWordKeeps == TypeInv /\ SampleInv /\ CopyWord => SampleInv'
<1> SUFFICES ASSUME TypeInv, SampleInv, CopyWord
             PROVE  SampleInv'
  OBVIOUS
<1>1. /\ spc = "copy" /\ mutex = "send" /\ sw \in 0 .. Last
      /\ mutex' # "capture"
      /\ UNCHANGED <<effect, samples, m_data>>
  BY SampleTypes DEF CopyWord, capture
<1>2. \A v, w \in Word : m_data[v].of = m_data[w].of
  BY <1>1 DEF SampleInv
<1>3. \A w \in Direct : send_buf'[w] = IF w = sw THEN m_data[w].of ELSE send_buf[w]
  BY WordFacts, SampleTypes DEF CopyWord
<1>4. \A w \in Rms : send_buf'[w] = send_buf[w]
  BY WordFacts, SampleTypes DEF CopyWord, Direct
<1>5. \A w \in Direct : w < sw + 1 => send_buf'[w] = m_data[w].of
  <2> SUFFICES ASSUME NEW w \in Direct, w < sw + 1, w # sw
               PROVE  send_buf[w] = m_data[w].of
    BY <1>3
  <2>1. w < sw
    BY <1>1, CanTaskAssumption DEF Direct, Word
  <2> QED
    BY <1>1, <2>1 DEF SampleInv
<1>6. \A w \in Direct : send_buf'[w] <= m_data[w].of
  BY <1>3, SampleTypes, WordFacts DEF SampleInv
<1>7. CASE sw < Last
  <2>1. sw' = sw + 1 /\ spc' = "copy"
    BY <1>1, <1>7 DEF CopyWord
  <2> QED
    BY <1>1, <1>2, <1>4, <1>5, <1>6, <2>1 DEF SampleInv, OneSample
<1>8. CASE ~(sw < Last)
  <2>1. sw = Last /\ spc' = "clock"
    BY <1>1, <1>8, CanTaskAssumption DEF CopyWord
  <2>2. \A w \in Direct : w < sw + 1
    BY <2>1, CanTaskAssumption DEF Direct, Word
  <2>3. \A v, w \in Direct : send_buf'[v] = send_buf'[w]
    BY <1>2, <1>5, <2>2, WordFacts
  <2> QED
    BY <1>1, <1>2, <1>4, <1>6, <2>1, <2>3 DEF SampleInv, OneSample
<1> QED
  BY <1>7, <1>8

LEMMA SampleNext == TypeInv /\ SampleInv /\ [Next]_vars => SampleInv'
<1> SUFFICES ASSUME TypeInv, SampleInv, [Next]_vars
             PROVE  SampleInv'
  OBVIOUS
<1>1. CASE SetBegin
  <2>1. /\ mutex' = "capture" /\ mutex = "free" /\ spc # "copy"
        /\ samples' = samples + 1 /\ cw' = 0
        /\ UNCHANGED <<m_data, effect, spc, sw, send_buf>>
    BY <1>1, SampleTypes DEF SetBegin, sender
  <2>2. \A w \in Word : m_data[w].of <= samples' /\ ~(w < cw')
    BY <2>1, SampleTypes DEF SampleInv, Word
  <2> QED
    BY <2>1, <2>2 DEF SampleInv, OneSample
<1>2. CASE AddEffect
  <2>1. /\ UNCHANGED <<m_data, samples, mutex, cw, spc, sw, send_buf>>
        /\ \A w \in Rms : effect'[w] \in {effect[w], m_data[w].of}
    BY <1>2, SampleTypes DEF AddEffect, sender
  <2>2. \A w \in Rms : send_buf[w] <= effect'[w] /\ effect'[w] <= m_data[w].of
    BY <2>1, SampleTypes, WordFacts DEF SampleInv
  <2> QED
    BY <2>1, <2>2 DEF SampleInv, OneSample
<1>3. CASE SendLock
  <2>1. /\ spc' = "copy" /\ sw' = 0 /\ mutex = "free" /\ mutex' = "send"
        /\ UNCHANGED <<m_data, effect, samples, send_buf>>
    BY <1>3 DEF SendLock, capture
  <2>2. \A w \in Word : ~(w < 0)
    BY CanTaskAssumption DEF Word
  <2> QED
    BY <2>1, <2>2, WordFacts DEF SampleInv, OneSample
<1>4. CASE Clock
  <2>1. /\ spc = "clock" /\ spc' # "copy"
        /\ UNCHANGED <<m_data, effect, samples, send_buf, mutex, cw>>
    BY <1>4 DEF Clock, capture
  <2> QED
    BY <2>1 DEF SampleInv, OneSample
<1>5. CASE TakeRms
  <2>1. /\ spc = "rms" /\ spc' # "copy"
        /\ UNCHANGED <<m_data, effect, samples, mutex, cw>>
    BY <1>5 DEF TakeRms, capture
  <2>2. \A w \in Direct : send_buf'[w] = send_buf[w]
    BY <1>5, SampleTypes DEF TakeRms, Direct
  <2>3. \A w \in Rms : send_buf'[w] \in {send_buf[w], effect[w]}
    BY <1>5, SampleTypes, WordFacts DEF TakeRms
  <2>4. \A w \in Rms : send_buf'[w] <= effect[w]
    BY <2>3, SampleTypes DEF SampleInv
  <2> QED
    BY <2>1, <2>2, <2>4 DEF SampleInv, OneSample
<1>6. CASE SendFrame \/ SendErr
  <2>1. /\ spc \in {"frames", "err"} /\ spc' # "copy"
        /\ UNCHANGED <<m_data, effect, samples, send_buf, mutex, cw>>
    BY <1>6 DEF SendFrame, SendErr, capture
  <2> QED
    BY <2>1 DEF SampleInv, OneSample
<1>7. CASE Kill
  <2>1. /\ \A w \in Word : m_data'[w].of = 0 /\ send_buf'[w] = 0
        /\ \A w \in Rms : effect'[w] = 0
        /\ samples' = samples /\ mutex' = "free" /\ spc' = "lock"
    BY <1>7 DEF Kill, Garbage
  <2> QED
    BY <2>1, SampleTypes, WordFacts DEF SampleInv, OneSample
<1>8. CASE LoadK \/ EnableSend \/ StoreK \/ StoreB \/ SaveKb \/ UNCHANGED vars
  <2>1. UNCHANGED <<m_data, effect, samples, mutex, cw, spc, sw, send_buf>>
    BY <1>8 DEF LoadK, EnableSend, StoreK, StoreB, SaveKb, vars, capture, sender
  <2> QED
    BY <2>1 DEF SampleInv, OneSample
<1> QED
  BY <1>1, <1>2, <1>3, <1>4, <1>5, <1>6, <1>7, <1>8, StoreWordKeeps, CopyWordKeeps
     DEF Next

LEMMA SampleInvariant == Spec => [](TypeInv /\ SampleInv)
<1>1. Init => SampleInv
  BY SampleInit
<1>2. TypeInv /\ SampleInv /\ [Next]_vars => SampleInv'
  BY SampleNext
<1> QED
  BY <1>1, <1>2, TypeInvariant, PTL DEF Spec

(* The frames of a round carry, in all words that are not effective        *)
(* values, one sample: the send thread cannot see half of a set_data.      *)
THEOREM SendsOneSample == Spec => []OneSample
<1>1. SampleInv => OneSample
  BY DEF SampleInv
<1> QED
  BY <1>1, SampleInvariant, PTL

(* Neither m_data nor a calculator hands the send thread an older sample   *)
(* than it has already, until the process dies.                            *)
THEOREM GoesOnward == Spec => Onward
<1> DEFINE A == kills' = kills => \A w \in Word : send_buf'[w] >= send_buf[w]
<1>1. TypeInv /\ SampleInv /\ [Next]_vars => [A]_vars
  <2> SUFFICES ASSUME TypeInv, SampleInv, Next
               PROVE  A
    OBVIOUS
  <2>1. CASE CopyWord
    <3>1. \A w \in Word : \/ send_buf'[w] = send_buf[w]
                          \/ w \in Direct /\ send_buf'[w] = m_data[w].of
      BY <2>1, SampleTypes DEF CopyWord
    <3> QED
      BY <3>1, SampleTypes, WordFacts DEF SampleInv
  <2>2. CASE TakeRms
    <3>1. \A w \in Word : \/ send_buf'[w] = send_buf[w]
                          \/ w \in Rms /\ send_buf'[w] = effect[w]
      BY <2>2, SampleTypes DEF TakeRms
    <3> QED
      BY <3>1, SampleTypes, WordFacts DEF SampleInv
  <2>3. CASE Kill
    BY <2>3 DEF Kill, TypeInv, TypeOK
  <2>4. CASE \/ SetBegin \/ LoadK \/ StoreWord \/ AddEffect \/ EnableSend
             \/ StoreK \/ StoreB \/ SaveKb \/ SendLock \/ Clock \/ SendFrame \/ SendErr
    <3>1. send_buf' = send_buf
      BY <2>4 DEF SetBegin, LoadK, StoreWord, AddEffect, EnableSend, StoreK, StoreB,
                  SaveKb, SendLock, Clock, SendFrame, SendErr, sender
    <3> QED
      BY <3>1, SampleTypes
  <2> QED
    BY <2>1, <2>2, <2>3, <2>4 DEF Next
<1> QED
  BY <1>1, SampleInvariant, PTL DEF Spec, Onward

-----------------------------------------------------------------------------
(* Coefficients and samples together. *)

LEMMA PromptNext ==
  TypeInv /\ KbInv /\ SampleInv /\ PromptInv /\ [Next]_vars => PromptInv'
<1> SUFFICES ASSUME TypeInv, KbInv, SampleInv, PromptInv, [Next]_vars
             PROVE  PromptInv'
  OBVIOUS
<1>1. /\ kb \in [Scaled -> Coefficients] /\ messages \in Nat /\ samples \in Nat
      /\ msg.word \in Scaled /\ msg.number \in Nat
      /\ (cpc \in {"loadK", "storeWord"} => cw \in Scaled) /\ ck \in Nat
      /\ m_data \in [Word -> [of : Nat, k : Nat, b : Nat]]
  BY DEF TypeInv, TypeOK, Indices
<1>2. \A w \in Scaled :
        /\ kb[w].k \in Nat /\ kb[w].b \in Nat
        /\ atStart[w].k \in Nat /\ atStart[w].b \in Nat
        /\ m_data[w].of \in Nat /\ m_data[w].k \in Nat /\ m_data[w].b \in Nat
        /\ kb[w].k <= messages /\ kb[w].b <= messages
  BY KbTypes DEF KbInv
<1>3. \A w \in Scaled : m_data[w].of <= samples
  BY WordFacts DEF SampleInv
<1>4. CASE SetBegin
  <2>1. /\ samples' = samples + 1 /\ atStart' = kb /\ kb' = kb /\ m_data' = m_data
        /\ cpc' = "loadK"
    BY <1>4 DEF SetBegin
  <2>2. \A w \in Scaled : m_data'[w].of # samples'
    BY <1>1, <1>2, <1>3, <2>1
  <2> QED
    BY <1>2, <2>1, <2>2 DEF PromptInv, Prompt
<1>5. CASE LoadK
  <2>1. /\ cpc = "loadK" /\ ck' = kb[cw].k /\ cw' = cw
        /\ UNCHANGED <<kb, m_data, samples, atStart>>
    BY <1>5 DEF LoadK
  <2> QED
    BY <1>1, <1>2, <2>1 DEF PromptInv, Prompt
<1>6. CASE StoreWord
  <2>1. /\ cpc = "storeWord" /\ cpc' # "storeWord" /\ cw \in Scaled /\ cw # Last
        /\ UNCHANGED <<kb, samples, atStart>>
    BY <1>1, <1>6, WordFacts DEF StoreWord
  <2>2. m_data'[cw] = [of |-> samples, k |-> ck, b |-> kb[cw].b]
    BY <1>1, <1>6, <2>1, WordFacts DEF StoreWord
  <2>3. \A w \in Scaled : w # cw => m_data'[w] = m_data[w]
    BY <1>1, <1>6, <2>1, WordFacts DEF StoreWord
  <2>4. m_data'[cw].k = ck /\ m_data'[cw].b = kb[cw].b
    BY <2>2
  <2>5. /\ atStart[cw].k <= ck /\ ck <= kb[cw].k
        /\ atStart[cw].b <= kb[cw].b /\ kb[cw].b <= kb[cw].b
    BY <1>2, <2>1 DEF PromptInv
  <2> QED
    BY <2>1, <2>3, <2>4, <2>5 DEF PromptInv, Prompt
<1>7. CASE StoreK
  <2>1. PICK v \in Tunable : kb' = [kb EXCEPT ![v].k = messages']
    BY <1>7 DEF StoreK, CanRead
  <2>2. v \in Scaled /\ messages' = messages + 1
    BY <1>7, WordFacts DEF StoreK, CanRead
  <2>3. \A w \in Scaled : kb[w].k <= kb'[w].k /\ kb[w].b <= kb'[w].b
    <3>1. kb'[v].k = messages' /\ kb'[v].b = kb[v].b
      BY <1>1, <2>1, <2>2 DEF Coefficients
    <3>2. \A w \in Scaled : w # v => kb'[w] = kb[w]
      BY <1>1, <2>1, <2>2
    <3> QED
      BY <1>1, <1>2, <2>2, <3>1, <3>2
  <2>4. \A w \in Scaled : kb'[w].k \in Nat /\ kb'[w].b \in Nat
    <3>1. TypeInv'
      BY TypeNext
    <3> QED
      BY <3>1 DEF TypeInv, TypeOK, Coefficients
  <2>5. UNCHANGED <<cpc, cw, ck, samples, atStart, m_data>>
    BY <1>7 DEF StoreK, CanRead, capture
  <2> QED
    BY <1>1, <1>2, <2>3, <2>4, <2>5 DEF PromptInv, Prompt
<1>8. CASE StoreB
  <2>1. kb' = [kb EXCEPT ![msg.word].b = msg.number] /\ msg.number = messages
    BY <1>8 DEF StoreB, KbInv
  <2>3. \A w \in Scaled : kb[w].k <= kb'[w].k /\ kb[w].b <= kb'[w].b
    <3>1. kb'[msg.word].b = messages /\ kb'[msg.word].k = kb[msg.word].k
      BY <1>1, <2>1 DEF Coefficients
    <3>2. \A w \in Scaled : w # msg.word => kb'[w] = kb[w]
      BY <1>1, <2>1
    <3> QED
      BY <1>1, <1>2, <3>1, <3>2
  <2>4. \A w \in Scaled : kb'[w].k \in Nat /\ kb'[w].b \in Nat
    <3>1. TypeInv'
      BY TypeNext
    <3> QED
      BY <3>1 DEF TypeInv, TypeOK, Coefficients
  <2>5. UNCHANGED <<cpc, cw, ck, samples, atStart, m_data>>
    BY <1>8 DEF StoreB, capture
  <2> QED
    BY <1>1, <1>2, <2>3, <2>4, <2>5 DEF PromptInv, Prompt
<1>9. CASE Kill
  <2>1. kb' = config /\ atStart' = config /\ cpc' = "idle"
        /\ \A w \in Word : m_data'[w] = Garbage
    BY <1>9 DEF Kill
  <2>2. \A w \in Scaled : config[w].k \in Nat /\ config[w].b \in Nat
    BY KbTypes
  <2> QED
    BY <2>1, <2>2, WordFacts DEF PromptInv, Prompt
<1>10. CASE \/ AddEffect \/ EnableSend \/ SaveKb
            \/ SendLock \/ CopyWord \/ Clock \/ TakeRms \/ SendFrame \/ SendErr
            \/ UNCHANGED vars
  <2>1. /\ UNCHANGED <<kb, ck, cw, samples, atStart, m_data>>
        /\ cpc' = "storeWord" => cpc = "storeWord"
    BY <1>10 DEF AddEffect, EnableSend, SaveKb, SendLock, CopyWord, Clock, TakeRms,
                 SendFrame, SendErr, vars, capture
  <2> QED
    BY <2>1 DEF PromptInv, Prompt
<1> QED
  BY <1>4, <1>5, <1>6, <1>7, <1>8, <1>9, <1>10 DEF Next

LEMMA PromptInvariant == Spec => []PromptInv
<1>1. Init => PromptInv
  BY KbInit
<1>2. TypeInv /\ KbInv /\ SampleInv /\ PromptInv /\ [Next]_vars => PromptInv'
  BY PromptNext
<1> QED
  BY <1>1, <1>2, KbInvariant, SampleInvariant, PTL DEF Spec

(* A word of the newest sample was converted with coefficients at least as *)
(* new as those in force when its set_data began.                          *)
THEOREM TakesEffect == Spec => []Prompt
<1>1. PromptInv => Prompt
  BY DEF PromptInv
<1> QED
  BY <1>1, PromptInvariant, PTL

-----------------------------------------------------------------------------
(* The task as a register of samples. *)

(* Each step of the task, seen as one of the register. *)
Stays == /\ samples' = samples /\ m_data'[Last].of = m_data[Last].of
         /\ \A w \in Direct : Taken(w)' = Taken(w)

LEMMA DirectFacts == Last \in Direct /\ \A w \in Direct : w \in Word /\ w \notin Rms
BY CanTaskAssumption DEF Direct, Word, Scaled

(* The words are stored from the first to the last, which makes the sample. *)
LEMMA StoreWordRegisters ==
  ASSUME TypeInv, StoreWord
  PROVE  Stays \/ Register!Store
<1>1. /\ UNCHANGED <<samples, spc, send_buf>>
      /\ m_data \in [Word -> [of : Nat, k : Nat, b : Nat]]
      /\ cw \in Scaled /\ Last \in Word /\ Last \notin Scaled
  BY SampleTypes, WordFacts DEF StoreWord, sender, TypeInv, Indices
<1>2. \A w \in Direct : Taken(w)' = Taken(w)
  BY <1>1 DEF Taken
<1>3. CASE cw < Last - 1
  <2>1. m_data'[Last] = m_data[Last]
    BY <1>1, <1>3 DEF StoreWord
  <2> QED
    BY <1>1, <1>2, <2>1 DEF Stays
<1>4. CASE ~(cw < Last - 1)
  <2>1. m_data'[Last] = [of |-> samples, k |-> 0, b |-> 0]
    BY <1>1, <1>4 DEF StoreWord
  <2> QED
    BY <1>1, <1>2, <2>1 DEF Register!Store
<1> QED
  BY <1>3, <1>4

(* They are copied from the first to the last too; those copied before the *)
(* last are of the sample that the register still holds.                   *)
LEMMA CopyWordRegisters ==
  ASSUME TypeInv, SampleInv, CopyWord
  PROVE  Stays \/ Register!Take
<1>1. /\ spc = "copy" /\ UNCHANGED <<samples, m_data>> /\ send_buf \in [Word -> Nat]
      /\ send_buf' = IF sw \in Direct
                     THEN [send_buf EXCEPT ![sw] = m_data[sw].of] ELSE send_buf
      /\ sw \in 0 .. Last /\ Last \in Nat
  BY SampleTypes, CanTaskAssumption DEF CopyWord, capture
<1>2. CASE sw < Last
  <2>1. spc' = "copy" /\ Last # sw
    BY <1>1, <1>2 DEF CopyWord
  <2>2. send_buf'[Last] = send_buf[Last]
    BY <1>1, <2>1
  <2> QED
    BY <1>1, <2>1, <2>2 DEF Stays, Taken
<1>3. CASE ~(sw < Last)
  <2>1. sw = Last
    BY <1>1, <1>3
  <2>2. spc' = "clock"
    BY <1>3 DEF CopyWord
  <2>3. ASSUME NEW w \in Direct
        PROVE  Taken(w)' = m_data[Last].of
    <3>1. w \in Word /\ Last \in Direct
      BY DirectFacts
    <3>2. CASE w = Last
      BY <1>1, <2>1, <2>2, <3>1, <3>2 DEF Taken
    <3>3. CASE w # Last
      <4>1. w < sw
        BY <1>1, <2>1, <3>1, <3>3 DEF Word
      <4>2. send_buf[w] = m_data[w].of
        BY <1>1, <4>1 DEF SampleInv
      <4>3. m_data[w].of = m_data[Last].of
        BY <1>1, <3>1, SampleTypes, WordFacts DEF SampleInv
      <4>4. send_buf'[w] = send_buf[w]
        BY <1>1, <2>1, <3>1, <3>3
      <4> QED
        BY <2>2, <4>2, <4>3, <4>4 DEF Taken
    <3> QED
      BY <3>2, <3>3
  <2> QED
    BY <1>1, <2>3 DEF Register!Take
<1> QED
  BY <1>2, <1>3

LEMMA EveryStepRegisters ==
  ASSUME TypeInv, SampleInv, [Next]_vars
  PROVE  Stays \/ Register!Next
<1> USE DEF sender, capture
<1>1. CASE UNCHANGED vars
  BY <1>1 DEF vars, Stays, Taken
<1>2. CASE SetBegin
  <2>1. samples' = samples + 1 /\ UNCHANGED <<m_data, spc, send_buf>>
    BY <1>2 DEF SetBegin
  <2> QED
    BY <2>1 DEF Register!Next, Register!Make, Taken
<1>3. CASE StoreWord
  BY <1>3, StoreWordRegisters DEF Register!Next
<1>4. CASE CopyWord
  BY <1>4, CopyWordRegisters DEF Register!Next
<1>5. CASE SendLock
  <2>1. /\ spc = "lock" /\ spc' = "copy" /\ UNCHANGED <<samples, m_data, send_buf>>
    BY <1>5 DEF SendLock
  <2> QED
    BY <2>1 DEF Stays, Taken
<1>6. CASE TakeRms
  <2>1. /\ spc = "rms" /\ spc' \in {"rms", "frames"} /\ UNCHANGED <<samples, m_data>>
        /\ send_buf' = IF sw \in Rms THEN [send_buf EXCEPT ![sw] = effect[sw]]
                                     ELSE send_buf
    BY <1>6 DEF TakeRms
  <2>2. \A w \in Direct : send_buf'[w] = send_buf[w]
    BY <2>1, DirectFacts, SampleTypes
  <2> QED
    BY <2>1, <2>2 DEF Stays, Taken
<1>7. CASE SendErr
  <2>1. /\ spc = "err" /\ spc' = "lock" /\ UNCHANGED <<samples, m_data, send_buf>>
    BY <1>7 DEF SendErr
  <2>2. \A w \in Direct : send_buf[w] = send_buf[Last]
    BY <2>1, DirectFacts DEF SampleInv, OneSample
  <2> QED
    BY <2>1, <2>2 DEF Stays, Taken
<1>8. CASE Clock \/ SendFrame
  <2>1. /\ spc \in {"clock", "frames"} /\ spc' \in {"rms", "frames", "err"}
        /\ UNCHANGED <<samples, m_data, send_buf>>
    BY <1>8 DEF Clock, SendFrame
  <2> QED
    BY <2>1 DEF Stays, Taken
<1>9. CASE LoadK \/ AddEffect \/ EnableSend \/ StoreK \/ StoreB \/ SaveKb
  <2>1. UNCHANGED <<samples, m_data, spc, send_buf>>
    BY <1>9 DEF LoadK, AddEffect, EnableSend, StoreK, StoreB, SaveKb
  <2> QED
    BY <2>1 DEF Stays, Taken
<1>10. CASE Kill
  <2>1. /\ samples' = samples /\ spc' = "lock"
        /\ m_data' = [w \in Word |-> Garbage] /\ send_buf' = [w \in Word |-> 0]
    BY <1>10 DEF Kill
  <2>2. m_data'[Last].of = 0 /\ \A w \in Direct : Taken(w)' = 0
    BY <2>1, WordFacts DEF Garbage, Taken
  <2> QED
    BY <2>1, <2>2 DEF Register!Next, Register!Die
<1> QED
  BY <1>1, <1>2, <1>3, <1>4, <1>5, <1>6, <1>7, <1>8, <1>9, <1>10 DEF Next

(* The task implements a register from which whole samples are taken, and   *)
(* always the newest stored, although words are converted and copied one by *)
(* one, and whenever the process dies.                                     *)
THEOREM TaskImplementsRegister == Spec => CopiesAtomically
<1>1. Init => Register!Init
  <2> SUFFICES ASSUME Init
               PROVE  Register!Init
    OBVIOUS
  <2>1. m_data[Last].of = 0 /\ \A w \in Direct : Taken(w) = 0
    BY WordFacts DEF Init, Garbage, Taken
  <2> QED
    BY <2>1 DEF Init, Register!Init
<1>2. TypeInv /\ SampleInv /\ [Next]_vars => [Register!Next]_Register!vars
  <2> SUFFICES ASSUME TypeInv, SampleInv, [Next]_vars
               PROVE  [Register!Next]_Register!vars
    OBVIOUS
  <2>1. CASE Stays
    BY <2>1 DEF Stays, Register!vars
  <2> QED
    BY <2>1, EveryStepRegisters
<1> QED
  BY <1>1, <1>2, SampleInvariant, PTL DEF Spec, CopiesAtomically, Register!Spec
=============================================================================
