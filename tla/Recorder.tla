------------------------------ MODULE Recorder ------------------------------
(***************************************************************************)
(* Recording on the SD card: save_thread_handler of main.cpp, the System V *)
(* queue that main_task creates or finds, get_new_fd and delete_file of    *)
(* utils.cpp.                                                              *)
(*                                                                         *)
(* The capture loop puts frames into the queue without waiting.  The save  *)
(* thread takes Block of them at a time and appends them to the current    *)
(* file with one write; between two blocks it changes to a new file when   *)
(* the current one is FileCost seconds old.  A file is named after the     *)
(* second in which get_new_fd runs.  Before a file is opened, the oldest   *)
(* files, by modification time, are removed when there are more than       *)
(* FileLimit.                                                              *)
(*                                                                         *)
(* The queue outlives the process but not the machine; the thread's block  *)
(* outlives neither.  Nothing calls fsync: what write has taken outlives   *)
(* the process, and the machine only as far as the kernel has come.        *)
(*                                                                         *)
(* A frame is its number in the order of production.  A file is a row of   *)
(* frames without marks between them: what lies behind a part of a frame   *)
(* is not at its place, and a reader of the file cannot make it out.  (A   *)
(* second short write that brings what follows back to its place is left   *)
(* out.)  Times are whole seconds.                                         *)
(***************************************************************************)
EXTENDS Integers, Sequences, FiniteSets, Functions

CONSTANTS
  Block,        \* DATAPACK_WRITE (50)
  QueueCap,     \* messages the queue holds (msgmnb over the message size)
  FileCost,     \* FILE_TO_FILE_COST_SEC (60)
  FileLimit,    \* the threshold of delete_file (1404)
  Drop,         \* files removed at a time (5)
  MaxFrames,    \* bound: frames produced
  MaxClock,     \* bound: the clock stops here
  SetAgain,     \* bound: whether the clock may be set more than once
  MaxFailures   \* bound: kills, reboots, failed opens and short writes

ASSUME RecorderAssumption ==
  /\ Block \in Nat \ {0} /\ QueueCap \in Nat \ {0}
  /\ FileCost \in Nat \ {0} /\ FileLimit \in Nat /\ Drop \in Nat \ {0}
  /\ MaxFrames \in Nat /\ MaxClock \in Nat /\ MaxFailures \in Nat
  /\ SetAgain \in BOOLEAN

VARIABLES
  produced,   \* frames the capture loop has made
  taken,      \* history: those that msgsnd has taken
  queue,      \* the System V queue msqid
  card,       \* /dev/mmcblk1p1 exists
  err,        \* g_err_code = ERR_NO_SD
  pc,         \* where the save thread is
  held,       \* flag_file
  cur,        \* the file fd refers to, 0 when fd is not open
  last,       \* last_time
  name,       \* the second get_new_fd has put into the file name, 0 outside it
  block,      \* the frames in buf1
  files,      \* the .txt files on the card, numbered as they are created
  created,    \* files created so far
  clock,      \* the system clock, in seconds
  clockSet,   \* history: "forward" or "back" when CAN has set the clock
  log,        \* history: the frames written to any file, at their place
  removed,    \* history: the frames that have left the card
  kills, reboots, badOpens, badWrites   \* history: what went wrong, how often

thread == <<pc, held, cur, last, name, block>>
disk == <<files, created, log, removed>>
failures == <<kills, reboots, badOpens, badWrites>>
vars == <<produced, taken, queue, card, err, thread, disk, clock, clockSet,
          failures>>

Bad == kills + reboots + badOpens + badWrites
MayFail == Bad < MaxFailures

(* The frames that a reader finds on the card. *)
OnCard == UNION {Range(files[i].frames) : i \in DOMAIN files}

Init ==
  /\ produced = 0 /\ taken = {} /\ queue = <<>>
  /\ card \in BOOLEAN
  /\ err = FALSE
  /\ pc = "start" /\ held = FALSE /\ cur = 0 /\ last = 0 /\ name = 0
  /\ block = <<>>
  /\ files = <<>> /\ created = 0 /\ log = <<>> /\ removed = {}
  /\ clock = 0 /\ clockSet = "no"
  /\ kills = 0 /\ reboots = 0 /\ badOpens = 0 /\ badWrites = 0

-----------------------------------------------------------------------------
(* The capture loop's end of the queue, and the clock. *)

(* msgsnd with IPC_NOWAIT: a full queue refuses the frame.  No frame is    *)
(* sent once the save thread has found that there is no card.              *)
Produce ==
  /\ produced < MaxFrames
  /\ produced' = produced + 1
  /\ IF err \/ Len(queue) = QueueCap
     THEN UNCHANGED <<queue, taken>>
     ELSE /\ queue' = Append(queue, produced)
          /\ taken' = taken \cup {produced}
  /\ UNCHANGED <<card, err, thread, disk, clock, clockSet, failures>>

(* The thread is not held up for FileCost seconds between the statements   *)
(* that read the clock into last_time and into the name.                   *)
Tick ==
  /\ clock < MaxClock
  /\ pc = "name" => clock + 1 < last + FileCost
  /\ clock' = clock + 1
  /\ UNCHANGED <<produced, taken, queue, card, err, thread, disk, clockSet,
                 failures>>

(* CAN message 0x130 sets the clock. *)
SetClock ==
  /\ SetAgain \/ clockSet = "no"
  /\ clock' \in (0 .. MaxClock) \ {clock}
  /\ clockSet' = IF clock' < clock \/ clockSet = "back" THEN "back" ELSE "forward"
  /\ UNCHANGED <<produced, taken, queue, card, err, thread, disk, failures>>

-----------------------------------------------------------------------------
(* Plausible mistakes, each put in the place of the definition it varies.  *)

(* The newest files go. *)
NewerFirst(i, j) == files[i].at > files[j].at

(* The name leaves out the last digit of the time. *)
NameFileCoarsely ==
  /\ pc = "name"
  /\ name' = clock - (clock % 3)
  /\ pc' = "clean"
  /\ UNCHANGED <<produced, taken, queue, card, err, held, cur, last, block,
                 disk, clock, clockSet, failures>>

(* Receive, but the queue becomes q, and the block is written when full.   *)
ReceiveAs(q, full) ==
  /\ pc = "recv"
  /\ queue # <<>>
  /\ queue' = q
  /\ block' = Append(block, Head(queue))
  /\ pc' = IF full THEN "write" ELSE "recv"
  /\ UNCHANGED <<produced, taken, card, err, held, cur, last, name, disk,
                 clock, clockSet, failures>>

ReceiveCopy == ReceiveAs(queue, Len(block') = Block)
ReceiveTwo ==
  ReceiveAs(IF Len(queue) > 1 THEN Tail(Tail(queue)) ELSE <<>>,
            Len(block') = Block)
ReceiveForever == ReceiveAs(Tail(queue), Len(block') > Block)

(* The newest message is taken first. *)
ReceiveNewest ==
  /\ pc = "recv"
  /\ queue # <<>>
  /\ queue' = SubSeq(queue, 1, Len(queue) - 1)
  /\ block' = Append(block, queue[Len(queue)])
  /\ pc' = IF Len(block') = Block THEN "write" ELSE "recv"
  /\ UNCHANGED <<produced, taken, card, err, held, cur, last, name, disk,
                 clock, clockSet, failures>>

-----------------------------------------------------------------------------
(* The save thread. *)

StartSave ==
  /\ pc = "start"
  /\ err' = ~card
  /\ pc' = IF card THEN "top" ELSE "stopped"
  /\ UNCHANGED <<produced, taken, queue, card, held, cur, last, name, block,
                 disk, clock, clockSet, failures>>

(* A file as old as FileCost is closed. *)
Top ==
  /\ pc = "top"
  /\ LET old == held /\ clock - last >= FileCost
     IN  /\ held' = (held /\ ~old)
         /\ cur' = IF old THEN 0 ELSE cur
         /\ pc' = IF held' THEN "recv" ELSE "rotate"
  /\ UNCHANGED <<produced, taken, queue, card, err, last, name, block, disk,
                 clock, clockSet, failures>>

Rotate ==
  /\ pc = "rotate"
  /\ last' = clock
  /\ pc' = "name"
  /\ UNCHANGED <<produced, taken, queue, card, err, held, cur, name, block,
                 disk, clock, clockSet, failures>>

NameFile ==
  /\ pc = "name"
  /\ name' = clock
  /\ pc' = "clean"
  /\ UNCHANGED <<produced, taken, queue, card, err, held, cur, last, block,
                 disk, clock, clockSet, failures>>

(* ls -tr lists by modification time.  Equal times are listed by name,     *)
(* backwards, and as the numbers in a name have no leading zeros ("10"     *)
(* before "9") either file may come first.                                 *)
Older(i, j) == files[i].at < files[j].at

(* head -5: the first Drop files of the list, or all of them. *)
FirstListed(S) ==
  /\ Cardinality(S) = Drop \/ (S = DOMAIN files /\ Cardinality(S) <= Drop)
  /\ \A i \in S, j \in DOMAIN files \ S : ~Older(j, i)

Keep(S) == [i \in DOMAIN files \cap S |-> files[i]]

CleanUp(needed) ==
  /\ pc = "clean"
  /\ \E S \in SUBSET DOMAIN files :
       /\ IF needed THEN FirstListed(S) ELSE S = {}
       /\ files' = Keep(DOMAIN files \ S)
  /\ removed' = removed \cup (OnCard \ OnCard')
  /\ pc' = "open"
  /\ UNCHANGED <<produced, taken, queue, card, err, held, cur, last, name,
                 block, created, log, clock, clockSet, failures>>

(* The limit is compared the wrong way round (a plausible mistake). *)
DeleteWhenFew == CleanUp(Cardinality(DOMAIN files) < FileLimit)

(* delete_file; fclose waits for the shell that removes the files. *)
DeleteFile == CleanUp(Cardinality(DOMAIN files) > FileLimit)

(* O_CREAT | O_TRUNC: a file of that name is emptied. *)
Open ==
  /\ pc = "open"
  /\ created' = created + 1
  /\ files' = [i \in {j \in DOMAIN files : files[j].name # name} \cup {created'}
                 |-> IF i = created'
                     THEN [name |-> name, at |-> clock, frames |-> <<>>,
                           ragged |-> FALSE]
                     ELSE files[i]]
  /\ removed' = removed \cup (OnCard \ OnCard')
  /\ cur' = created'
  /\ held' = TRUE
  /\ name' = 0
  /\ pc' = "recv"
  /\ UNCHANGED <<produced, taken, queue, card, err, last, block, log, clock,
                 clockSet, failures>>

(* open fails: a reboot is requested, and until it comes the thread goes   *)
(* on with a file descriptor of -1.                                        *)
OpenFails ==
  /\ pc = "open" /\ MayFail
  /\ badOpens' = badOpens + 1
  /\ cur' = 0
  /\ held' = TRUE
  /\ name' = 0
  /\ pc' = "recv"
  /\ UNCHANGED <<produced, taken, queue, card, err, last, block, disk,
                 clock, clockSet, kills, reboots, badWrites>>

(* One msgrcv, which waits while the queue is empty, and its memcpy. *)
Receive ==
  /\ pc = "recv"
  /\ queue # <<>>
  /\ queue' = Tail(queue)
  /\ block' = Append(block, Head(queue))
  /\ pc' = IF Len(block') = Block THEN "write" ELSE "recv"
  /\ UNCHANGED <<produced, taken, card, err, held, cur, last, name, disk,
                 clock, clockSet, failures>>

(* n of the block's frames reach the file, and where r holds a part of the *)
(* next one; the next round overwrites buf1.                               *)
AppendToFile(n, r) ==
  /\ log' = log \o SubSeq(block, 1, n)
  /\ files' = [files EXCEPT ![cur] = [name |-> @.name, at |-> clock,
                                      frames |-> @.frames \o SubSeq(block, 1, n),
                                      ragged |-> r]]
  /\ block' = <<>>
  /\ pc' = "top"

Write ==
  /\ pc = "write" /\ cur # 0 /\ ~files[cur].ragged
  /\ AppendToFile(Block, FALSE)
  /\ UNCHANGED <<produced, taken, queue, card, err, held, cur, last, name,
                 created, removed, clock, clockSet, failures>>

(* The card is full after some of the block's bytes: what write returns is *)
(* not looked at.                                                          *)
WriteShort ==
  /\ pc = "write" /\ cur # 0 /\ ~files[cur].ragged /\ MayFail
  /\ \E n \in 0 .. Block - 1, r \in BOOLEAN : (n > 0 \/ r) /\ AppendToFile(n, r)
  /\ badWrites' = badWrites + 1
  /\ UNCHANGED <<produced, taken, queue, card, err, held, cur, last, name,
                 created, removed, clock, clockSet, kills, reboots, badOpens>>

(* There is room again, but behind a part of a frame: no frame of this     *)
(* block is at its place.                                                  *)
WriteAstray ==
  /\ pc = "write" /\ cur # 0 /\ files[cur].ragged
  /\ files' = [files EXCEPT ![cur].at = clock]
  /\ block' = <<>>
  /\ badWrites' = badWrites + 1
  /\ pc' = "top"
  /\ UNCHANGED <<produced, taken, queue, card, err, held, cur, last, name,
                 created, log, removed, clock, clockSet, kills, reboots, badOpens>>

(* write fails, as it always does on a descriptor of -1: the block is      *)
(* gone.                                                                   *)
WriteNowhere ==
  /\ pc = "write" /\ (cur = 0 \/ MayFail)
  /\ block' = <<>>
  /\ badWrites' = badWrites + 1
  /\ pc' = "top"
  /\ UNCHANGED <<produced, taken, queue, card, err, held, cur, last, name,
                 disk, clock, clockSet, kills, reboots, badOpens>>

Save ==
  \/ StartSave \/ Top \/ Rotate \/ NameFile \/ DeleteFile
  \/ Open \/ OpenFails \/ Receive
  \/ Write \/ WriteShort \/ WriteAstray \/ WriteNowhere

-----------------------------------------------------------------------------
(* The process and the machine. *)

(* What the thread knew is gone; a card may be put in or taken out before  *)
(* it starts again.                                                        *)
Restart ==
  /\ pc' = "start" /\ held' = FALSE /\ cur' = 0 /\ last' = 0 /\ name' = 0
  /\ block' = <<>>
  /\ err' = FALSE
  /\ card' \in BOOLEAN

(* The process dies and is started again: main_task finds the old queue.   *)
Kill ==
  /\ MayFail
  /\ kills' = kills + 1
  /\ Restart
  /\ UNCHANGED <<produced, taken, queue, disk, clock, clockSet, reboots,
                 badOpens, badWrites>>

(* The machine goes down, and with it the queue and, as nothing calls      *)
(* fsync, the end of any file: of each the first frames are left.  Which   *)
(* files there are, and their names and times, is taken to survive.        *)
Reboot ==
  /\ MayFail
  /\ reboots' = reboots + 1
  /\ Restart
  /\ queue' = <<>>
  /\ \E kept \in [DOMAIN files -> 0 .. produced] :
       /\ \A i \in DOMAIN files : kept[i] <= Len(files[i].frames)
       /\ files' = [i \in DOMAIN files |->
                      [files[i] EXCEPT !.frames = SubSeq(@, 1, kept[i])]]
  /\ removed' = removed \cup (OnCard \ OnCard')
  /\ UNCHANGED <<produced, taken, created, log, clock, clockSet, kills,
                 badOpens, badWrites>>

Next == Produce \/ Tick \/ SetClock \/ Save \/ Kill \/ Reboot

Spec == Init /\ [][Next]_vars

(* The thread runs whenever it is not waiting for a message. *)
FairSpec == Spec /\ WF_vars(Save)

-----------------------------------------------------------------------------
(* Properties. *)

TypeOK ==
  /\ produced \in Nat
  /\ taken \subseteq 0 .. produced - 1 /\ removed \subseteq Nat
  /\ queue \in Seq(Nat) /\ Len(queue) <= QueueCap
  /\ card \in BOOLEAN /\ err \in BOOLEAN
  /\ pc \in {"start", "top", "rotate", "name", "clean", "open", "recv", "write",
             "stopped"}
  /\ held \in BOOLEAN /\ last \in Nat /\ name \in Nat /\ clock \in Nat
  /\ block \in Seq(Nat)
  /\ Len(block) <= Block /\ (pc = "write" <=> Len(block) = Block)
  /\ created \in Nat /\ log \in Seq(Nat)
  /\ DOMAIN files \subseteq 1 .. created
  /\ \A i \in DOMAIN files :
       files[i] \in [name : Nat, at : Nat, frames : Seq(Nat), ragged : BOOLEAN]
  /\ cur \in {0} \cup DOMAIN files
  /\ clockSet \in {"no", "forward", "back"}
  /\ \A n \in {kills, reboots, badOpens, badWrites} : n \in Nat

(* The recordings that are on the card, taken in the order in which their  *)
(* files were created, are strictly ascending: through every rotation,     *)
(* truncation, kill and reboot no frame is on the card twice and none out  *)
(* of order, although a restarted process goes on with the old queue.      *)
OnCardOnce ==
  \A i, j \in DOMAIN files :
    \A a \in DOMAIN files[i].frames, b \in DOMAIN files[j].frames :
      i < j \/ (i = j /\ a < b) => files[i].frames[a] < files[j].frames[b]

(* Of the frames the queue has taken, all are on the card, or have been    *)
(* there and left it with a file or with the machine, or are under way,    *)
(* but for at most a block for each kill and each write that fails, stops  *)
(* short or goes astray, and at most a block and a full queue for each     *)
(* reboot.  (The frames that a reboot takes off the card are in removed,   *)
(* and nothing bounds them.)                                               *)
LossBounded ==
  Cardinality(taken \ (OnCard \cup removed \cup Range(block) \cup Range(queue)))
    <= Block * (kills + badWrites) + (Block + QueueCap) * reboots

(* The card holds at most one file more than the threshold, whatever       *)
(* restarts and failed opens come between two clean-ups.                   *)
FilesBounded == Cardinality(DOMAIN files) <= FileLimit + 1

(* As long as nobody sets the clock and nothing restarts, get_new_fd never *)
(* empties a file that is there: two files never get the same name,        *)
(* although the rotation and the name read the clock separately.           *)
OpensNewFile ==
  [][pc = "open" /\ clockSet = "no" /\ kills + reboots = 0
       => DOMAIN files \subseteq DOMAIN files']_vars

(* As long as the clock is never set back, the files that delete_file      *)
(* removes were created before all the files it leaves, but for those last *)
(* written in the same second: of these the newer may go first, as ls -tr  *)
(* lists them by name.                                                     *)
DropsOldest ==
  [][pc = "clean" /\ clockSet # "back"
       => \A i \in DOMAIN files \ DOMAIN files', j \in DOMAIN files \cap DOMAIN files' :
            i < j \/ files[i].at = files[j].at]_vars

(* Frames that the thread has not written yet. *)
Waiting == Len(block) + Len(queue)

(* Where there is a card, less than a block waits in the end, once the     *)
(* capture loop has fallen silent (which MaxFrames sees to): no rotation,  *)
(* failed open, short write or restart stalls the thread.  (LossBounded    *)
(* says how many of the frames it takes do not get recorded.)              *)
BlockTaken == <>[](card => Waiting < Block)

(* The recorder implements the lossy log: what waits is the thread's block *)
(* followed by the queue.                                                  *)
Promise == INSTANCE LossyLog WITH pending <- block \o queue
LogKept == Promise!Spec
=============================================================================
