-------------------------------- MODULE Files --------------------------------
(***************************************************************************)
(* The files of one conversation (crucible/attachments.py) and what forgets *)
(* them (attachment_retention.py, session_retention.py, sessions_cli.py).   *)
(* A gateway saves a message's file under the key it can compute, the flow  *)
(* takes it into the conversation as it keys it; the agent's process may    *)
(* change any file there; a record outside its reach says what arrived.     *)
(*                                                                          *)
(* Every function the store runs in a thread is a step of its own, and one  *)
(* that reads a file of records and writes it back is two.  Every file has  *)
(* the same size.  Time is one day: what was idle at its start may be       *)
(* forgotten, what is written during it is fresh.                           *)
(***************************************************************************)
EXTENDS Naturals, Sequences, FiniteSets, SequencesExt

CONSTANTS
    Messages,       \* messages, one file each
    FileOf,         \* the file of each: a platform's id names it
    Again,          \* the messages that are redeliveries: the flow drops them
    Gate, Conv,     \* the directory of the gateway's key and of the flow's; the same where both agree
    Before,         \* the files the agent made in the conversation, oldest first
    Cap,            \* files a conversation may hold; 0: no cap
    Hands,          \* who forgets conversations by hand or by age, in a process of its own
    MaxEdits, MaxSweeps     \* bounds

VARIABLES
    disk,       \* per directory: its files by age, [name, bytes, fresh]
    record,     \* per directory: the lines of what arrived, [name, digest]
    msg,        \* per message: where its file stands, what its thread has read, whether it was left out
    row,        \* the session record: none, idle or recent
    memory,     \* whether the runtime has a memory of the conversation
    sweep,      \* the retention sweep
    hand,       \* per hand: a purge or a delete
    handed,     \* history: the bytes tools handed on as a person's file
    lost,       \* history: the messages whose file a sweep took
    edits, sweeps

fVars == <<disk, record, msg, row, memory, sweep, hand, handed, lost, edits, sweeps>>

Dirs == {Gate, Conv}
NoMsg == [pc |-> "none", seen |-> {}, gone |-> {}, lines |-> {}, left |-> FALSE]
NoSweep == [pc |-> "none", row |-> "none", todo |-> {}, dir |-> Conv]

File(name, bytes) == [name |-> name, bytes |-> bytes, fresh |-> TRUE]
NamesIn(d) == {disk[d][i].name : i \in DOMAIN disk[d]}
Line(m) == [name |-> FileOf[m], digest |-> "arrived"]

FilesInit ==
    /\ disk = [d \in Dirs |-> IF d = Conv THEN [i \in DOMAIN Before |-> [name |-> Before[i], bytes |-> "made", fresh |-> FALSE]]
                                          ELSE <<>>]
    /\ record = [d \in Dirs |-> {}]
    /\ msg = [m \in Messages |-> NoMsg]
    /\ row \in {"none", "idle"} /\ memory = (row = "idle")
    /\ sweep = NoSweep /\ hand = [h \in Hands |-> "none"]
    /\ handed = {} /\ lost = {} /\ edits = 0 /\ sweeps = 0

Goes(m, pc) == msg' = [msg EXCEPT ![m].pc = pc]
Without(files, names) == SelectSeq(files, LAMBDA f : f.name \notin names)

-----------------------------------------------------------------------------
(* save_many, for a message with one file *)

(* save, _write: a file of that name and size is a redelivery's and stays.  *)
Write(m) ==
    /\ msg[m].pc = "none"
    /\ disk' = IF FileOf[m] \in NamesIn(Gate) THEN disk ELSE [disk EXCEPT ![Gate] = Append(@, File(FileOf[m], "arrived"))]
    /\ Goes(m, IF Cap > 0 THEN "written" ELSE "roomed")
    /\ UNCHANGED <<record, row, memory, sweep, hand, handed, lost, edits, sweeps>>

(* _make_room: the directory is listed. *)
ListsRoom(m) ==
    /\ msg[m].pc = "written"
    /\ msg' = [msg EXCEPT ![m].pc = "listed", ![m].seen = NamesIn(Gate) \ {FileOf[m]}]
    /\ UNCHANGED <<disk, record, row, memory, sweep, hand, handed, lost, edits, sweeps>>

(* How many of the others have to go. *)
OverCap(seen) == IF Cardinality(seen) + 1 > Cap THEN Cardinality(seen) + 1 - Cap ELSE 0

(* _make_room: the oldest listed go.  A file that is gone since it was      *)
(* listed ends the save (stat), and save_many leaves the file out of the    *)
(* message.                                                                 *)
Evicts(m) ==
    /\ msg[m].pc = "listed"
    /\ LET seen == msg[m].seen
           byAge == SelectSeq([i \in DOMAIN disk[Gate] |-> disk[Gate][i].name], LAMBDA n : n \in seen)
           n == OverCap(seen) IN
       IF ~(seen \cup {FileOf[m]} \subseteq NamesIn(Gate))
         THEN /\ msg' = [msg EXCEPT ![m] = [NoMsg EXCEPT !.pc = "submitted", !.left = TRUE]]
              /\ UNCHANGED disk
         ELSE LET gone == {byAge[i] : i \in 1..(IF n < Len(byAge) THEN n ELSE Len(byAge))} IN
              /\ disk' = [disk EXCEPT ![Gate] = Without(@, gone)]
              /\ msg' = [msg EXCEPT ![m].pc = IF gone = {} THEN "roomed" ELSE "evicted", ![m].seen = {}, ![m].gone = gone]
    /\ UNCHANGED <<record, row, memory, sweep, hand, handed, lost, edits, sweeps>>

(* _compact_record reads the lines that stay ... *)
CompactReads(m) ==
    /\ msg[m].pc = "evicted"
    /\ LET staying == {l \in record[Gate] : l.name \notin msg[m].gone} IN
       msg' = [msg EXCEPT ![m].pc = IF staying = record[Gate] THEN "roomed" ELSE "compacting",
                          ![m].lines = IF staying = record[Gate] THEN {} ELSE staying, ![m].gone = {}]
    /\ UNCHANGED <<disk, record, row, memory, sweep, hand, handed, lost, edits, sweeps>>

(* ... and writes them. *)
CompactWrites(m) ==
    /\ msg[m].pc = "compacting"
    /\ record' = [record EXCEPT ![Gate] = msg[m].lines]
    /\ msg' = [msg EXCEPT ![m].pc = "roomed", ![m].lines = {}]
    /\ UNCHANGED <<disk, row, memory, sweep, hand, handed, lost, edits, sweeps>>

Known(lines, l) == \E k \in lines : k.name = l.name

(* Mutant: the digest is taken of the file on disk. *)
RecordsDisk(m) ==
    /\ msg[m].pc = "roomed"
    /\ record' = [record EXCEPT ![Gate] =
         IF Known(@, Line(m)) THEN @
         ELSE @ \cup {[name |-> FileOf[m], digest |-> disk[Gate][i].bytes] : i \in {i \in DOMAIN disk[Gate] : disk[Gate][i].name = FileOf[m]}}]
    /\ Goes(m, "recorded")
    /\ UNCHANGED <<disk, row, memory, sweep, hand, handed, lost, edits, sweeps>>

(* _record: a line for the file as it arrived, unless its path has one.     *)
Records(m) ==
    /\ msg[m].pc = "roomed"
    /\ record' = [record EXCEPT ![Gate] = IF Known(@, Line(m)) THEN @ ELSE @ \cup {Line(m)}]
    /\ Goes(m, "recorded")
    /\ UNCHANGED <<disk, row, memory, sweep, hand, handed, lost, edits, sweeps>>

-----------------------------------------------------------------------------
(* The flow: the file is adopted, the row opened, the turn run.             *)

Working == \E m \in Messages : msg[m].pc \in {"adopting", "moved", "moving", "adopted", "turn"}

(* The batch is handled; a redelivery is dropped, and its file stays.       *)
HandleBatch(m) ==
    /\ msg[m].pc \in {"recorded", "submitted"} /\ ~Working
    /\ Goes(m, IF m \in Again THEN "done"
               ELSE IF msg[m].pc = "recorded" /\ Gate # Conv THEN "adopting" ELSE "adopted")
    /\ UNCHANGED <<disk, record, row, memory, sweep, hand, handed, lost, edits, sweeps>>

(* adopt, _move: onto the conversation's own copy when it has one; a file   *)
(* that is gone is left as the message names it.                            *)
Moves(m) ==
    /\ msg[m].pc = "adopting"
    /\ LET found == SelectSeq(disk[Gate], LAMBDA f : f.name = FileOf[m]) IN
       IF found = <<>> THEN Goes(m, "adopted") /\ UNCHANGED disk
       ELSE /\ disk' = [disk EXCEPT ![Gate] = Without(@, {FileOf[m]}),
                                    ![Conv] = IF FileOf[m] \in NamesIn(Conv) THEN @ ELSE @ \o found]
            /\ Goes(m, "moved")
    /\ UNCHANGED <<record, row, memory, sweep, hand, handed, lost, edits, sweeps>>

(* _move_record reads the lines of the gateway's directory ... *)
ReadsRecord(m) ==
    /\ msg[m].pc = "moved"
    /\ msg' = [msg EXCEPT ![m].pc = "moving", ![m].lines = record[Gate]]
    /\ UNCHANGED <<disk, record, row, memory, sweep, hand, handed, lost, edits, sweeps>>

(* ... and writes back all but the file's, which goes to the conversation's. *)
MovesRecord(m) ==
    /\ msg[m].pc = "moving"
    /\ LET moving == {l \in msg[m].lines : l.name = FileOf[m]} IN
       record' = IF moving = {} THEN record
                 ELSE [record EXCEPT ![Gate] = msg[m].lines \ moving,
                                     ![Conv] = @ \cup {l \in moving : ~Known(@, l)}]
    /\ msg' = [msg EXCEPT ![m].pc = "adopted", ![m].lines = {}]
    /\ UNCHANGED <<disk, row, memory, sweep, hand, handed, lost, edits, sweeps>>

(* get_or_create, and the runtime starts to remember. *)
TurnBegins(m) ==
    /\ msg[m].pc = "adopted"
    /\ row' = IF row = "none" THEN "recent" ELSE row
    /\ memory' = TRUE
    /\ Goes(m, "turn")
    /\ UNCHANGED <<disk, record, sweep, hand, handed, lost, edits, sweeps>>

(* The runtime writes down what was said; touch, of a row that is there.    *)
TurnEnds(m) ==
    /\ msg[m].pc = "turn"
    /\ memory' = TRUE
    /\ row' = IF row = "none" THEN "none" ELSE "recent"
    /\ Goes(m, "done")
    /\ UNCHANGED <<disk, record, sweep, hand, handed, lost, edits, sweeps>>

(* The agent's process writes over a file of its conversation. *)
Edits(i) ==
    /\ edits < MaxEdits /\ i \in DOMAIN disk[Conv] /\ \E m \in Messages : msg[m].pc = "turn"
    /\ disk' = [disk EXCEPT ![Conv] = Append(Without(@, {disk[Conv][i].name}), File(disk[Conv][i].name, "made"))]
    /\ edits' = edits + 1
    /\ UNCHANGED <<record, msg, row, memory, sweep, hand, handed, lost, sweeps>>

(* _Received.read, _read_checked: a recorded file whose bytes are the       *)
(* recorded ones.                                                           *)
Reads(l) ==
    /\ \E m \in Messages : msg[m].pc = "turn"
    /\ \E i \in DOMAIN disk[Conv] :
         /\ disk[Conv][i].name = l.name /\ disk[Conv][i].bytes = l.digest
         /\ handed' = handed \cup {disk[Conv][i].bytes}
    /\ UNCHANGED <<disk, record, msg, row, memory, sweep, hand, lost, edits, sweeps>>

-----------------------------------------------------------------------------
(* What forgets *)

(* The messages whose file, just arrived, is in a directory. *)
InUse(d) == {m \in Messages \ Again : \E i \in DOMAIN disk[d] : disk[d][i].name = FileOf[m] /\ disk[d][i].fresh}

(* sweep_attachments reads the records, then the directories.               *)
SweepReads ==
    /\ sweep.pc = "none" /\ sweeps < MaxSweeps
    /\ sweep' = [NoSweep EXCEPT !.pc = "read", !.row = row] /\ sweeps' = sweeps + 1
    /\ UNCHANGED <<disk, record, msg, row, memory, hand, handed, lost, edits>>

SweepLists ==
    /\ sweep.pc = "read"
    /\ sweep' = [sweep EXCEPT !.pc = "sweeping", !.todo = {d \in Dirs : disk[d] # <<>>}]
    /\ UNCHANGED <<disk, record, msg, row, memory, hand, handed, lost, edits, sweeps>>

(* A directory is kept while its conversation was active when the records   *)
(* were read; one of no conversation, while anything in it is fresh.        *)
Forgettable(d) ==
    IF d = Conv /\ sweep.row # "none" THEN sweep.row = "idle"
    ELSE \A i \in DOMAIN disk[d] : ~disk[d][i].fresh

SweepLooks(d) ==
    /\ sweep.pc = "sweeping" /\ d \in sweep.todo
    /\ sweep' = [sweep EXCEPT !.pc = IF Forgettable(d) THEN "taking" ELSE @,
                              !.todo = IF Forgettable(d) THEN @ ELSE @ \ {d}, !.dir = d]
    /\ UNCHANGED <<disk, record, msg, row, memory, hand, handed, lost, edits, sweeps>>

(* _forget_dir: the directory and its record. *)
SweepTakes ==
    /\ sweep.pc = "taking"
    /\ disk' = [disk EXCEPT ![sweep.dir] = <<>>] /\ record' = [record EXCEPT ![sweep.dir] = {}]
    /\ sweep' = [sweep EXCEPT !.pc = "sweeping", !.todo = @ \ {sweep.dir}]
    /\ lost' = lost \cup InUse(sweep.dir)
    /\ UNCHANGED <<msg, row, memory, hand, handed, edits, sweeps>>

SweepEnds ==
    /\ sweep.pc = "sweeping" /\ sweep.todo = {}
    /\ sweep' = NoSweep
    /\ UNCHANGED <<disk, record, msg, row, memory, hand, handed, lost, edits, sweeps>>

(* purge_idle lists the idle; delete takes what it is told. *)
PurgeLists(h) ==
    /\ hand[h] = "none" /\ row = "idle"
    /\ hand' = [hand EXCEPT ![h] = "victim"]
    /\ UNCHANGED <<disk, record, msg, row, memory, sweep, handed, lost, edits, sweeps>>

(* store.delete: the row goes; a delete ends where there is none.           *)
DeletesRow(h) ==
    /\ hand[h] \in {"none", "victim"} /\ (hand[h] = "none" => row # "none")
    /\ row' = "none"
    /\ hand' = [hand EXCEPT ![h] = "row"]
    /\ UNCHANGED <<disk, record, msg, memory, sweep, handed, lost, edits, sweeps>>

(* forget_conversation_memory, forget_session_manifest, attachments.forget. *)
DeletesMemory(h) ==
    /\ hand[h] = "row"
    /\ memory' = FALSE
    /\ hand' = [hand EXCEPT ![h] = "memory"]
    /\ UNCHANGED <<disk, record, msg, row, sweep, handed, lost, edits, sweeps>>

DeletesFiles(h) ==
    /\ hand[h] = "memory"
    /\ disk' = [disk EXCEPT ![Conv] = <<>>] /\ record' = [record EXCEPT ![Conv] = {}]
    /\ hand' = [hand EXCEPT ![h] = "done"]
    /\ UNCHANGED <<msg, row, memory, sweep, handed, lost, edits, sweeps>>

FilesNext ==
    \/ \E m \in Messages :
         \/ Write(m) \/ ListsRoom(m) \/ Evicts(m) \/ CompactReads(m) \/ CompactWrites(m) \/ Records(m)
         \/ HandleBatch(m) \/ Moves(m) \/ ReadsRecord(m) \/ MovesRecord(m) \/ TurnBegins(m) \/ TurnEnds(m)
    \/ \E i \in 1..(Cardinality(Messages) + Len(Before)) : Edits(i)
    \/ \E l \in record[Conv] : Reads(l)
    \/ SweepReads \/ SweepLists \/ SweepTakes \/ SweepEnds
    \/ \E d \in Dirs : SweepLooks(d)
    \/ \E h \in Hands : PurgeLists(h) \/ DeletesRow(h) \/ DeletesMemory(h) \/ DeletesFiles(h)

FilesSpec == FilesInit /\ [][FilesNext]_fVars

-----------------------------------------------------------------------------
(* What a tool hands on as a person's file is what the person sent: not     *)
(* what the agent wrote in its place, whatever is redelivered, evicted,     *)
(* adopted or forgotten around it (attachments.py _read_checked, _record).  *)
ReadIsWhatArrived == handed \subseteq {"arrived"}

Saved == \A m \in Messages : msg[m].pc \notin {"written", "listed"}

(* Messages that save their files at once leave a conversation within its   *)
(* cap when the last of them is through, but for the file of each that was  *)
(* left out because a file it had listed was gone (attachments.py           *)
(* _make_room, save_many).                                                  *)
WithinCap == (Cap > 0 /\ Saved) => Len(disk[Gate]) <= Cap + Cardinality({m \in Messages : msg[m].left})

-----------------------------------------------------------------------------
(* What the code does not keep *)

(* "What one conversation may hold in all" (docs/configuration.md): adopt   *)
(* makes no room, and a message that is left out, because a file it had     *)
(* listed went before it could look at it, makes none for its own file.     *)
ConversationWithinCap == (Cap > 0 /\ Saved) => Len(disk[Conv]) <= Cap

(* "a line per file" (attachments.py): a file that arrived and is there has *)
(* its line.                                                                *)
EveryFileHasALine ==
    (\A m \in Messages : msg[m].pc \in {"none", "done"}) =>
      \A m \in Messages \ Again : (msg[m].pc = "done" /\ FileOf[m] \in NamesIn(Conv) /\ hand = [h \in Hands |-> "none"])
                                    => Known(record[Conv], Line(m))

(* "A file is kept as long as its conversation is alive"                    *)
(* (attachment_retention.py): last_active is the end of the last turn, so a *)
(* file that arrives in an idle conversation may go before its turn ends.   *)
LiveFilesStay == lost = {}

(* "deleting only one part silently resets or orphans a conversation"       *)
(* (session_retention.py): one that is forgotten while its turn is at work  *)
(* leaves the memory that turn writes.                                      *)
NothingOrphaned ==
    (~Working /\ \A h \in Hands : hand[h] \in {"none", "done"}) => (memory => row # "none")
=============================================================================
