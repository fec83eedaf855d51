---------------------------- MODULE MessageStore ----------------------------
(***************************************************************************)
(* The messages of a conversation as the server keeps them, and the files  *)
(* they refer to: uploads, sending, scheduled delivery, forwarding,        *)
(* deletion, pins, reactions, clearing a chat and the clean-up job.        *)
(* Handlers that read and then write, or write several tables, are split   *)
(* there; the page's part is what it keeps between two actions of a user:  *)
(* an uploaded file, a message picked for forwarding, a clear that can be  *)
(* undone for five seconds.  What a page shows is in Messages.             *)
(***************************************************************************)
EXTENDS Naturals, Sequences, FiniteSets

CONSTANTS Writers,      \* members of the conversation, each with one page
          Admins,       \* those with the role OWNER or ADMIN
          MaxPins,      \* MAX_PINNED_MESSAGES
          MaxMessages,  \* bound: message rows made
          MaxFiles,     \* bound: files uploaded
          MaxTurns      \* bound: actions of users, restarts

ASSUME StoreBounds ==
  /\ Admins \subseteq Writers /\ MaxPins \in Nat \ {0}
  /\ MaxMessages \in Nat /\ MaxFiles \in Nat /\ MaxTurns \in Nat

Ids == 1 .. MaxMessages
Files == 1 .. MaxFiles
NoFile == 0

VARIABLES
  msgs,     \* the Message rows, in the order of their ids
  stored,   \* the files in the bucket, and the number of the last upload
  joined,  \* the ConversationMember rows
  hidden,   \* <<user, id>>: the message was made before the user's clearedAt
  pins,     \* the PinnedMessage rows
  reacts,   \* the Reaction rows, of one emoji
  up,       \* the server runs
  timers,   \* messages with a delivery timer
  tasks,    \* handlers and jobs of the server between two steps
  hand,     \* per user: what the page holds for the next action
  turns,    \* actions so far
  log       \* history, as named by the properties

storeVars == <<msgs, stored, joined, hidden, pins, reacts, up, timers, tasks, hand, turns, log>>

\* `late': a forwarded copy made when its original had been deleted, or of one
\* that was; `crossed': made while the chat was being cleared for everyone.
Messages ==
  [by : Writers, file : Files \cup {NoFile}, life : {"live", "soft", "old", "gone"},
   sched : {"no", "wait", "due"}, far : BOOLEAN, told : 0 .. 2, late : BOOLEAN, crossed : BOOLEAN]
Tasks ==
  [op : {"schedule", "deliver", "removeFile", "pin", "forward"}, id : Ids, by : Writers]
    \cup [op : {"clearPins", "clearMarks"}, id : {0}, by : Writers]
    \cup [op : {"cleanFiles"}, id : Ids, by : Writers]
Hands == [file : Files \cup {NoFile}, pick : Ids \cup {0}, clear : {"no", "self", "both"}]

StoreTypeOK ==
  /\ msgs \in Seq(Messages) /\ Len(msgs) <= MaxMessages
  /\ stored.files \subseteq Files /\ stored.last \in 0 .. MaxFiles
  /\ joined \subseteq Writers
  /\ hidden \subseteq Writers \X Ids /\ reacts \subseteq Writers \X Ids
  /\ pins \subseteq Ids /\ timers \subseteq Ids /\ up \in BOOLEAN
  /\ tasks \subseteq Tasks
  /\ hand \in [Writers -> Hands]
  /\ turns \in 0 .. MaxTurns
  /\ log.asked \subseteq Writers \X Ids /\ log.missed \subseteq Ids /\ log.failed \subseteq Ids
  /\ log.overlap \in BOOLEAN

Empty == [file |-> NoFile, pick |-> 0, clear |-> "no"]

StoreInit ==
  /\ msgs = <<>> /\ stored = [files |-> {}, last |-> 0]
  /\ joined = Writers /\ hidden = {} /\ pins = {} /\ reacts = {}
  /\ up = TRUE /\ timers = {} /\ tasks = {}
  /\ hand = [u \in Writers |-> Empty]
  /\ turns = 0 /\ log = [asked |-> {}, missed |-> {}, failed |-> {}, overlap |-> FALSE]

Turn(u) == up /\ u \in joined /\ turns < MaxTurns /\ turns' = turns + 1
Live(i) == msgs[i].life = "live"
Present(i) == msgs[i].life # "gone"
Set(i, field, value) == msgs' = [msgs EXCEPT ![i][field] = value]
Begin(op, i, u) == tasks' = tasks \cup {[op |-> op, id |-> i, by |-> u]}
Doing(op) == {t \in tasks : t.op = op}
Refers(f, lives) == {i \in DOMAIN msgs : msgs[i].file = f /\ msgs[i].life \in lives}
RemoveFiles(files) == stored' = [stored EXCEPT !.files = @ \ files]

\* scheduledFilter: a scheduled message is its sender's until it is due.
Released(u, i) == msgs[i].sched # "wait" \/ msgs[i].by = u

Add(u, file, sched, far, late) ==
  msgs' = Append(msgs,
    [by |-> u, file |-> file, life |-> "live", sched |-> sched, far |-> far, late |-> late,
     told |-> 0, crossed |-> Doing("clearPins") \cup Doing("clearMarks") # {}])

-----------------------------------------------------------------------------
(* Sending, at once or at a time; files are uploaded first.                *)

\* handleFileUpload: the file is encrypted and uploaded, and then sent; between
\* the two the page may close and leave the file behind.
Upload(u) ==
  /\ Turn(u) /\ stored.last < MaxFiles
  /\ stored' = [files |-> stored.files \cup {stored.last + 1}, last |-> stored.last + 1]
  /\ hand' = [hand EXCEPT ![u].file = stored.last + 1]
  /\ UNCHANGED <<msgs, joined, hidden, pins, reacts, up, timers, tasks, log>>

\* handleMessage and saveMessage; who is told is in Messages.
Send(u) ==
  /\ Turn(u) /\ Len(msgs) < MaxMessages
  /\ Add(u, hand[u].file, "no", FALSE, FALSE)
  /\ hand' = [hand EXCEPT ![u].file = NoFile]
  /\ UNCHANGED <<stored, joined, hidden, pins, reacts, up, timers, tasks, log>>

\* With a time in the future: the row is stored, and only a timer is set when the
\* rest of saveMessage is done, if it does not fail.  A delay of more than 2^31 ms
\* (`far'; 30 days are allowed) makes setTimeout fire at once.
Schedule(u) ==
  /\ Turn(u) /\ Len(msgs) < MaxMessages
  /\ \E far \in BOOLEAN : Add(u, NoFile, "wait", far, FALSE)
  /\ Begin("schedule", Len(msgs) + 1, u)
  /\ UNCHANGED <<stored, joined, hidden, pins, reacts, up, timers, hand, log>>
SetTimer(t) ==
  /\ t.op = "schedule" /\ tasks' = tasks \ {t}
  /\ timers' = timers \cup {t.id}
  /\ UNCHANGED <<msgs, stored, joined, hidden, pins, reacts, up, hand, turns, log>>
\* Envelopes, updatedAt or the second read fail, or the reads of the delivery; the
\* row stays, and nothing comes back to it.
TaskFails(t) ==
  /\ t.op \in {"schedule", "deliver"} /\ tasks' = tasks \ {t}
  /\ log' = [log EXCEPT !.failed = @ \cup {t.id}]
  /\ UNCHANGED <<msgs, stored, joined, hidden, pins, reacts, up, timers, hand, turns>>

TimePasses ==
  /\ \E i \in DOMAIN msgs : msgs[i].sched = "wait" /\ Set(i, "sched", "due")
  /\ UNCHANGED <<stored, joined, hidden, pins, reacts, up, timers, tasks, hand, turns, log>>

\* deliverScheduledMessage reads the message; a deleted one ends here.
TimerFires(i) ==
  /\ up /\ i \in timers
  /\ msgs[i].sched = "due" \/ msgs[i].far
  /\ timers' = timers \ {i}
  /\ IF Live(i) THEN Begin("deliver", i, msgs[i].by) ELSE UNCHANGED tasks
  /\ UNCHANGED <<msgs, stored, joined, hidden, pins, reacts, up, hand, turns, log>>

\* Then it announces it, or deletes it when its sender has left.
Deliver(t) ==
  /\ t.op = "deliver" /\ tasks' = tasks \ {t}
  /\ IF msgs[t.id].by \in joined
       THEN Set(t.id, "told", IF msgs[t.id].told = 2 THEN 2 ELSE msgs[t.id].told + 1)
     ELSE IF Present(t.id) THEN Set(t.id, "life", "soft")
     ELSE UNCHANGED msgs
  /\ UNCHANGED <<stored, joined, hidden, pins, reacts, up, timers, hand, turns, log>>

\* A restart: handlers, jobs and timers are gone; onModuleInit, which ends before
\* anything is served, sets the timers of the messages that are still to come, or
\* none when its query fails.
Stop ==
  /\ up /\ turns < MaxTurns /\ turns' = turns + 1
  /\ up' = FALSE /\ timers' = {} /\ tasks' = {}
  /\ UNCHANGED <<msgs, stored, joined, hidden, pins, reacts, hand, log>>
Pending == {i \in DOMAIN msgs : Live(i) /\ msgs[i].sched = "wait"}
\* Mutant of Boot: no timers.
BootEmpty ==
  /\ ~up /\ up' = TRUE
  /\ log' = [log EXCEPT !.missed = {i \in DOMAIN msgs : msgs[i].sched = "due"}]
  /\ UNCHANGED <<msgs, stored, joined, hidden, pins, reacts, timers, tasks, hand, turns>>
Boot ==
  /\ ~up /\ up' = TRUE
  /\ timers' \in {Pending, {}}
  /\ log' = [log EXCEPT !.missed = {i \in DOMAIN msgs : msgs[i].sched = "due"},
                        !.failed = @ \cup (Pending \ timers')]
  /\ UNCHANGED <<msgs, stored, joined, hidden, pins, reacts, tasks, hand, turns>>

-----------------------------------------------------------------------------
(* Forwarding.                                                             *)

\* The page keeps the picked message until the next message is sent.
Pick(u) ==
  /\ Turn(u)
  /\ \E i \in DOMAIN msgs : Live(i) /\ Released(u, i) /\ hand' = [hand EXCEPT ![u].pick = i]
  /\ UNCHANGED <<msgs, stored, joined, hidden, pins, reacts, up, timers, tasks, log>>

\* forwardMessage reads the original, deleted or not, and copies its file.
ForwardRead(u) ==
  /\ up /\ hand[u].pick # 0 /\ Present(hand[u].pick)
  /\ Begin("forward", hand[u].pick, u)
  /\ hand' = [hand EXCEPT ![u].pick = 0]
  /\ UNCHANGED <<msgs, stored, joined, hidden, pins, reacts, up, timers, turns, log>>
ForwardWrite(t) ==
  /\ t.op = "forward" /\ tasks' = tasks \ {t}
  /\ IF Present(t.id)
       THEN Len(msgs) < MaxMessages /\ Add(t.by, msgs[t.id].file, "no", FALSE, ~Live(t.id) \/ msgs[t.id].late)
       ELSE UNCHANGED msgs
  /\ UNCHANGED <<stored, joined, hidden, pins, reacts, up, timers, hand, turns, log>>

-----------------------------------------------------------------------------
(* Deleting, pinning, reacting.                                            *)

\* deleteMessage: the sender or an admin; the row is marked, and then the file
\* is removed unless another message that is not deleted refers to it.
Delete(u) ==
  /\ Turn(u)
  /\ \E i \in DOMAIN msgs :
       /\ Live(i) /\ (msgs[i].by = u \/ u \in Admins)
       /\ Set(i, "life", "soft")
       /\ IF msgs[i].file # NoFile THEN Begin("removeFile", i, u) ELSE UNCHANGED tasks
  /\ UNCHANGED <<stored, joined, hidden, pins, reacts, up, timers, hand, log>>
\* Mutant of RemoveFile: the references of other messages are not counted.
RemoveFileAnyway(t) ==
  /\ t.op = "removeFile" /\ tasks' = tasks \ {t}
  /\ RemoveFiles({msgs[t.id].file})
  /\ UNCHANGED <<msgs, joined, hidden, pins, reacts, up, timers, hand, turns, log>>
RemoveFile(t) ==
  /\ t.op = "removeFile" /\ tasks' = tasks \ {t}
  /\ RemoveFiles(IF Refers(msgs[t.id].file, {"live"}) = {} THEN {msgs[t.id].file} ELSE {})
  /\ UNCHANGED <<msgs, joined, hidden, pins, reacts, up, timers, hand, turns, log>>

\* addPinnedMessage: an admin, a message that is not deleted, room for it; the
\* upsert comes later.  `overlap': two counted at the same time.
PinRead(u) ==
  /\ Turn(u) /\ u \in Admins /\ Cardinality(pins) < MaxPins
  /\ \E i \in DOMAIN msgs : Live(i) /\ Begin("pin", i, u)
  /\ log' = [log EXCEPT !.overlap = @ \/ Doing("pin") # {}]
  /\ UNCHANGED <<msgs, stored, joined, hidden, pins, reacts, up, timers, hand>>
PinWrite(t) ==
  /\ t.op = "pin" /\ tasks' = tasks \ {t}
  /\ pins' = IF Present(t.id) THEN pins \cup {t.id} ELSE pins
  /\ UNCHANGED <<msgs, stored, joined, hidden, reacts, up, timers, hand, turns, log>>
Unpin(u) ==
  /\ Turn(u) /\ u \in Admins
  /\ \E i \in pins : pins' = pins \ {i}
  /\ UNCHANGED <<msgs, stored, joined, hidden, reacts, up, timers, tasks, hand, log>>

\* toggleReaction, on a message that is not deleted.
React(u) ==
  /\ Turn(u)
  /\ \E i \in DOMAIN msgs :
       /\ Live(i) /\ Released(u, i)
       /\ reacts' = IF <<u, i>> \in reacts THEN reacts \ {<<u, i>>} ELSE reacts \cup {<<u, i>>}
  /\ UNCHANGED <<msgs, stored, joined, hidden, pins, up, timers, tasks, hand, log>>

-----------------------------------------------------------------------------
(* Clearing the chat, and the clean-up job.                                *)

\* The panel asks, and starts the countdown; undoing it or closing the panel
\* drops it.
AskClear(u) ==
  /\ Turn(u)
  /\ \E scope \in {"self", "both"} : hand' = [hand EXCEPT ![u].clear = scope]
  /\ UNCHANGED <<msgs, stored, joined, hidden, pins, reacts, up, timers, tasks, log>>
DropClear(u) ==
  /\ hand[u].clear # "no"
  /\ hand' = [hand EXCEPT ![u].clear = "no"]
  /\ UNCHANGED <<msgs, stored, joined, hidden, pins, reacts, up, timers, tasks, turns, log>>

Countdown(u, scope) ==
  /\ up /\ u \in joined /\ hand[u].clear = scope
  /\ hand' = [hand EXCEPT ![u].clear = "no"]
Known(u) == {<<u, i>> : i \in {j \in DOMAIN msgs : Released(u, j)}}

\* Mutant of ClearSelf: the mark of every member is moved.
ClearSelfForAll(u) ==
  /\ Countdown(u, "self")
  /\ hidden' = hidden \cup (Writers \X DOMAIN msgs)
  /\ log' = [log EXCEPT !.asked = @ \cup Known(u)]
  /\ UNCHANGED <<msgs, stored, joined, pins, reacts, up, timers, tasks, turns>>
\* clearMessages for oneself: clearedAt is now.
ClearSelf(u) ==
  /\ Countdown(u, "self")
  /\ hidden' = hidden \cup ({u} \X DOMAIN msgs)
  /\ log' = [log EXCEPT !.asked = @ \cup Known(u)]
  /\ UNCHANGED <<msgs, stored, joined, pins, reacts, up, timers, tasks, turns>>

\* For everyone, by an admin: the messages are marked deleted, the pins removed,
\* and the clearedAt of all members set to now, one statement after the other.
ClearMessages(u) ==
  /\ Countdown(u, "both") /\ u \in Admins
  /\ msgs' = [i \in DOMAIN msgs |-> IF Live(i) THEN [msgs[i] EXCEPT !.life = "soft"] ELSE msgs[i]]
  /\ Begin("clearPins", 0, u)
  /\ UNCHANGED <<stored, joined, hidden, pins, reacts, up, timers, turns, log>>
ClearPins(t) ==
  /\ t.op = "clearPins"
  /\ tasks' = (tasks \ {t}) \cup {[t EXCEPT !.op = "clearMarks"]}
  /\ pins' = {}
  /\ UNCHANGED <<msgs, stored, joined, hidden, reacts, up, timers, hand, turns, log>>
ClearMarks(t) ==
  /\ t.op = "clearMarks" /\ tasks' = tasks \ {t}
  /\ hidden' = hidden \cup (joined \X DOMAIN msgs)
  /\ UNCHANGED <<msgs, stored, joined, pins, reacts, up, timers, hand, turns, log>>

GraceEnds ==
  /\ \E i \in DOMAIN msgs : msgs[i].life = "soft" /\ Set(i, "life", "old")
  /\ UNCHANGED <<stored, joined, hidden, pins, reacts, up, timers, tasks, hand, turns, log>>

\* runCleanup: rows deleted an hour ago go in one transaction, with their pins
\* and reactions; then the files no row refers to.
CleanRows ==
  /\ up
  /\ LET old == {i \in DOMAIN msgs : msgs[i].life = "old"}
     IN /\ old # {}
        /\ msgs' = [i \in DOMAIN msgs |->
             IF i \in old THEN [msgs[i] EXCEPT !.life = "gone"] ELSE msgs[i]]
        /\ pins' = pins \ old
        /\ reacts' = {r \in reacts : r[2] \notin old}
        /\ tasks' = tasks \cup {[op |-> "cleanFiles", id |-> i, by |-> msgs[i].by] :
                                  i \in {j \in old : msgs[j].file # NoFile}}
  /\ UNCHANGED <<stored, joined, hidden, up, timers, hand, turns, log>>
CleanFile(t) ==
  /\ t.op = "cleanFiles" /\ tasks' = tasks \ {t}
  /\ RemoveFiles(IF Refers(msgs[t.id].file, {"live", "soft", "old"}) = {}
                   THEN {msgs[t.id].file} ELSE {})
  /\ UNCHANGED <<msgs, joined, hidden, pins, reacts, up, timers, hand, turns, log>>

\* A member leaves or is removed (Conversations); an admin stays.
LeaveChat(u) ==
  /\ Turn(u) /\ u \notin Admins
  /\ joined' = joined \ {u}
  /\ hand' = [hand EXCEPT ![u] = Empty]
  /\ UNCHANGED <<msgs, stored, hidden, pins, reacts, up, timers, tasks, log>>

StoreNext ==
  \/ TimePasses \/ GraceEnds \/ CleanRows \/ Stop \/ Boot
  \/ \E i \in timers : TimerFires(i)
  \/ \E t \in tasks :
       \/ SetTimer(t) \/ TaskFails(t) \/ Deliver(t) \/ ForwardWrite(t) \/ RemoveFile(t)
       \/ PinWrite(t) \/ ClearPins(t) \/ ClearMarks(t) \/ CleanFile(t)
  \/ \E u \in Writers :
       \/ Upload(u) \/ Send(u) \/ Schedule(u) \/ Pick(u) \/ ForwardRead(u) \/ Delete(u)
       \/ PinRead(u) \/ Unpin(u) \/ React(u) \/ AskClear(u) \/ DropClear(u)
       \/ ClearSelf(u) \/ ClearMessages(u) \/ LeaveChat(u)

-----------------------------------------------------------------------------
\* No more than MAX_PINNED_MESSAGES pins, unless two were counted at once.
PinLimit == ~log.overlap => Cardinality(pins) <= MaxPins

\* The file of a message that is not deleted is in the bucket, through any order
\* of copies, deletions and clean-ups; excepted is a copy that was stored after
\* its original had been deleted, which forwardMessage does not look at, and the
\* copies of it.
FilesKept ==
  \A i \in DOMAIN msgs :
    (Live(i) /\ msgs[i].file # NoFile /\ ~msgs[i].late) => msgs[i].file \in stored.files

\* A scheduled message that is due and not deleted has been announced, or its
\* timer or delivery is under way, through restarts; excepted are one that fell
\* due before the server had started again, and one whose timer or delivery was
\* lost when a query failed.  It is announced once and never early, except with a
\* delay beyond the range of setTimeout.
ScheduleKept ==
  \A i \in DOMAIN msgs :
    (msgs[i].sched # "no" /\ ~msgs[i].far) =>
      /\ msgs[i].told <= (IF msgs[i].sched = "due" THEN 1 ELSE 0)
      /\ (up /\ msgs[i].sched = "due" /\ Live(i) /\ msgs[i].told = 0)
           => \/ i \in timers \cup log.missed \cup log.failed
              \/ \E t \in Doing("schedule") \cup Doing("deliver") : t.id = i

\* Clearing a chat hides from a member what that member had asked to clear, and
\* no other message that is not deleted; excepted are a message stored while the
\* chat was being cleared for everyone, and one that was scheduled.
NothingElseHidden ==
  \A u \in Writers, i \in DOMAIN msgs :
    (<<u, i>> \in hidden /\ Live(i) /\ msgs[i].sched = "no" /\ ~msgs[i].crossed)
      => <<u, i>> \in log.asked

\* The rows of a conversation stay consistent: the pins within their limit, a
\* message hidden only from who asked for it, the files of its messages in the
\* bucket, and scheduled messages announced in time and once (pinMessage,
\* clearChat, deleteMessage, deliverScheduledMessage).
StoreInv == StoreTypeOK /\ PinLimit /\ NothingElseHidden /\ FilesKept /\ ScheduleKept

StoreSpec == StoreInit /\ [][StoreNext]_storeVars
=============================================================================
