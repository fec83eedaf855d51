------------------------------ MODULE Messages ------------------------------
(***************************************************************************)
(* A page that shows a conversation (useMessages.ts, the message list of   *)
(* ChatArea.tsx) and the server that stores and announces its messages     *)
(* (saveMessage, deleteMessage, editMessage of conversations.service.ts    *)
(* with their handlers in chat.gateway.ts).                                *)
(*                                                                         *)
(* One page, "me", is modelled.  "twin" is another device of the same      *)
(* user, "peer" the other user.  The socket of the page stays connected    *)
(* and delivers in order; requests over HTTP take their own time.  A text  *)
(* is the number of its message; what becomes of an edited text is left    *)
(* out, as are replies, reactions, typing and read marks.                  *)
(***************************************************************************)
EXTENDS Naturals, Sequences, FiniteSetsExt

CONSTANTS PageSize,    \* messages per request (30 in the code)
          Earlier,     \* messages of the peer stored before the page is opened
          MaxWritten,  \* bound: messages ever written, these included
          MaxOps       \* bound: requests, deletes, edits, openings, closings

ASSUME MessagesConstants ==
  PageSize \in Nat \ {0} /\ MaxWritten \in Nat /\ Earlier \in 0 .. MaxWritten /\ MaxOps \in Nat

Ids == 1 .. MaxWritten
Senders == {"me", "twin", "peer"}
\* How a message was sent: sendMessage online, the offline queue, a file, a forward.
Ways == {"cipher", "queued", "file", "forward"}
Loads == {"initial", "latest", "more", "newer", "around"}

VARIABLES
  msgs,    \* the messages stored, by id
  count,   \* messages written so far: the last text
  emitted, \* messages the page has emitted and the server has not yet stored
  unsaid,  \* ids stored and not yet announced to the room
  inbox,   \* events on their way to the page
  opening, \* messages whose onMessage handler is decrypting
  open,    \* the page shows this conversation
  list,    \* messages: stored ones with their id, own bubbles with id 0
  older, newer, \* hasMore, hasMoreNewer
  load,    \* the request in progress (bound: one at a time)
  cache,   \* the plaintext cache: 0, or the text kept for an id
  ops,
  refused, \* history: own messages the server refused
  dropped, \* history: a list with bubbles in it was emptied or replaced
  crossed, \* history: an own echo found its message already loaded beside its bubble
  raced,   \* history: ids an event was about while an older answer was under way
  leapt    \* history: something was appended to a list that lacked newer messages

messagesVars == <<msgs, count, emitted, unsaid, inbox, opening, open, list, older, newer, load,
                  cache, ops, refused, dropped, crossed, raced, leapt>>
server == <<msgs, count, emitted, unsaid>>
screen == <<open, list, older, newer, load>>
history == <<refused, dropped, crossed, raced, leapt>>

Stored == [text : Ids, by : Senders, how : Ways, gone : BOOLEAN, edited : BOOLEAN]
Shown == [id : 0 .. MaxWritten, says : 0 .. MaxWritten, how : Ways \cup {"stored"},
          gone : BOOLEAN, edited : BOOLEAN]
Requests == [kind : Loads \cup {"none"}, at : {"none", "sent", "read"}, arg : 0 .. MaxWritten,
             got : Seq([id : Ids, gone : BOOLEAN, edited : BOOLEAN])]
NoLoad == [kind |-> "none", at |-> "none", arg |-> 0, got |-> <<>>]

Bubble(text, how) == [id |-> 0, says |-> text, how |-> how, gone |-> FALSE, edited |-> FALSE]
IdsOf(s) == {s[i].id : i \in 1 .. Len(s)} \ {0}
Bubbles(s) == {i \in 1 .. Len(s) : s[i].id = 0}
Own(m) == m.by \in {"me", "twin"}

MessagesTypeOK ==
  /\ msgs \in Seq(Stored) /\ Len(msgs) <= MaxWritten
  /\ count \in 0 .. MaxWritten
  /\ emitted \in SUBSET [text : Ids, how : Ways]
  /\ unsaid \in SUBSET Ids
  /\ inbox \in Seq([ev : {"message", "deleted", "edited"}, id : Ids])
  /\ opening \in SUBSET [id : Ids, says : 0 .. MaxWritten]
  /\ list \in Seq(Shown)
  /\ open \in BOOLEAN /\ older \in BOOLEAN /\ newer \in BOOLEAN
  /\ load \in Requests
  /\ cache \in [Ids -> 0 .. MaxWritten]
  /\ ops \in 0 .. MaxOps /\ refused \in 0 .. MaxWritten
  /\ raced \in SUBSET Ids /\ crossed \in BOOLEAN /\ dropped \in BOOLEAN /\ leapt \in BOOLEAN

MessagesInit ==
  /\ msgs = [i \in 1 .. Earlier |-> [text |-> i, by |-> "peer", how |-> "cipher",
                                    gone |-> FALSE, edited |-> FALSE]]
  /\ count = Earlier /\ emitted = {} /\ unsaid = {} /\ inbox = <<>> /\ opening = {}
  /\ open = FALSE /\ list = <<>> /\ older = TRUE /\ newer = FALSE /\ load = NoLoad
  /\ cache = [i \in Ids |-> 0]
  /\ ops = 0 /\ refused = 0 /\ crossed = FALSE /\ raced = {} /\ leapt = FALSE
  /\ dropped = FALSE

Spend == ops < MaxOps /\ ops' = ops + 1

-----------------------------------------------------------------------------
(* Sending.                                                                *)

\* sendMessage, sendFileMessage, the offline queue with its bubble, and
\* sendPendingForward, which shows none.
Send(how) ==
  /\ open /\ count < MaxWritten
  /\ count' = count + 1
  /\ emitted' = emitted \cup {[text |-> count + 1, how |-> how]}
  /\ list' = IF how = "forward" THEN list ELSE Append(list, Bubble(count + 1, how))
  /\ leapt' = (leapt \/ (newer /\ how # "forward"))
  /\ UNCHANGED <<msgs, unsaid, inbox, opening, open, older, newer, load, cache, ops,
                 refused, dropped, crossed, raced>>

Store(text, by, how) ==
  /\ msgs' = Append(msgs, [text |-> text, by |-> by, how |-> how, gone |-> FALSE, edited |-> FALSE])
  /\ unsaid' = unsaid \cup {Len(msgs) + 1}

\* saveMessage for a message of this page.
Save ==
  \E s \in emitted :
    /\ Store(s.text, "me", s.how)
    /\ emitted' = emitted \ {s}
    /\ UNCHANGED <<count, inbox, opening, screen, cache, ops, history>>

\* A limit or a check of handleMessage refuses it: messageFailed, which the
\* page does not listen for.
Refuse ==
  \E s \in emitted :
    /\ emitted' = emitted \ {s} /\ refused' = refused + 1
    /\ UNCHANGED <<msgs, count, unsaid, inbox, opening, screen, cache, ops, dropped, crossed, raced, leapt>>

\* The same for a message somebody else writes.
SaveOther(by) ==
  /\ count < MaxWritten /\ count' = count + 1
  /\ Store(count + 1, by, "cipher")
  /\ UNCHANGED <<emitted, inbox, opening, screen, cache, ops, history>>

Tell(ev, id) == inbox' = Append(inbox, [ev |-> ev, id |-> id])

\* handleMessage, after its last await: the room is told.
Announce ==
  \E id \in unsaid :
    /\ unsaid' = unsaid \ {id}
    /\ Tell("message", id)
    /\ UNCHANGED <<msgs, count, emitted, opening, screen, cache, ops, history>>

-----------------------------------------------------------------------------
(* Deleting and editing.                                                   *)

Mark(id, f) == [i \in 1 .. Len(list) |-> IF list[i].id = id THEN f ELSE list[i]]
Entry(id) == CHOOSE e \in {list[i] : i \in 1 .. Len(list)} : e.id = id

DeleteOnServer(id) ==
  /\ msgs' = [msgs EXCEPT ![id].gone = TRUE]
  /\ Tell("deleted", id)

\* deleteMessage: the sender, from this page, from his other device, or the peer.
Delete(by, id) ==
  /\ Spend
  /\ IF by = "me" THEN Own(msgs[id]) /\ open /\ id \in IdsOf(list) /\ ~Entry(id).gone
     ELSE msgs[id].by = by
  /\ DeleteOnServer(id)
  /\ UNCHANGED <<count, emitted, unsaid, opening, screen, cache, history>>

\* scheduleDestruct, for a message with a timer: gone on the page at once; the
\* server deletes it if it is the user's own.
Destruct(id) ==
  /\ Spend
  /\ open /\ id \in IdsOf(list) /\ ~Entry(id).gone
  /\ list' = Mark(id, [Entry(id) EXCEPT !.gone = TRUE])
  /\ IF Own(msgs[id]) THEN DeleteOnServer(id) ELSE UNCHANGED <<msgs, inbox>>
  /\ UNCHANGED <<count, emitted, unsaid, opening, open, older, newer, load, cache, history>>

\* editMessage: of a text that is not deleted.
EditOnServer(id) ==
  /\ ~msgs[id].gone /\ msgs[id].how # "file"
  /\ msgs' = [msgs EXCEPT ![id].edited = TRUE]
  /\ Tell("edited", id)

\* handleEdit, for the sender; his page shows the new text at once.  (Bound:
\* once per message.)
Edit(by, id) ==
  /\ Spend
  /\ ~msgs[id].edited
  /\ IF by = "me"
     THEN /\ Own(msgs[id]) /\ open /\ id \in IdsOf(list) /\ ~Entry(id).gone
          /\ list' = Mark(id, [Entry(id) EXCEPT !.edited = TRUE])
     ELSE msgs[id].by = by /\ UNCHANGED list
  /\ EditOnServer(id)
  /\ UNCHANGED <<count, emitted, unsaid, opening, open, older, newer, load, cache, history>>

-----------------------------------------------------------------------------
(* Events.                                                                 *)

\* Mutant of Match: the last bubble, whatever its ciphertext.
MatchLast(s, id) == IF Bubbles(s) # {} THEN Max(Bubbles(s)) ELSE 0

\* The bubble an own echo confirms: the one with its ciphertext, or else the last.
Match(s, id) ==
  LET same == {i \in Bubbles(s) : s[i].how = "cipher" /\ s[i].says = msgs[id].text
                                  /\ msgs[id].how = "cipher" /\ msgs[id].by = "me"} IN
  IF same # {} THEN Min(same) ELSE IF Bubbles(s) # {} THEN Max(Bubbles(s)) ELSE 0

\* What a message says without a bubble: the cache, or decryption, which fails
\* for what this device encrypted; the text of a file is empty.
Read(id) ==
  IF msgs[id].how = "file" THEN 0
  ELSE IF cache[id] # 0 THEN cache[id]
  ELSE IF msgs[id].by = "me" THEN 0 ELSE msgs[id].text

Keep(id, text) == cache' = [cache EXCEPT ![id] = IF text = 0 THEN @ ELSE text]
Pop == inbox' = Tail(inbox)
Event(ev) == inbox # <<>> /\ Head(inbox).ev = ev
Waiting == {inbox[i].id : i \in {j \in 1 .. Len(inbox) : inbox[j].ev = "message"}}
Coming == unsaid \cup Waiting \cup {o.id : o \in opening}

\* onMessage up to its last await: an own echo takes its text from the bubble.
BeginMessage ==
  LET id == Head(inbox).id
      at == IF Own(msgs[id]) THEN Match(list, id) ELSE 0
      text == IF at # 0 THEN list[at].says ELSE Read(id) IN
  /\ Event("message") /\ Pop
  /\ IF open
     THEN /\ opening' = opening \cup {[id |-> id, says |-> IF msgs[id].how = "file" THEN 0 ELSE text]}
          /\ Keep(id, text)
     ELSE UNCHANGED <<opening, cache>>
  /\ UNCHANGED <<server, screen, ops, history>>

\* Mutant of EndMessage: the bubble stays, the message comes after it.
EndMessageBeside ==
  \E o \in opening :
    /\ opening' = opening \ {o}
    /\ list' = IF open /\ o.id \notin IdsOf(list)
               THEN Append(list, [id |-> o.id, says |-> o.says, how |-> "stored",
                                  gone |-> FALSE, edited |-> FALSE]) ELSE list
    /\ UNCHANGED <<server, inbox, open, older, newer, load, cache, ops, history>>

\* onMessage's setMessages: already listed, or in place of the bubble, or last.
\* (A page that has moved on changes the list of another conversation.)
EndMessage ==
  \E o \in opening :
    LET own == Own(msgs[o.id])
        at == IF own THEN Match(list, o.id) ELSE 0
        new(text) == [id |-> o.id, says |-> text, how |-> "stored", gone |-> FALSE, edited |-> FALSE]
        known == o.id \in IdsOf(list) IN
    /\ opening' = opening \ {o}
    /\ list' = IF ~open \/ known THEN list
               ELSE IF at # 0
               THEN [list EXCEPT ![at] = new(IF @.how = "file" THEN 0 ELSE @.says)]
               ELSE Append(list, new(o.says))
    /\ newer' = (newer /\ (~open \/ known \/ at # 0))
    /\ leapt' = (leapt \/ (open /\ newer /\ ~known))
    /\ crossed' = (crossed \/ (open /\ known /\ msgs[o.id].by = "me" /\ Bubbles(list) # {}))
    /\ raced' = IF load.at = "read" THEN raced \cup {o.id} ELSE raced
    /\ UNCHANGED <<server, inbox, open, older, load, cache, ops, refused, dropped>>

\* An answer or a message under way does not know of the event.
Overtakes(id) == raced' = IF load.at = "read" \/ id \in Coming THEN raced \cup {id} ELSE raced

\* Mutant of OnDeleted: only the last message of the list is looked at.
OnDeletedLast ==
  LET id == Head(inbox).id IN
  /\ Event("deleted") /\ Pop
  /\ list' = IF list # <<>> /\ list[Len(list)].id = id
             THEN Mark(id, [Entry(id) EXCEPT !.gone = TRUE]) ELSE list
  /\ Overtakes(id)
  /\ UNCHANGED <<server, opening, open, older, newer, load, cache, ops, refused, dropped, crossed, leapt>>

OnDeleted ==
  LET id == Head(inbox).id IN
  /\ Event("deleted") /\ Pop
  /\ list' = IF id \in IdsOf(list) THEN Mark(id, [Entry(id) EXCEPT !.gone = TRUE]) ELSE list
  /\ Overtakes(id)
  /\ UNCHANGED <<server, opening, open, older, newer, load, cache, ops, refused, dropped, crossed, leapt>>

OnEdited ==
  LET id == Head(inbox).id IN
  /\ Event("edited") /\ Pop
  /\ list' = IF id \in IdsOf(list) THEN Mark(id, [Entry(id) EXCEPT !.edited = TRUE]) ELSE list
  /\ Overtakes(id)
  /\ UNCHANGED <<server, opening, open, older, newer, load, cache, ops, refused, dropped, crossed, leapt>>

-----------------------------------------------------------------------------
(* Loading.                                                                *)

Ask(kind, arg) == load' = [kind |-> kind, at |-> "sent", arg |-> arg, got |-> <<>>]

\* The conversation is chosen: the list is emptied and the first page asked for.
Open ==
  /\ ~open /\ load = NoLoad /\ Spend
  /\ open' = TRUE /\ newer' = FALSE /\ Ask("initial", 0)
  /\ UNCHANGED <<server, inbox, opening, list, older, cache, history>>

\* Another conversation is chosen: only the first request is aborted.
Close ==
  /\ open /\ Spend
  /\ open' = FALSE /\ list' = <<>>
  /\ load' = IF load.kind = "initial" THEN NoLoad ELSE load
  /\ crossed' = FALSE /\ leapt' = FALSE /\ dropped' = (dropped \/ Bubbles(list) # {})
  /\ UNCHANGED <<server, inbox, opening, older, newer, cache, refused, raced>>

\* loadMoreMessages (a bubble first asks for the latest page), loadNewerMessages
\* (a bubble last makes a request that fails), resetToLatest, jumpToMessage.
Load(kind, arg) ==
  /\ open /\ load = NoLoad /\ Spend
  /\ CASE kind = "more" -> older /\ list # <<>> /\ arg = list[1].id
       [] kind = "newer" -> newer /\ list # <<>> /\ arg = list[Len(list)].id /\ arg # 0
       [] kind = "latest" -> newer /\ arg = 0
       [] kind = "around" -> arg \in 1 .. Len(msgs) /\ arg \notin IdsOf(list)
  /\ Ask(kind, arg)
  /\ UNCHANGED <<server, inbox, opening, open, list, older, newer, cache, history>>

Page(from, to) == [i \in 1 .. (to + 1 - from) |-> from + i - 1]
Upto(n) == Page(IF n > PageSize THEN n + 1 - PageSize ELSE 1, n)

\* getMessages, getMessagesAround, getMessagesAfter: ids in ascending order.
Answer ==
  LET n == Len(msgs)
      page == CASE load.kind \in {"initial", "latest"} -> Upto(n)
                [] load.kind = "more" -> Upto(IF load.arg = 0 THEN n ELSE load.arg - 1)
                [] load.kind = "around" -> Upto(load.arg)
                [] load.kind = "newer" ->
                     Page(load.arg + 1, IF n > load.arg + PageSize THEN load.arg + PageSize ELSE n) IN
  /\ load.at = "sent"
  /\ load' = [load EXCEPT !.at = "read",
       !.got = [i \in 1 .. Len(page) |-> [id |-> page[i], gone |-> msgs[page[i]].gone,
                                          edited |-> msgs[page[i]].edited]]]
  /\ raced' = IF load.kind \in {"initial", "latest"} THEN raced \cap Coming ELSE raced
  /\ UNCHANGED <<server, inbox, opening, open, list, older, newer, cache, ops, refused, dropped, crossed, leapt>>

\* Mutant of Dedup: none.
DedupNot(s) == s

\* The numbers of S, in order.
InOrder(S) ==
  CHOOSE f \in [1 .. Cardinality(S) -> S] : \A i, j \in 1 .. Cardinality(S) : i < j => f[i] < f[j]

\* deduplicateMessages: a file's bubble has nothing to be told by and is dropped.
Staying(s) ==
  {i \in 1 .. Len(s) : /\ s[i].id = 0 => s[i].how # "file"
                       /\ s[i].id # 0 => \A j \in 1 .. i - 1 : s[j].id # s[i].id}
Dedup(s) ==
  LET at == InOrder(Staying(s)) IN [i \in 1 .. Cardinality(Staying(s)) |-> s[at[i]]]

\* The answer, decrypted, replaces the list or is added to it.  (A page that
\* has moved on changes the list of another conversation.)
Arrive ==
  LET full == Len(load.got) >= PageSize
      got == [i \in 1 .. Len(load.got) |->
                [id |-> load.got[i].id, says |-> Read(load.got[i].id), how |-> "stored",
                 gone |-> load.got[i].gone, edited |-> load.got[i].edited]]
      Sets(l, o, n) == IF open THEN list' = l /\ older' = o /\ newer' = n
                               ELSE UNCHANGED <<list, older, newer>> IN
  /\ load.at = "read" /\ load' = NoLoad
  /\ CASE load.kind \in {"initial", "latest"} -> Sets(got, full, FALSE)
       [] load.kind = "around" -> Sets(got, TRUE, TRUE)
       [] load.kind = "more" -> Sets(Dedup(got \o list), older /\ full, newer)
       [] load.kind = "newer" -> Sets(Dedup(list \o got), older, newer /\ full)
  /\ cache' = [i \in Ids |-> IF i \in IdsOf(load.got) /\ Read(i) # 0 THEN Read(i) ELSE cache[i]]
  /\ IF open /\ load.kind \in {"initial", "latest", "around"}
     THEN leapt' = FALSE /\ crossed' = FALSE /\ dropped' = (dropped \/ Bubbles(list) # {})
     ELSE UNCHANGED <<leapt, crossed, dropped>>
  /\ UNCHANGED <<server, inbox, opening, open, ops, refused, raced>>

-----------------------------------------------------------------------------
MessagesNext ==
  \/ \E how \in Ways : Send(how)
  \/ Save \/ Refuse \/ Announce
  \/ \E by \in {"twin", "peer"} : SaveOther(by)
  \/ \E id \in 1 .. Len(msgs) : \/ \E by \in {"me", "twin", "peer"} : Delete(by, id) \/ Edit(by, id)
                              \/ Destruct(id)
  \/ BeginMessage \/ EndMessage \/ OnDeleted \/ OnEdited
  \/ Open \/ Close
  \/ \E kind \in Loads \ {"initial"}, arg \in 0 .. Len(msgs) : Load(kind, arg)
  \/ Answer \/ Arrive

MessagesSpec == MessagesInit /\ [][MessagesNext]_messagesVars

-----------------------------------------------------------------------------
(* Properties.                                                             *)

AtRest == open /\ load = NoLoad /\ inbox = <<>> /\ Coming = {}

\* No message is listed twice, whether it came by event, by request or both
\* (onMessage, onMessageScheduled, deduplicateMessages).
ListedOnce ==
  \A i, j \in 1 .. Len(list) : list[i].id # 0 /\ list[i].id = list[j].id => i = j

\* While a user writes plain texts, online, from one device, and no load or
\* change of conversation drops a bubble, no message shows, and no cache keeps,
\* the text of another (the echo of onMessage).
Clean ==
  /\ \A i \in 1 .. Len(msgs) : msgs[i].by = "peer" \/ (msgs[i].by = "me" /\ msgs[i].how = "cipher")
  /\ \A s \in emitted : s.how = "cipher"
OwnText ==
  Clean /\ ~dropped /\ (\A i \in Bubbles(list) : list[i].how = "cipher")
  => /\ \A i \in 1 .. Len(list) : list[i].id # 0 => list[i].says \in {0, msgs[list[i].id].text}
     /\ \A id \in 1 .. Len(msgs) : cache[id] \in {0, msgs[id].text}

\* No bubble outlives its message: there are never more than own messages still
\* under way or refused, unless a message was loaded beside its bubble
\* (onMessage returns when the id is listed).
NoGhosts ==
  crossed \/ Cardinality(Bubbles(list))
             <= Cardinality(emitted) + Cardinality({id \in Coming : msgs[id].by = "me"}) + refused

\* The list has each message once, and no bubble beside the message it became
\* (onMessage, onMessageScheduled, the initial load).
ViewInv == MessagesTypeOK /\ ListedOnce /\ NoGhosts /\ OwnText

\* At rest the list has every message from its first to the latest, and knows
\* which are deleted and edited, except where an event overtook an answer read
\* before it, or something was appended after a jump (useMessages, loads and
\* handlers).  Its first is the one it shows first: a message announced late may
\* be older, and is then appended.
Firsts(s) == {s[i].id : i \in {j \in 1 .. Len(s) : s[j].id # 0 /\ \A k \in 1 .. j - 1 : s[k].id = 0}}
InStep ==
  AtRest =>
  /\ newer \/ leapt \/ \A id \in 1 .. Len(msgs) :
       (\E e \in Firsts(list) \cup {Len(msgs)} : e <= id) => id \in IdsOf(list) \cup raced
  /\ \A id \in IdsOf(list) \ raced :
       (msgs[id].gone => Entry(id).gone) /\ (msgs[id].edited => Entry(id).edited)
=============================================================================
