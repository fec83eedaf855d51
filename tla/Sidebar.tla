------------------------------ MODULE Sidebar -------------------------------
(***************************************************************************)
(* The conversation list of a page (useConversations.ts, with the calls of *)
(* ChatArea.tsx, SideBar.tsx and the chat page), against what the server   *)
(* would answer (getMyConversations, markAsRead, setChatArchived of        *)
(* conversations.service.ts).  The list is replaced by fetches and changed *)
(* by events, and both take their time: a fetch is two requests answered   *)
(* by several statements each, and handlers await decryption.              *)
(*                                                                         *)
(* The page has fewer conversations than a request returns, its socket     *)
(* stays connected, and texts, order, pins and presence are left out.      *)
(***************************************************************************)
EXTENDS Naturals, Sequences, SequencesExt, FiniteSets, FiniteSetsExt

CONSTANTS Chats,     \* conversations the user is or may become a member of
          MaxPosts,  \* bound: messages written
          MaxClicks  \* bound: what users do besides

Nobody == "none"

ASSUME SideBounds == Nobody \notin Chats /\ MaxPosts \in Nat /\ MaxClicks \in Nat

VARIABLES
  posted, memberOf, readTo, filed,  \* server: messages, memberships with lastReadAt and isArchived
  inRoom,                           \* rooms the page's socket is in
  untold, news, marks, asks, mine,  \* on their way: announcements, events, markAsRead, joinConversation, own texts
  shown,                            \* conversations: a set of entries
  active, entering, viewing,        \* the open conversation, its loads, its onMessage handlers
  reading, fetch,                   \* the list's onMessage handlers, and its fetch
  filing,                           \* an archive request that was answered
  clicks,
  looked,                           \* history: messages that were before the eyes of the user
  stale                             \* history: what the list is known to have wrong

sideVars == <<posted, memberOf, readTo, filed, inRoom, untold, news, marks, asks, mine, shown,
              active, entering, viewing, reading, fetch, filing, clicks, looked, stale>>
serverSide == <<posted, memberOf, readTo, filed>>
transit == <<untold, news, marks, asks, mine, inRoom>>
chatArea == <<active, entering, viewing>>

PostIds == 1 .. MaxPosts
Counts == 0 .. MaxPosts
NotCounted == MaxPosts + 1
\* The last message of an entry is one of the server's, or a text just `sent'
\* whose id and time the page made up; if its clock is ahead, that time is later.
Entries(unread) ==
  [chat : Chats, last : Counts, text : {"stored", "sent", "ahead"}, unread : unread, away : BOOLEAN]
NoFetch == [on |-> FALSE, left |-> {}, got |-> {}]

SideTypeOK ==
  /\ posted \in Seq([to : Chats, own : BOOLEAN, gone : BOOLEAN]) /\ Len(posted) <= MaxPosts
  /\ memberOf \subseteq Chats /\ filed \subseteq Chats /\ inRoom \subseteq Chats
  /\ readTo \in [Chats -> Counts] /\ untold \subseteq PostIds
  /\ marks \in [Chats -> Nat] /\ mine \in [Chats -> Nat] /\ asks \subseteq Chats
  /\ \A i \in DOMAIN news : news[i].ev \in {"message", "deleted", "added"}
  /\ \A e \in shown : e \in Entries(Nat)
  /\ active \in Chats \cup {Nobody} /\ viewing \subseteq PostIds /\ reading \subseteq PostIds
  /\ \A l \in entering : l.chat \in Chats /\ l.at \in {"asked", "read"} /\ l.last \in Counts
  /\ fetch.on \in BOOLEAN /\ fetch.left \subseteq BOOLEAN /\ fetch.got \subseteq Entries(Counts \cup {NotCounted})
  /\ filing \in Chats \cup {Nobody} /\ clicks \in 0 .. MaxClicks
  /\ looked \subseteq PostIds /\ stale \subseteq Chats

\* The page is opened; its access token starts the first fetch.
SideInit ==
  /\ posted = <<>> /\ memberOf \in SUBSET Chats /\ inRoom = memberOf
  /\ readTo = [c \in Chats |-> 0] /\ filed \in SUBSET memberOf
  /\ untold = {} /\ news = <<>> /\ marks = [c \in Chats |-> 0] /\ mine = marks /\ asks = {}
  /\ shown = {} /\ active = Nobody /\ entering = {} /\ viewing = {} /\ reading = {}
  /\ fetch = [NoFetch EXCEPT !.on = TRUE, !.left = BOOLEAN]
  /\ filing = Nobody /\ clicks = 0 /\ looked = {} /\ stale = {}

Click == clicks < MaxClicks /\ clicks' = clicks + 1

-----------------------------------------------------------------------------
(* What the server answers.                                                *)

InChat(c, n) == {i \in 1 .. n : posted[i].to = c /\ ~posted[i].gone}
LastMessage(c, n) == Max({0} \cup InChat(c, n))
UnreadCount(c, n) == Cardinality({i \in InChat(c, n) : ~posted[i].own /\ i > readTo[c]})
ChatEntry(c, n) == [chat |-> c, last |-> LastMessage(c, n), text |-> "stored",
                    unread |-> UnreadCount(c, n), away |-> c \in filed]
Answer(c, n) == IF c \in memberOf THEN {ChatEntry(c, n)} ELSE {}

\* saveMessage, ...
StorePosted(c, own) ==
  /\ c \in memberOf /\ Len(posted) < MaxPosts
  /\ posted' = Append(posted, [to |-> c, own |-> own, gone |-> FALSE])
  /\ untold' = untold \cup {Len(posted) + 1}
  /\ UNCHANGED <<memberOf, readTo, filed, news, marks, asks, inRoom, shown, chatArea,
                 reading, fetch, filing, clicks, looked, stale>>

\* ... of a text of another member or of another device, of a file, ...
PostMessage(c, own) == StorePosted(c, own) /\ UNCHANGED mine

\* ... and of a text this page has sent.
StoreMine(c) == mine[c] > 0 /\ mine' = [mine EXCEPT ![c] = @ - 1] /\ StorePosted(c, TRUE)

\* The text is queued, scheduled, not encrypted, or refused: nothing is
\* announced, and what the list shows for it stays there.
RefuseMine(c) ==
  /\ mine[c] > 0 /\ mine' = [mine EXCEPT ![c] = @ - 1]
  /\ stale' = stale \cup {c}
  /\ UNCHANGED <<serverSide, untold, news, marks, asks, inRoom, shown, chatArea, reading,
                 fetch, filing, clicks, looked>>

\* onMessage goes to the room: a page that is not yet in it misses it.
Announce(i) ==
  /\ i \in untold /\ untold' = untold \ {i}
  /\ IF posted[i].to \in inRoom
     THEN news' = Append(news, [ev |-> "message", id |-> i]) /\ UNCHANGED stale
     ELSE stale' = stale \cup {posted[i].to} /\ UNCHANGED news
  /\ UNCHANGED <<serverSide, marks, asks, mine, inRoom, shown, chatArea, reading, fetch, filing,
                 clicks, looked>>

\* deleteMessage, announced likewise.
DeletePosted(i) ==
  /\ Click /\ ~posted[i].gone
  /\ posted' = [posted EXCEPT ![i].gone = TRUE]
  /\ news' = IF posted[i].to \in inRoom THEN Append(news, [ev |-> "deleted", id |-> i]) ELSE news
  /\ stale' = stale \cup {posted[i].to}
  /\ UNCHANGED <<memberOf, readTo, filed, untold, marks, asks, mine, inRoom, shown, chatArea,
                 reading, fetch, filing, looked>>

\* The user is made a member; addedToConversation goes to the user's own room.
AddMember(c) ==
  /\ Click /\ c \notin memberOf
  /\ memberOf' = memberOf \cup {c} /\ news' = Append(news, [ev |-> "added", chat |-> c])
  /\ UNCHANGED <<posted, readTo, filed, untold, marks, asks, mine, inRoom, shown, chatArea,
                 reading, fetch, filing, looked, stale>>

\* joinConversation.
JoinRoom(c) ==
  /\ c \in asks /\ asks' = asks \ {c} /\ inRoom' = inRoom \cup {c}
  /\ UNCHANGED <<serverSide, untold, news, marks, mine, shown, chatArea, reading, fetch, filing,
                 clicks, looked, stale>>

\* markAsRead of this page.  It marks what is stored by now, and that may be
\* more than the page had seen.
MarkRead(c) ==
  /\ marks[c] > 0 /\ marks' = [marks EXCEPT ![c] = @ - 1]
  /\ readTo' = [readTo EXCEPT ![c] = Len(posted)]
  /\ stale' = IF {i \in InChat(c, Len(posted)) : i > readTo[c] /\ ~posted[i].own} \subseteq looked
              THEN stale ELSE stale \cup {c}
  /\ UNCHANGED <<posted, memberOf, filed, untold, news, asks, mine, inRoom, shown, chatArea,
                 reading, fetch, filing, clicks, looked>>

\* markAsRead of another device of the user: the list hears nothing of it.
ReadElsewhere(c) ==
  /\ Click /\ UnreadCount(c, Len(posted)) > 0
  /\ readTo' = [readTo EXCEPT ![c] = Len(posted)] /\ stale' = stale \cup {c}
  /\ UNCHANGED <<posted, memberOf, filed, transit, shown, chatArea, reading, fetch, filing, looked>>

-----------------------------------------------------------------------------
(* Fetching the list.                                                      *)

\* fetchConversations: nothing while one is in progress.  At most 20 chats and
\* 50 archived ones are asked for, in two requests.
FetchConversations ==
  fetch' = IF fetch.on THEN fetch ELSE [on |-> TRUE, left |-> BOOLEAN, got |-> {}]

\* Encryption becomes ready (or the access token changes).
Refetch ==
  /\ Click /\ FetchConversations
  /\ UNCHANGED <<serverSide, transit, shown, chatArea, reading, filing, looked, stale>>

\* getMyConversations: the memberships with their last messages ...
ReadMemberships(away) ==
  /\ away \in fetch.left
  /\ fetch' = [fetch EXCEPT !.left = @ \ {away}, !.got = @ \cup
                 {[ChatEntry(c, Len(posted)) EXCEPT !.unread = NotCounted] :
                    c \in {d \in memberOf : (d \in filed) = away}}]
  /\ UNCHANGED <<serverSide, transit, shown, chatArea, reading, filing, clicks, looked, stale>>

\* ... and then, for each, how many messages are unread since its lastReadAt.
CountUnread(e) ==
  /\ e \in fetch.got /\ e.unread = NotCounted
  /\ fetch' = [fetch EXCEPT !.got = (@ \ {e}) \cup
                 {[e EXCEPT !.unread = UnreadCount(e.chat, Len(posted))]}]
  /\ UNCHANGED <<serverSide, transit, shown, chatArea, reading, filing, clicks, looked, stale>>

Fetched == fetch.on /\ fetch.left = {} /\ \A e \in fetch.got : e.unread # NotCounted

\* The messages of a chat that the list has yet to be told of.
ToCome(c) ==
  {i \in 1 .. Len(posted) :
     /\ posted[i].to = c
     /\ i \in untold \cup reading \/ \E k \in DOMAIN news : news[k] = [ev |-> "message", id |-> i]}

\* History: what was fetched is the server's answer, but for messages that are
\* all unread and yet to be announced.
Accurate(c) ==
  /\ marks[c] = 0 /\ filing # c
  /\ \A l \in entering : l.chat # c
  /\ \A i \in viewing : posted[i].to # c
  /\ \A i \in ToCome(c) : ~posted[i].gone /\ i > readTo[c]
  /\ \E n \in 0 .. Len(posted) :
       /\ ToCome(c) = {i \in 1 .. Len(posted) : i > n /\ posted[i].to = c}
       /\ {e \in fetch.got : e.chat = c} = Answer(c, n)

\* Mutant of InstallFetched: what is there already is kept (as loadMore does).
KeepShown ==
  /\ Fetched
  /\ shown' = shown \cup {e \in fetch.got : \A old \in shown : old.chat # e.chat}
  /\ fetch' = NoFetch
  /\ stale' = {c \in Chats : ~Accurate(c)}
  /\ UNCHANGED <<serverSide, transit, chatArea, reading, filing, clicks, looked>>

\* setConversations with what was fetched, decrypted.
InstallFetched ==
  /\ Fetched /\ shown' = fetch.got /\ fetch' = NoFetch
  /\ stale' = {c \in Chats : ~Accurate(c)}
  /\ UNCHANGED <<serverSide, transit, chatArea, reading, filing, clicks, looked>>

\* A request fails: the list stays as it is.
FetchFails ==
  /\ fetch.on /\ clicks < MaxClicks /\ clicks' = clicks + 1
  /\ fetch' = NoFetch /\ stale' = Chats
  /\ UNCHANGED <<serverSide, transit, shown, chatArea, reading, filing, looked>>

-----------------------------------------------------------------------------
(* Events.                                                                 *)

Listed(c) == \E e \in shown : e.chat = c
InChatShown(c, Change(_)) == {IF e.chat = c THEN Change(e) ELSE e : e \in shown}

\* onMessage, of the list and of the open conversation, up to their awaits.  A
\* chat that is not in the list makes the list fetch.
TakeMessage ==
  /\ news # <<>> /\ Head(news).ev = "message" /\ news' = Tail(news)
  /\ LET i == Head(news).id
         c == posted[i].to IN
     /\ IF Listed(c) THEN reading' = reading \cup {i} /\ UNCHANGED fetch
                     ELSE FetchConversations /\ UNCHANGED reading
     /\ IF active = c THEN viewing' = viewing \cup {i} /\ looked' = looked \cup {i}
                      ELSE UNCHANGED <<viewing, looked>>
  /\ UNCHANGED <<serverSide, untold, marks, asks, mine, inRoom, shown, active, entering, filing,
                 clicks, stale>>

\* isNewer: a text of the page is of after the last message of its time.
IsNewer(e, i) == IF e.text = "stored" THEN i >= e.last ELSE i > e.last
More(e, i) == IF posted[i].own \/ active = e.chat THEN e.unread ELSE e.unread + 1


\* onMessage of the list after decryption: whether to count is decided by the
\* conversation open then, which need not be the one open when it arrived.
MessageListed(i) ==
  /\ i \in reading /\ reading' = reading \ {i}
  /\ LET c == posted[i].to
         Change(e) == [e EXCEPT !.last = IF IsNewer(e, i) THEN i ELSE @,
                                !.text = IF IsNewer(e, i) THEN "stored" ELSE @,
                                !.unread = More(e, i)] IN
     /\ shown' = InChatShown(c, Change)
     /\ stale' = IF i \in looked /\ active # c /\ ~posted[i].own THEN stale \cup {c} ELSE stale
  /\ UNCHANGED <<serverSide, transit, chatArea, fetch, filing, clicks, looked>>

\* onDeleted: no earlier message takes its place, and nothing is uncounted.
OnDeleted ==
  /\ news # <<>> /\ Head(news).ev = "deleted" /\ news' = Tail(news)
  /\ LET i == Head(news).id
         Change(e) == [e EXCEPT !.last = IF @ = i /\ e.text = "stored" THEN 0 ELSE @] IN
     shown' = InChatShown(posted[i].to, Change)
  /\ UNCHANGED <<serverSide, untold, marks, asks, mine, inRoom, chatArea, reading, fetch, filing,
                 clicks, looked, stale>>

\* onAdded: it fetches and asks for the room.
OnAdded ==
  /\ news # <<>> /\ Head(news).ev = "added" /\ news' = Tail(news)
  /\ FetchConversations /\ asks' = asks \cup {Head(news).chat}
  /\ UNCHANGED <<serverSide, untold, marks, mine, inRoom, shown, chatArea, reading, filing,
                 clicks, looked, stale>>

-----------------------------------------------------------------------------
(* The open conversation.                                                  *)

\* handleSelectConversation: the chat area starts to load, and leaving it (for
\* the list, Nobody) aborts what was not answered; markConversationRead.
Select(c) ==
  /\ Click /\ c # active /\ (c = Nobody \/ Listed(c))
  /\ active' = c
  /\ \E done \in SUBSET {l \in entering : l.at = "read"} :
       /\ entering' = done \cup IF c = Nobody THEN {} ELSE {[chat |-> c, at |-> "asked", last |-> 0]}
       /\ stale' = stale \cup {l.chat : l \in entering \ done}
  /\ LET Change(e) == [e EXCEPT !.unread = 0] IN
     shown' = IF c = Nobody THEN shown ELSE InChatShown(c, Change)
  /\ looked' = looked \cup {i \in 1 .. Len(posted) : posted[i].to = c}
  /\ UNCHANGED <<serverSide, transit, viewing, reading, fetch, filing>>

\* The messages of the conversation are read for the page.
PageRead(l) ==
  /\ l \in entering /\ l.at = "asked"
  /\ entering' = (entering \ {l}) \cup {[l EXCEPT !.at = "read", !.last = LastMessage(l.chat, Len(posted))]}
  /\ looked' = looked \cup {i \in 1 .. Len(posted) : posted[i].to = l.chat}
  /\ UNCHANGED <<serverSide, transit, shown, active, viewing, reading, fetch, filing, clicks, stale>>

\* handleSubmit: the text is sent, and the list shows it at once, with an id and
\* the time of the page's clock, here the messages there were by then.
SendMine(c, at) ==
  /\ Click /\ c = active /\ c # Nobody
  /\ mine' = [mine EXCEPT ![c] = @ + 1]
  /\ LET Change(e) == [e EXCEPT !.last = at, !.text = IF at > Len(posted) THEN "ahead" ELSE "sent"] IN
     shown' = InChatShown(c, Change)
  /\ UNCHANGED <<serverSide, untold, news, marks, asks, inRoom, chatArea, reading, fetch, filing,
                 looked, stale>>

\* onDecryptedMessage: the chat area sets the last message of the list without
\* comparing; a peer's message at the end of it makes the list forget the count.
Preview(c, i) ==
  LET Change(e) == [e EXCEPT !.last = IF i = 0 THEN @ ELSE i,
                             !.text = IF i = 0 THEN @ ELSE "stored",
                             !.unread = IF i # 0 /\ active = c /\ ~posted[i].own THEN 0 ELSE @] IN
  /\ shown' = InChatShown(c, Change)
  /\ stale' = IF /\ i # 0
                 /\ \E e \in shown : /\ e.chat = c
                                     /\ IF e.text = "stored" THEN e.last > i
                                        ELSE \E j \in InChat(c, Len(posted)) \ ToCome(c) : j > i
              THEN stale \cup {c} ELSE stale

\* The initial load is on the screen: markAsRead, and the last message.
PageShown(l) ==
  /\ l \in entering /\ l.at = "read" /\ entering' = entering \ {l}
  /\ marks' = [marks EXCEPT ![l.chat] = @ + 1]
  /\ Preview(l.chat, l.last)
  /\ UNCHANGED <<serverSide, untold, news, asks, mine, inRoom, active, viewing, reading, fetch, filing,
                 clicks, looked>>

\* onMessage of useMessages after decryption; it marks what others wrote as read.
MessageViewed(i) ==
  /\ i \in viewing /\ viewing' = viewing \ {i}
  /\ marks' = IF posted[i].own THEN marks ELSE [marks EXCEPT ![posted[i].to] = @ + 1]
  /\ Preview(posted[i].to, i)
  /\ UNCHANGED <<serverSide, untold, news, asks, mine, inRoom, active, entering, reading, fetch, filing,
                 clicks, looked>>

\* setChatArchived, and handleArchiveChat after its answer.
Archive(c) ==
  /\ Click /\ filing = Nobody /\ Listed(c) /\ c \in memberOf
  /\ filed' = IF c \in filed THEN filed \ {c} ELSE filed \cup {c}
  /\ filing' = c
  /\ UNCHANGED <<posted, memberOf, readTo, transit, shown, chatArea, reading, fetch, looked, stale>>
Archived ==
  /\ filing # Nobody /\ filing' = Nobody
  /\ LET Change(e) == [e EXCEPT !.away = filing \in filed] IN shown' = InChatShown(filing, Change)
  /\ UNCHANGED <<serverSide, transit, chatArea, reading, fetch, clicks, looked, stale>>

SideNext ==
  \/ \E c \in Chats : \/ \E own \in BOOLEAN : PostMessage(c, own)
                      \/ StoreMine(c) \/ RefuseMine(c) \/ \E at \in Counts : SendMine(c, at)
                      \/ AddMember(c) \/ JoinRoom(c) \/ MarkRead(c) \/ ReadElsewhere(c) \/ Archive(c)
  \/ \E i \in 1 .. Len(posted) : Announce(i) \/ DeletePosted(i) \/ MessageListed(i) \/ MessageViewed(i)
  \/ Refetch \/ \E away \in BOOLEAN : ReadMemberships(away)
  \/ \E e \in fetch.got : CountUnread(e)
  \/ InstallFetched \/ FetchFails \/ TakeMessage \/ OnDeleted \/ OnAdded \/ Archived
  \/ \E c \in Chats \cup {Nobody} : Select(c)
  \/ \E l \in entering : PageRead(l) \/ PageShown(l)

-----------------------------------------------------------------------------
AtRest ==
  /\ untold = {} /\ news = <<>> /\ asks = {} /\ marks = [c \in Chats |-> 0] /\ mine = marks
  /\ reading = {} /\ viewing = {} /\ entering = {} /\ ~fetch.on /\ filing = Nobody

\* When everything has arrived, the list shows what the server would answer:
\* each chat of the user once, with its last message and its unread count,
\* however fetches, events, own texts, decryption and read marks interleave.
\* Excepted are the chats that were left `stale' by one of the known races or by
\* an own text that was not stored, and those where the time of an own text,
\* of a clock that is ahead, still hides the messages since.
ListRight ==
  AtRest => \A c \in Chats \ stale :
    LET listed == {e \in shown : e.chat = c} IN
    listed = Answer(c, Len(posted)) \/ \E e \in listed : e.text = "ahead"


SideSpec == SideInit /\ [][SideNext]_sideVars
=============================================================================
