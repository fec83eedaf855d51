---------------------------- MODULE Conversations ----------------------------
(***************************************************************************)
(* Who is in which conversation, and whose sockets are in its room:        *)
(* conversations.service.ts and conversations.controller.ts, the           *)
(* connection handlers of chat.gateway.ts with the `activeUsers' map and   *)
(* the isOnline column, friends.service.ts, and the conversation list a    *)
(* page keeps (useConversations.ts, SideBar.tsx).                          *)
(*                                                                         *)
(* A handler reads the database, then writes it, and other handlers run in *)
(* between: each is a first step, with all its reads, which leaves a job,  *)
(* and a step that ends the job.  A channel is a group created with nobody *)
(* else in it.                                                             *)
(***************************************************************************)
EXTENDS Naturals, Sequences, FiniteSets

CONSTANTS Tabs,      \* open pages, each with its socket
          Users,
          Owner,     \* Owner[t]: the user whose tab t is
          Connected, \* the tabs connected at the start
          MaxOps,    \* bound: operations users and network ever start
          MaxConvs   \* bound: conversations ever created

ASSUME ConversationsConstants ==
  Owner \in [Tabs -> Users] /\ Connected \subseteq Tabs /\ MaxOps \in Nat /\ MaxConvs \in Nat

Convs == 1 .. MaxConvs
Roles == {"none", "member", "admin", "owner"}
NoConv == [u \in Users |-> "none"]

VARIABLES
  kind,      \* the conversations, in the order of creation: direct or group
  role,      \* role[c][u]: the ConversationMember row of u in c
  friends,   \* the Friendship rows
  inUser,    \* the sockets in the room of their user
  rooms,     \* rooms[t]: the conversation rooms t's socket is in
  active,    \* activeUsers
  online,    \* the users whose isOnline is set
  list,      \* list[t]: the conversations page t shows
  fetch,     \* fetch[t]: fetchConversations in progress on t
  added,     \* inbox: addedToConversation events not yet handled, per tab
  jobs,      \* handlers that have read and not yet written
  ops,       \* operations started
  invited,   \* history: <<c, u>>, u was put in c by somebody else
  owned,     \* history: <<c, u>>, u has been an owner of c
  late,      \* history: tabs that missed an event, or whose refresh was dropped or failed
  muddled,   \* history: users whose connection handlers overlapped
  doubled    \* history: pairs who asked the server for the same thing at once

vars == <<kind, role, friends, inUser, rooms, active, online, list, fetch, added,
          jobs, ops, invited, owned, late, muddled, doubled>>
members == <<kind, role, invited, owned>>
sockets == <<inUser, rooms>>
presence == <<active, online, muddled>>
pages == <<list, fetch, added, late>>
contacts == <<friends, doubled>>

Rows == [from : Users, to : Users, status : {"pending", "accepted", "declined"}]
NoFetch == [at |-> "none", seen |-> {}]

\* tab: who asked; conv, to: what about (0 and the user himself where unused);
\* with: what was read.
Job(op, t, c, u, with) == [op |-> op, tab |-> t, conv |-> c, to |-> u, with |-> with]

TypeOK ==
  /\ kind \in Seq({"direct", "group"}) /\ Len(kind) <= MaxConvs
  /\ role \in [Convs -> [Users -> Roles]]
  /\ friends \in SUBSET Rows
  /\ inUser \in SUBSET Tabs /\ rooms \in [Tabs -> SUBSET Convs]
  /\ active \in SUBSET Tabs /\ online \in SUBSET Users
  /\ list \in [Tabs -> SUBSET Convs]
  /\ fetch \in [Tabs -> [at : {"none", "sent", "read"}, seen : SUBSET Convs]]
  /\ added \in [Tabs -> SUBSET Convs]
  /\ \A j \in jobs : j.tab \in Tabs /\ j.conv \in 0 .. MaxConvs /\ j.to \in Users
  /\ ops \in 0 .. MaxOps
  /\ invited \in SUBSET (Convs \X Users) /\ owned \in SUBSET (Convs \X Users)
  /\ late \in SUBSET Tabs /\ muddled \in SUBSET Users
  /\ doubled \in SUBSET ({"direct", "request"} \X SUBSET Users)

Init ==
  /\ kind = <<>> /\ role = [c \in Convs |-> NoConv] /\ friends = {}
  /\ inUser = Connected /\ active = Connected
  /\ online = {Owner[t] : t \in Connected}
  /\ rooms = [t \in Tabs |-> {}] /\ list = [t \in Tabs |-> {}]
  /\ fetch = [t \in Tabs |-> NoFetch] /\ added = [t \in Tabs |-> {}]
  /\ jobs = {} /\ ops = 0
  /\ invited = {} /\ owned = {} /\ late = {} /\ muddled = {} /\ doubled = {}

Of(u) == {t \in Tabs : Owner[t] = u}
Mine(u) == {c \in Convs : role[c][u] # "none"}
Admin(u, c) == role[c][u] \in {"admin", "owner"}
Serve == ops < MaxOps /\ ops' = ops + 1
Ends(j) == jobs' = jobs \ {j}
Becomes(j, k) == jobs' = (jobs \ {j}) \cup {k}
Busy(t, Ops) == \E j \in jobs : j.tab = t /\ j.op \in Ops

-----------------------------------------------------------------------------
(* Connecting and disconnecting.                                           *)

PresenceJobs == {"read", "join", "online", "leave", "offline"}
Overlap(u) == \E t \in Of(u) : Busy(t, PresenceJobs)

\* handleConnection up to the memberships query: the socket counts, and is in
\* the room of its user.  A reloaded page also fetches its list; a socket that
\* reconnects does not.  (Bound: once the server is done with the last socket.)
Connect(t, reload) ==
  /\ t \notin active /\ ~Busy(t, PresenceJobs) /\ Serve
  /\ active' = active \cup {t} /\ inUser' = inUser \cup {t}
  /\ jobs' = jobs \cup {Job("read", t, 0, Owner[t], {})}
  /\ muddled' = muddled \cup {u \in {Owner[t]} : Overlap(u)}
  /\ fetch' = IF reload THEN [fetch EXCEPT ![t] = [at |-> "sent", seen |-> {}]] ELSE fetch
  /\ list' = IF reload THEN [list EXCEPT ![t] = {}] ELSE list
  /\ late' = IF reload THEN late \ {t} ELSE late
  /\ UNCHANGED <<members, contacts, online, rooms, added>>

ReadMemberships ==
  \E j \in jobs :
    /\ j.op = "read"
    /\ Becomes(j, [j EXCEPT !.op = "join", !.with = Mine(Owner[j.tab])])
    /\ UNCHANGED <<members, contacts, sockets, presence, pages, ops>>

\* handleConnection after the query: the rooms, and the first socket of a user
\* sets isOnline.  A socket that is gone by now joins nothing.
JoinRooms ==
  \E j \in jobs :
    LET u == Owner[j.tab] IN
    /\ j.op = "join"
    /\ rooms' = IF j.tab \in inUser THEN [rooms EXCEPT ![j.tab] = @ \cup j.with] ELSE rooms
    /\ IF Cardinality(active \cap Of(u)) = 1 THEN Becomes(j, [j EXCEPT !.op = "online", !.with = {}])
                                             ELSE Ends(j)
    /\ UNCHANGED <<members, contacts, inUser, presence, pages, ops>>

\* Mutant of SetOnline: the socket is set online in place of its user.
SetOnlineSocket ==
  \E j \in jobs :
    /\ j.op = "online" /\ Ends(j)
    /\ online' = online \cup {j.tab}
    /\ UNCHANGED <<members, contacts, sockets, active, muddled, pages, ops>>

SetOnline ==
  \E j \in jobs :
    /\ j.op = "online" /\ Ends(j)
    /\ online' = online \cup {Owner[j.tab]}
    /\ UNCHANGED <<members, contacts, sockets, active, muddled, pages, ops>>

\* The socket is lost: it leaves its rooms, and handleDisconnect begins by
\* looking for a sync session.
Disconnect(t) ==
  /\ t \in active /\ ~Busy(t, {"leave"}) /\ Serve
  /\ inUser' = inUser \ {t} /\ rooms' = [rooms EXCEPT ![t] = {}]
  /\ added' = [added EXCEPT ![t] = {}]
  /\ late' = IF added[t] = {} THEN late ELSE late \cup {t}
  /\ muddled' = muddled \cup {u \in {Owner[t]} : Overlap(u)}
  /\ jobs' = jobs \cup {Job("leave", t, 0, Owner[t], {})}
  /\ UNCHANGED <<members, contacts, active, online, list, fetch>>

\* Mutant of Leave: any socket that goes sets its user offline.
LeaveAny ==
  \E j \in jobs :
    /\ j.op = "leave"
    /\ active' = active \ {j.tab}
    /\ Becomes(j, [j EXCEPT !.op = "offline"])
    /\ UNCHANGED <<members, contacts, sockets, online, muddled, pages, ops>>

\* handleDisconnect: the last socket of a user sets him offline.
Leave ==
  \E j \in jobs :
    /\ j.op = "leave"
    /\ active' = active \ {j.tab}
    /\ IF active \cap Of(j.to) = {j.tab} THEN Becomes(j, [j EXCEPT !.op = "offline"]) ELSE Ends(j)
    /\ UNCHANGED <<members, contacts, sockets, online, muddled, pages, ops>>

SetOffline ==
  \E j \in jobs :
    /\ j.op = "offline" /\ Ends(j)
    /\ online' = online \ {j.to}
    /\ UNCHANGED <<members, contacts, sockets, active, muddled, pages, ops>>

\* The server stops and starts: sockets, rooms and handlers are gone, the
\* database is as it was; nothing resets isOnline.
Restart ==
  /\ Serve
  /\ inUser' = {} /\ rooms' = [t \in Tabs |-> {}] /\ active' = {} /\ jobs' = {}
  /\ added' = [t \in Tabs |-> {}]
  /\ fetch' = [t \in Tabs |-> NoFetch]
  /\ late' = Tabs /\ muddled' = Users
  /\ UNCHANGED <<members, contacts, online, list>>

-----------------------------------------------------------------------------
(* Conversations.                                                          *)

Pair(t, u) == {Owner[t], u}
IsDirect(c, P) == kind[c] = "direct" /\ {u \in Users : role[c][u] # "none"} = P
Doubles(op, P) == {<<op, Q>> : Q \in {Pair(j.tab, j.to) : j \in {i \in jobs : i.op = op}} \cap {P}}
DirectsOf(P) == {c \in 1 .. Len(kind) : IsDirect(c, P)}

NewConv(k, rs) ==
  /\ Len(kind) < MaxConvs
  /\ kind' = Append(kind, k)
  /\ role' = [role EXCEPT ![Len(kind) + 1] = rs]

\* openDirect, and openSaved for u the user himself, on a page that lists no
\* such conversation, and getOrCreateDirect up to its query.
OpenDirect(t, u) ==
  /\ t \in active /\ ~Busy(t, {"direct"}) /\ Serve
  /\ list[t] \cap DirectsOf(Pair(t, u)) = {}
  /\ jobs' = jobs \cup {Job("direct", t, 0, u, DirectsOf(Pair(t, u)))}
  /\ doubled' = doubled \cup Doubles("direct", Pair(t, u))
  /\ UNCHANGED <<members, friends, sockets, presence, pages>>

\* Mutant of CreateDirect: a new conversation every time.
CreateDirectAlways ==
  \E j \in jobs :
    /\ j.op = "direct"
    /\ NewConv("direct", [u \in Users |-> IF u \in Pair(j.tab, j.to) THEN "member" ELSE "none"])
    /\ Becomes(j, [j EXCEPT !.op = "opened", !.conv = Len(kind) + 1, !.with = {}])
    /\ UNCHANGED <<invited, owned, contacts, sockets, presence, pages, ops>>

\* getOrCreateDirect: the conversation it found, or a new one.  Nobody but the
\* caller hears of it.
CreateDirect ==
  \E j \in jobs :
    /\ j.op = "direct"
    /\ \/ /\ j.with # {}
          /\ \E c \in j.with : Becomes(j, [j EXCEPT !.op = "opened", !.conv = c, !.with = {}])
          /\ UNCHANGED <<kind, role>>
       \/ /\ j.with = {}
          /\ NewConv("direct", [u \in Users |-> IF u \in Pair(j.tab, j.to) THEN "member" ELSE "none"])
          /\ Becomes(j, [j EXCEPT !.op = "opened", !.conv = Len(kind) + 1, !.with = {}])
    /\ UNCHANGED <<invited, owned, contacts, sockets, presence, pages, ops>>

\* createGroup, createChannel: the caller owns the conversation; everybody else
\* in it is notified before the caller is answered.
CreateGroup(t, others) ==
  LET c == Len(kind) + 1 IN
  /\ t \in active /\ Owner[t] \notin others /\ Serve
  /\ NewConv("group", [u \in Users |-> IF u = Owner[t] THEN "owner"
                                       ELSE IF u \in others THEN "member" ELSE "none"])
  /\ invited' = invited \cup ({c} \X others) /\ owned' = owned \cup {<<c, Owner[t]>>}
  /\ jobs' = jobs \cup {Job("notify", t, c, u, {}) : u \in others}
                  \cup {Job("opened", t, c, u, {}) : u \in {v \in {Owner[t]} : others = {}}}
  /\ UNCHANGED <<contacts, sockets, presence, pages>>

\* The page that asked gets the conversation, lists it and joins its room.
Opened ==
  \E j \in jobs :
    /\ j.op = "opened" /\ Ends(j)
    /\ list' = [list EXCEPT ![j.tab] = @ \cup {j.conv}]
    /\ rooms' = IF j.tab \in inUser THEN [rooms EXCEPT ![j.tab] = @ \cup {j.conv}] ELSE rooms
    /\ UNCHANGED <<members, contacts, inUser, presence, fetch, added, late, ops>>

\* addMember, up to its last query.
AddMember(t, c, u) ==
  /\ t \in active /\ Serve
  /\ kind[c] = "group" /\ Admin(Owner[t], c) /\ role[c][u] = "none"
  /\ jobs' = jobs \cup {Job("add", t, c, u, {})}
  /\ UNCHANGED <<members, contacts, sockets, presence, pages>>

\* Mutant of MemberAdded: nobody is notified.
MemberAddedSilently ==
  \E j \in jobs :
    /\ j.op = "add" /\ Ends(j)
    /\ role' = [role EXCEPT ![j.conv][j.to] = IF @ = "none" THEN "member" ELSE @]
    /\ invited' = invited \cup {<<j.conv, j.to>>}
    /\ UNCHANGED <<kind, owned, contacts, sockets, presence, pages, ops>>

\* addMember's create, which fails if the row exists by now.
MemberAdded ==
  \E j \in jobs :
    /\ j.op = "add"
    /\ IF role[j.conv][j.to] = "none"
       THEN /\ role' = [role EXCEPT ![j.conv][j.to] = "member"]
            /\ invited' = invited \cup {<<j.conv, j.to>>}
            /\ Becomes(j, [j EXCEPT !.op = "notify"])
       ELSE Ends(j) /\ UNCHANGED <<role, invited>>
    /\ UNCHANGED <<kind, owned, contacts, sockets, presence, pages, ops>>

\* notifyUserJoinRoom: fetchSockets ...
FetchSockets ==
  \E j \in jobs :
    /\ j.op = "notify"
    /\ Becomes(j, [j EXCEPT !.op = "notified", !.with = Of(j.to) \cap inUser])
    /\ UNCHANGED <<members, contacts, sockets, presence, pages, ops>>

\* ... then the sockets found join the room, and the room of the user is told.
\* The caller of createGroup is answered after the last one.
Notified ==
  \E j \in jobs :
    LET others == {k \in jobs \ {j} : k.op \in {"notify", "notified"} /\ k.conv = j.conv}
        told == Of(j.to) \cap inUser IN
    /\ j.op = "notified"
    /\ rooms' = [t \in Tabs |-> IF t \in j.with \cap inUser THEN rooms[t] \cup {j.conv} ELSE rooms[t]]
    /\ added' = [t \in Tabs |-> IF t \in told THEN added[t] \cup {j.conv} ELSE added[t]]
    /\ late' = late \cup (Of(j.to) \ told)
    /\ IF others = {} THEN Becomes(j, Job("opened", j.tab, j.conv, Owner[j.tab], {})) ELSE Ends(j)
    /\ UNCHANGED <<members, contacts, inUser, presence, list, fetch, ops>>

\* Mutant of RemoveMember: the owner may be removed too.
RemoveMemberAny(t, c, u) ==
  /\ t \in active /\ Serve
  /\ kind[c] = "group"
  /\ u # Owner[t] => Admin(Owner[t], c)
  /\ jobs' = jobs \cup {Job("remove", t, c, u, {role[c][u]})}
  /\ UNCHANGED <<members, contacts, sockets, presence, pages>>

\* removeMember, up to its last query: an admin, or the member himself.
RemoveMember(t, c, u) ==
  /\ t \in active /\ Serve
  /\ kind[c] = "group"
  /\ u # Owner[t] => Admin(Owner[t], c) /\ role[c][u] # "owner"
  /\ jobs' = jobs \cup {Job("remove", t, c, u, {role[c][u]})}
  /\ UNCHANGED <<members, contacts, sockets, presence, pages>>

\* removeMember's deletes: the sockets of the member stay in the room.
MemberRemoved ==
  \E j \in jobs :
    /\ j.op = "remove" /\ Ends(j)
    /\ role' = [role EXCEPT ![j.conv][j.to] = "none"]
    /\ invited' = invited \ {<<j.conv, j.to>>}
    /\ UNCHANGED <<kind, owned, contacts, sockets, presence, pages, ops>>

\* setMemberRole, up to its query: an owner, of any member, himself too.  The
\* role asked for is not validated, so that it may be the owner's as well.
SetRole(t, c, u, r) ==
  /\ t \in active /\ Serve
  /\ role[c][Owner[t]] = "owner"
  /\ jobs' = jobs \cup {Job("role", t, c, u, {r})}
  /\ UNCHANGED <<members, contacts, sockets, presence, pages>>

\* setMemberRole's update, which fails if the member is gone by now.
RoleSet ==
  \E j \in jobs :
    /\ j.op = "role" /\ Ends(j)
    /\ IF role[j.conv][j.to] = "none" THEN UNCHANGED <<role, owned>>
       ELSE \E r \in j.with :
              /\ role' = [role EXCEPT ![j.conv][j.to] = r]
              /\ owned' = owned \cup {p \in {<<j.conv, j.to>>} : r = "owner"}
    /\ UNCHANGED <<kind, invited, contacts, sockets, presence, pages, ops>>

-----------------------------------------------------------------------------
(* The list of a page.                                                     *)

\* fetchConversations does nothing while one is in progress.
Refresh(t) ==
  IF fetch[t].at = "none"
  THEN fetch' = [fetch EXCEPT ![t] = [at |-> "sent", seen |-> {}]] /\ UNCHANGED late
  ELSE late' = late \cup {t} /\ UNCHANGED fetch

\* getMyConversations: whatever the page missed is in there.
FetchRead(t) ==
  /\ fetch[t].at = "sent"
  /\ fetch' = [fetch EXCEPT ![t] = [at |-> "read", seen |-> Mine(Owner[t])]]
  /\ late' = late \ {t}
  /\ UNCHANGED <<members, contacts, sockets, presence, list, added, jobs, ops>>

\* The answer, decrypted, replaces the list.
FetchArrives(t) ==
  /\ fetch[t].at = "read"
  /\ list' = [list EXCEPT ![t] = fetch[t].seen]
  /\ fetch' = [fetch EXCEPT ![t] = NoFetch]
  /\ UNCHANGED <<members, contacts, sockets, presence, added, late, jobs, ops>>

\* The request fails, or its answer is lost: the list stays as it was, and
\* nothing tries again.
FetchFails(t) ==
  /\ fetch[t].at # "none"
  /\ fetch' = [fetch EXCEPT ![t] = NoFetch]
  /\ late' = late \cup {t}
  /\ UNCHANGED <<members, contacts, sockets, presence, list, added, jobs, ops>>

\* Mutant of OnAdded: the room is joined and the list left alone.
OnAddedJoins(t) ==
  \E c \in added[t] :
    /\ added' = [added EXCEPT ![t] = @ \ {c}]
    /\ rooms' = IF t \in inUser THEN [rooms EXCEPT ![t] = @ \cup {c}] ELSE rooms
    /\ UNCHANGED <<members, contacts, inUser, presence, fetch, list, late, jobs, ops>>

\* onAdded: fetch, and joinConversation.
OnAdded(t) ==
  \E c \in added[t] :
    /\ added' = [added EXCEPT ![t] = @ \ {c}]
    /\ rooms' = IF t \in inUser THEN [rooms EXCEPT ![t] = @ \cup {c}] ELSE rooms
    /\ Refresh(t)
    /\ UNCHANGED <<members, contacts, inUser, presence, list, jobs, ops>>

\* onMessage about a conversation the page does not list.
OnMessage(t) ==
  /\ rooms[t] \ list[t] # {} /\ fetch[t].at = "none"
  /\ Refresh(t)
  /\ UNCHANGED <<members, contacts, sockets, presence, list, added, jobs, ops>>

-----------------------------------------------------------------------------
(* Friendships.                                                            *)

Between(P) == {f \in friends : {f.from, f.to} = P}

\* A handler has found row f and is about to write it.
Found(op, t, f, with) ==
  /\ Serve
  /\ jobs' = jobs \cup {Job(op, t, 0, f.to, {[from |-> f.from, to |-> f.to, status |-> with]})}
  /\ UNCHANGED <<members, contacts, sockets, presence, pages>>

\* Writes go by id: one that finds the row deleted fails.
Holds(j, f) ==
  /\ j.op \in {"respond", "delete", "request"}
  /\ \E g \in j.with : g.from = f.from /\ g.to = f.to
Deleted(js, f) == {j \in js : ~Holds(j, f)}

\* Mutant of SendRequest: only a request the same way round is found.
SendRequestOneWay(t, u) ==
  LET rows == {f \in friends : f.from = Owner[t] /\ f.to = u} IN
  /\ t \in active /\ u # Owner[t] /\ Serve
  /\ \A f \in rows : f.status = "declined"
  /\ jobs' = jobs \cup {Job("request", t, 0, u, rows)}
  /\ doubled' = doubled \cup Doubles("request", Pair(t, u))
  /\ UNCHANGED <<members, friends, sockets, presence, pages>>

\* sendRequest up to its query, which takes any row between the two.
SendRequest(t, u) ==
  LET rows == Between(Pair(t, u)) IN
  /\ t \in active /\ u # Owner[t] /\ Serve
  /\ \E found \in {{}} \cup {{f} : f \in rows} :
       /\ found = {} => rows = {}
       /\ \A f \in found : f.status = "declined"
       /\ jobs' = jobs \cup {Job("request", t, 0, u, found)}
  /\ doubled' = doubled \cup Doubles("request", Pair(t, u))
  /\ UNCHANGED <<members, friends, sockets, presence, pages>>

\* sendRequest: the declined row goes ...
DeclinedGone ==
  \E j \in jobs : \E f \in j.with :
    /\ j.op = "request"
    /\ friends' = {g \in friends : ~(g.from = f.from /\ g.to = f.to)}
    /\ jobs' = Deleted(jobs \ {j}, f) \cup {[j EXCEPT !.with = {}]}
    /\ UNCHANGED <<members, doubled, sockets, presence, pages, ops>>

\* ... and the request is created, which fails if there is one this way round.
RequestCreated ==
  \E j \in jobs :
    /\ j.op = "request" /\ j.with = {} /\ Ends(j)
    /\ friends' = friends \cup
         {f \in {[from |-> Owner[j.tab], to |-> j.to, status |-> "pending"]} :
            \A g \in friends : ~(g.from = f.from /\ g.to = f.to)}
    /\ UNCHANGED <<members, doubled, sockets, presence, pages, ops>>

\* respond: the receiver of a pending request.
Respond(t, f, answer) ==
  /\ t \in active /\ f.to = Owner[t] /\ f.status = "pending"
  /\ Found("respond", t, f, answer)

\* cancelRequest: the sender of a pending request.
CancelRequest(t, f) ==
  /\ t \in active /\ f.from = Owner[t] /\ f.status = "pending"
  /\ Found("delete", t, f, "pending")

\* removeFriend: either of two friends.
RemoveFriend(t, f) ==
  /\ t \in active /\ Owner[t] \in {f.from, f.to} /\ f.status = "accepted"
  /\ Found("delete", t, f, "accepted")

\* respond's update, whatever the status is by now.
Responded ==
  \E j \in jobs : \E f \in j.with :
    /\ j.op = "respond" /\ Ends(j)
    /\ friends' = {IF g.from = f.from /\ g.to = f.to THEN f ELSE g : g \in friends}
    /\ UNCHANGED <<members, doubled, sockets, presence, pages, ops>>

\* The delete of cancelRequest and removeFriend.
FriendshipDeleted ==
  \E j \in jobs : \E f \in j.with :
    /\ j.op = "delete"
    /\ friends' = {g \in friends : ~(g.from = f.from /\ g.to = f.to)}
    /\ jobs' = Deleted(jobs \ {j}, f)
    /\ UNCHANGED <<members, doubled, sockets, presence, pages, ops>>

-----------------------------------------------------------------------------
Connection ==
  \/ \E t \in Tabs : (\E reload \in BOOLEAN : Connect(t, reload)) \/ Disconnect(t)
  \/ ReadMemberships \/ JoinRooms \/ SetOnline \/ Leave \/ SetOffline \/ Restart

Membership ==
  \/ \E t \in Tabs : \/ \E u \in Users : OpenDirect(t, u)
                    \/ \E others \in SUBSET Users : CreateGroup(t, others)
  \/ \E t \in Tabs, c \in 1 .. Len(kind), u \in Users :
       \/ AddMember(t, c, u) \/ RemoveMember(t, c, u)
       \/ \E r \in {"member", "admin", "owner"} : SetRole(t, c, u, r)
  \/ CreateDirect \/ MemberAdded \/ MemberRemoved \/ RoleSet
  \/ FetchSockets \/ Notified \/ Opened

List == \E t \in Tabs : FetchRead(t) \/ FetchArrives(t) \/ FetchFails(t) \/ OnAdded(t) \/ OnMessage(t)

Friendship ==
  \/ \E t \in Tabs, u \in Users : SendRequest(t, u)
  \/ \E t \in Tabs, f \in friends :
       \/ CancelRequest(t, f) \/ RemoveFriend(t, f)
       \/ \E answer \in {"accepted", "declined"} : Respond(t, f, answer)
  \/ DeclinedGone \/ RequestCreated \/ Responded \/ FriendshipDeleted

Next == Connection \/ Membership \/ List \/ Friendship

Spec == Init /\ [][Next]_vars

-----------------------------------------------------------------------------
(* Properties.                                                             *)

About(c, u, Ops) == \E j \in jobs : j.op \in Ops /\ j.conv = c /\ j.to = u

\* A user whom somebody else put in a conversation hears it on every socket,
\* whether the socket was there or came meanwhile: fetchSockets of
\* notifyUserJoinRoom and the memberships read by handleConnection leave no gap.
AddedHear ==
  \A t \in inUser : \A c \in Convs :
    <<c, Owner[t]>> \in invited /\ ~About(c, Owner[t], {"notify", "notified"})
      /\ ~Busy(t, {"read", "join"})
    => c \in rooms[t]

\* His pages list it once they have handled their events, except one that lost
\* an event, or whose last fetch was dropped or failed (onAdded, fetchConversations).
AddedListed ==
  \A t \in inUser \ late : \A c \in Convs :
    <<c, Owner[t]>> \in invited /\ ~About(c, Owner[t], {"notify", "notified"})
      /\ fetch[t].at = "none" /\ added[t] = {}
    => c \in list[t]

\* Whoever is added hears of it and sees the conversation.
AddedReached == AddedHear /\ AddedListed

\* isOnline is right when the connection handlers of a user are done, unless two
\* of them overlapped (handleConnection, handleDisconnect).
OnlineRight ==
  \A u \in Users \ muddled : Overlap(u) \/ (u \in online <=> active \cap Of(u) # {})

\* Two users have one direct conversation, and a user one with himself, unless
\* they opened it at the same time (getOrCreateDirect).
OneDirect ==
  \A P \in SUBSET Users : <<"direct", P>> \in doubled \/ Cardinality(DirectsOf(P)) <= 1

\* Two users have one friendship row, unless two requests crossed (sendRequest).
OneFriendship ==
  \A P \in SUBSET Users : <<"request", P>> \in doubled \/ Cardinality(Between(P)) <= 1

\* What exists once per pair of users does, whoever is added to a conversation
\* hears of it and sees it, and isOnline tells who is there (getOrCreateDirect,
\* sendRequest, addMember, onAdded, handleDisconnect).
DirectoryInv == TypeOK /\ OneDirect /\ OneFriendship /\ AddedReached /\ OnlineRight

\* Only somebody who has been an owner of the conversation ends an ownership,
\* his own or another's, however long ago the handler read the roles; except a
\* removal that had read them before that ownership began (removeMember,
\* setMemberRole).
OwnerStays ==
  [][\A c \in Convs, u \in Users :
       role[c][u] = "owner" /\ role'[c][u] # "owner"
       => \E j \in jobs \ jobs' :
            /\ j.conv = c /\ j.to = u
            /\ <<c, Owner[j.tab]>> \in owned \/ (j.op = "remove" /\ "owner" \notin j.with)]_vars
=============================================================================
