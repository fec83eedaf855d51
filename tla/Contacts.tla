------------------------------ MODULE Contacts ------------------------------
(***************************************************************************)
(* The friends, the requests and the search for users that one page shows  *)
(* (useFriends.ts, SideBar.tsx), and the routes it asks                    *)
(* (friends.controller.ts, friends.service.ts, one user's view of the      *)
(* Friendship rows; Conversations has how their handlers overlap).  The    *)
(* page is told of a status, and of no change of a friendship: the routes  *)
(* emit nothing, and no page sends the socket messages whose handlers do.  *)
(* A request withdrawn and made again counts as one.                       *)
(***************************************************************************)
EXTENDS Naturals, Sequences, FiniteSets

CONSTANTS Peers,  \* the other users
          Texts,  \* what is searched for: two characters or more
          Short,  \* less than that
          MaxOps  \* bound: operations of the page, and changes behind it

ASSUME ContactsAssumption == Short \notin Texts /\ MaxOps \in Nat /\ IsFiniteSet(Peers)

VARIABLES
  rows,     \* the friendship with each peer
  isOnline, \* the peers whose isOnline is set
  events,   \* userStatusChanged on its way to the page
  friends, lit, pending, \* shown: friends, those of them online, requests
  fetches,  \* fetchAll calls at their await
  fetched,  \* how many there were
  from,     \* the one whose answer is shown
  flows,    \* respondToRequest, removeFriend and handleSendRequest at their await
  sendingReq, \* whose request is being sent, if anybody's
  search,   \* searchQuery, searchTimer, isSearching and searchResults
  searches, \* searches at their await
  asked,    \* how many there were
  ops,
  behind, dim, odd, \* history: peers whose friendship, status, or result changed
                    \* elsewhere since it was read, or by a call whose answer was lost
  back, unmarked    \* history: peers removed here that a list read before brought back,
                    \* and those whose result does not show what was done here

contactVars == <<rows, isOnline, events, friends, lit, pending, fetches, fetched, from, flows,
                 sendingReq, search, searches, asked, ops, behind, back, dim, odd, unmarked>>
world == <<rows, isOnline, events>>
lists == <<friends, lit, pending, from, behind, back, dim>>
asking == <<search, searches, asked, odd, unmarked>>

Standings == {"none", "sent", "received", "friends", "declined", "refused"}
NoResults == [no |-> 0, text |-> Short, of |-> [p \in Peers |-> "none"]]
NewFetch(n) == [no |-> n, got |-> {}, friends |-> {}, lit |-> {}, pending |-> {},
                late |-> {}, own |-> {}, moved |-> {}]

ContactsTypeOK ==
  /\ rows \in [Peers -> Standings] /\ isOnline \subseteq Peers
  /\ \A i \in DOMAIN events : events[i].peer \in Peers /\ events[i].on \in BOOLEAN
  /\ friends \subseteq Peers /\ lit \subseteq friends /\ pending \subseteq Peers
  /\ \A f \in fetches : f.no \in 1 .. fetched /\ f.friends \cup f.pending \subseteq Peers
                        /\ f.lit \subseteq f.friends
  /\ from \in 0 .. fetched
  /\ flows \subseteq [op : {"accept", "decline", "remove", "ask"}, peer : Peers, stored : BOOLEAN,
                      overtaken : BOOLEAN]
  /\ sendingReq \subseteq Peers
  /\ search \in [query : Texts \cup {Short}, timer : BOOLEAN, text : Texts \cup {Short},
                 spinning : BOOLEAN,
                 results : [no : 0 .. asked, text : Texts \cup {Short}, of : [Peers -> Standings]]]
  /\ \A s \in searches : s.no \in 1 .. asked /\ s.text \in Texts
  /\ ops \in 0 .. MaxOps
  /\ behind \subseteq Peers /\ back \subseteq Peers /\ dim \subseteq Peers
  /\ odd \subseteq Peers /\ unmarked \subseteq Peers

\* The page is signed in and fetches, among friendships of every kind.
ContactsInit ==
  /\ rows \in [Peers -> {"none", "received", "friends"}] /\ isOnline = {} /\ events = <<>>
  /\ friends = {} /\ lit = {} /\ pending = {}
  /\ fetches = {NewFetch(1)} /\ fetched = 1 /\ from = 0
  /\ flows = {} /\ sendingReq = {}
  /\ search = [query |-> Short, timer |-> FALSE, text |-> Short, spinning |-> FALSE, results |-> NoResults]
  /\ searches = {} /\ asked = 0
  /\ ops = 0 /\ behind = {} /\ back = {} /\ dim = {} /\ odd = {} /\ unmarked = {}

Operate == ops < MaxOps /\ ops' = ops + 1

-----------------------------------------------------------------------------
(* fetchAll.                                                               *)

\* Mutant of FetchesAgain: the page keeps the lists it has.
FetchesNot == UNCHANGED <<fetches, fetched>>

FetchesAgain ==
  /\ fetches' = fetches \cup {NewFetch(fetched + 1)}
  /\ fetched' = fetched + 1

\* The effect on accessToken: another token fetches again.
TokenChanges ==
  /\ Operate /\ FetchesAgain
  /\ UNCHANGED <<world, lists, flows, sendingReq, asking>>

Goes(f, new) == fetches' = (fetches \ {f}) \cup new
With(standing) == {p \in Peers : rows[p] = standing}

\* getMyFriends and getPendingRequests, each its own request.
ReadFriends(f) ==
  /\ "friends" \notin f.got
  /\ Goes(f, {[f EXCEPT !.got = @ \cup {"friends"}, !.friends = With("friends"),
                        !.lit = With("friends") \cap isOnline]})
  /\ UNCHANGED <<world, lists, fetched, flows, sendingReq, asking, ops>>
ReadPending(f) ==
  /\ "pending" \notin f.got
  /\ Goes(f, {[f EXCEPT !.got = @ \cup {"pending"}, !.pending = With("received")]})
  /\ UNCHANGED <<world, lists, fetched, flows, sendingReq, asking, ops>>

Coming == {events[i].peer : i \in DOMAIN events}

FetchArrives(f) ==
  /\ f.got = {"friends", "pending"}
  /\ friends' = f.friends /\ lit' = f.lit /\ pending' = f.pending /\ from' = f.no
  /\ behind' = f.late /\ dim' = f.moved \ Coming
  /\ back' = {p \in f.own : \A w \in flows : w.peer = p /\ w.stored => w.op = "ask"}
  /\ Goes(f, {})
  /\ UNCHANGED <<world, fetched, flows, sendingReq, asking, ops>>

\* One of its requests fails, and neither list is set.
ListsFail(f) ==
  /\ Goes(f, {})
  /\ UNCHANGED <<world, lists, fetched, flows, sendingReq, asking, ops>>

-----------------------------------------------------------------------------
(* What happens elsewhere.                                                 *)

\* What a friendship may become: requested, withdrawn, answered, ended.
May == [none |-> {"sent", "received"}, sent |-> {"friends", "declined", "none"},
        received |-> {"friends", "refused", "none"}, friends |-> {"none"},
        declined |-> {"sent", "received"}, refused |-> {"sent", "received"}]

\* The lists read before a change of p's friendship do not have it.
Overtakes(p) == fetches' = {[f EXCEPT !.late = @ \cup {q \in {p} : f.got # {}}] : f \in fetches}
OvertakesOwn(p) == fetches' = {[f EXCEPT !.own = @ \cup {q \in {p} : f.got # {}}] : f \in fetches}

\* A peer, or this user on another page.
Elsewhere(p) ==
  /\ Operate
  /\ \E standing \in May[rows[p]] : rows' = [rows EXCEPT ![p] = standing]
  /\ Overtakes(p) /\ behind' = behind \cup {p} /\ odd' = odd \cup {p}
  /\ flows' = {[w EXCEPT !.overtaken = @ \/ (w.peer = p /\ w.stored)] : w \in flows}
  /\ searches' = {[s EXCEPT !.late = @ \cup {q \in {p} : s.read}] : s \in searches}
  /\ UNCHANGED <<isOnline, events, friends, lit, pending, from, back, dim, fetched, sendingReq, search,
                 asked, unmarked>>

\* The first socket of a peer connects or the last is gone: all are told.
StatusChanges(p) ==
  /\ Operate
  /\ isOnline' = (isOnline \ {p}) \cup ({p} \ isOnline)
  /\ events' = Append(events, [peer |-> p, on |-> p \notin isOnline])
  /\ fetches' = {[f EXCEPT !.moved = @ \cup {q \in {p} : "friends" \in f.got}] : f \in fetches}
  /\ UNCHANGED <<rows, lists, fetched, flows, sendingReq, asking>>

\* Mutant of Lights: an event adds to the friends online and never takes away.
LightsUp(e) == lit' = lit \cup ({e.peer} \cap friends)

Lights(e) == lit' = (lit \ {e.peer}) \cup {p \in {e.peer} \cap friends : e.on}

\* onStatus, or the socket is not connected and the event lost.
StatusArrives ==
  /\ events # <<>> /\ events' = Tail(events)
  /\ \/ Lights(Head(events)) /\ UNCHANGED dim
     \/ dim' = dim \cup {Head(events).peer} /\ UNCHANGED lit
  /\ UNCHANGED <<rows, isOnline, friends, pending, from, behind, back, fetches, fetched, flows, sendingReq,
                 asking, ops>>

-----------------------------------------------------------------------------
(* Requests answered and made, friendships ended.                          *)

\* The friends tab: requests, friends and results have their buttons.
Found(p, standings) ==
  /\ search.query # Short /\ ~search.spinning /\ search.results.no > 0
  /\ search.results.of[p] \in standings
Offers(op, p) ==
  \/ op \in {"accept", "decline"} /\ p \in pending
  \/ op = "accept" /\ Found(p, {"received"})
  \/ op = "remove" /\ p \in friends
  \/ op = "ask" /\ Found(p, {"none", "declined", "refused"}) /\ p \notin sendingReq

Press(op, p) ==
  /\ Offers(op, p) /\ Operate
  /\ \A w \in flows : w.op # op \/ w.peer # p  \* bound: not the same twice at once
  /\ flows' = flows \cup {[op |-> op, peer |-> p, stored |-> FALSE, overtaken |-> FALSE]}
  /\ sendingReq' = IF op = "ask" THEN {p} ELSE sendingReq
  /\ UNCHANGED <<world, lists, fetches, fetched, asking>>

\* FriendsService.respond, removeFriend and sendRequest.
Takes == [accept |-> {"received"}, decline |-> {"received"}, remove |-> {"friends"},
          ask |-> {"none", "declined", "refused"}]
Gives == [accept |-> "friends", decline |-> "refused", remove |-> "none", ask |-> "sent"]

Ends(w) == flows' = flows \ {w}

Store(w) ==
  /\ ~w.stored /\ rows[w.peer] \in Takes[w.op]
  /\ rows' = [rows EXCEPT ![w.peer] = Gives[w.op]]
  /\ flows' = (flows \ {w}) \cup {[w EXCEPT !.stored = TRUE]}
  /\ IF w.op = "ask" THEN UNCHANGED fetches ELSE OvertakesOwn(w.peer)
  /\ unmarked' = unmarked \cup {p \in {w.peer} : w.op # "ask"}
  /\ searches' = {[s EXCEPT !.own = @ \cup {q \in {w.peer} : s.read}] : s \in searches}
  /\ UNCHANGED <<isOnline, events, lists, fetched, sendingReq, search, asked, odd, ops>>

\* Mutant of Marked: the answer of a request does not change its result.
MarkedNot(p) == UNCHANGED search

\* The result of p becomes a request sent.
Marked(p) ==
  search' = IF search.results.no > 0 THEN [search EXCEPT !.results.of[p] = "sent"] ELSE search

Answered(w) ==
  /\ w.stored /\ Ends(w)
  /\ \/ w.op \in {"accept", "decline"} /\ FetchesAgain
        /\ UNCHANGED <<lists, sendingReq, search, odd, unmarked>>
     \/ /\ w.op = "remove"
        /\ friends' = friends \ {w.peer} /\ lit' = lit \ {w.peer}
        /\ behind' = behind \cup {p \in {w.peer} : w.overtaken}
        /\ UNCHANGED <<pending, from, back, dim, fetches, fetched, sendingReq, search, odd, unmarked>>
     \/ /\ w.op = "ask" /\ Marked(w.peer) /\ sendingReq' = {}
        /\ odd' = odd \cup {p \in {w.peer} : w.overtaken} /\ unmarked' = unmarked \ {w.peer}
        /\ UNCHANGED <<lists, fetches, fetched>>
  /\ UNCHANGED <<world, searches, asked, ops>>

\* Refused, or lost before or after it was stored: what is shown stays.
Refused(w) ==
  /\ Ends(w)
  /\ sendingReq' = IF w.op = "ask" THEN {} ELSE sendingReq
  /\ behind' = behind \cup {p \in {w.peer} : w.stored}
  /\ odd' = odd \cup {p \in {w.peer} : w.stored}
  /\ fetches' = {[f EXCEPT !.late = @ \cup {p \in f.own : p = w.peer /\ w.stored}] : f \in fetches}
  /\ UNCHANGED <<world, friends, lit, pending, from, back, dim, fetched, search, searches, asked, unmarked, ops>>

-----------------------------------------------------------------------------
(* handleSearch.                                                           *)

\* Each keystroke puts the search off; a short query also clears the results.
Type(text) ==
  /\ Operate /\ text # search.query
  /\ search' = IF text = Short
               THEN [search EXCEPT !.query = Short, !.timer = FALSE, !.results = NoResults]
               ELSE [search EXCEPT !.query = text, !.timer = TRUE, !.text = text, !.spinning = TRUE]
  /\ UNCHANGED <<world, lists, fetches, fetched, flows, sendingReq, searches, asked, odd, unmarked>>

\* openDirect clears the query and its results, and leaves the timer.
OpenDirect ==
  /\ search.query # Short
  /\ search' = [search EXCEPT !.query = Short, !.results = NoResults]
  /\ UNCHANGED <<world, lists, fetches, fetched, flows, sendingReq, searches, asked, odd, unmarked, ops>>

TimerFires ==
  /\ search.timer
  /\ search' = [search EXCEPT !.timer = FALSE]
  /\ searches' = searches \cup {[no |-> asked + 1, text |-> search.text, read |-> FALSE,
                                 of |-> NoResults.of, late |-> {}, own |-> {}]}
  /\ asked' = asked + 1
  /\ UNCHANGED <<world, lists, fetches, fetched, flows, sendingReq, odd, unmarked, ops>>

\* FriendsService.searchUsers: who matches, and then the friendships with them.
SearchUsers(s) ==
  /\ ~s.read
  /\ searches' = (searches \ {s}) \cup {[s EXCEPT !.read = TRUE, !.of = rows]}
  /\ UNCHANGED <<world, lists, fetches, fetched, flows, sendingReq, search, asked, odd, unmarked, ops>>

\* Mutant of SearchSettled: an error leaves the search spinning.
SettledUnlessFailed(s, ok) ==
  search' = IF ok THEN [search EXCEPT !.results = [no |-> s.no, text |-> s.text, of |-> s.of],
                                      !.spinning = FALSE]
                  ELSE search

SearchSettled(s, ok) ==
  search' = [search EXCEPT !.results = IF ok THEN [no |-> s.no, text |-> s.text, of |-> s.of] ELSE @,
                           !.spinning = FALSE]

SearchEnds(s) ==
  /\ searches' = searches \ {s}
  /\ \/ s.read /\ SearchSettled(s, TRUE) /\ odd' = s.late /\ unmarked' = s.own
     \/ SearchSettled(s, FALSE) /\ UNCHANGED <<odd, unmarked>>
  /\ UNCHANGED <<world, lists, fetches, fetched, flows, sendingReq, asked, ops>>

-----------------------------------------------------------------------------
ContactsNext ==
  \/ TokenChanges \/ StatusArrives
  \/ \E f \in fetches : ReadFriends(f) \/ ReadPending(f) \/ FetchArrives(f) \/ ListsFail(f)
  \/ \E p \in Peers : Elsewhere(p) \/ StatusChanges(p)
  \/ \E p \in Peers, op \in DOMAIN Takes : Press(op, p)
  \/ \E w \in flows : Store(w) \/ Answered(w) \/ Refused(w)
  \/ \E text \in Texts \cup {Short} : Type(text)
  \/ OpenDirect \/ TimerFires
  \/ \E s \in searches : SearchUsers(s) \/ SearchEnds(s)

ContactsSpec == ContactsInit /\ [][ContactsNext]_contactVars

-----------------------------------------------------------------------------
(* Properties.                                                             *)

\* With nothing awaited, and the last fetch the one shown, the friends and the
\* requests are those of the server, save where a friendship changed elsewhere or
\* an answer was lost; and so are the friends online (fetchAll, respondToRequest,
\* removeFriend, onStatus).  Of what is done on this page one thing is excepted:
\* a friend removed here is shown again by lists that had been read before the
\* removal and come after its answer.
FriendsRight ==
  fetches = {} /\ flows = {} /\ from = fetched =>
    /\ \A p \in Peers \ behind : /\ p \in pending <=> rows[p] = "received"
                                 /\ rows[p] = "friends" => p \in friends
                                 /\ p \in friends => rows[p] = "friends" \/ p \in back
    /\ events = <<>> => \A p \in friends \ dim : p \in lit <=> p \in isOnline

\* A query with no search to come is not left searching; if its search was the
\* last to be answered the results are its own, with the friendships as they
\* are, requests sent from them included (handleSearch, handleSendRequest), save
\* those changed elsewhere or by a lost answer.  Of what is done on this page
\* they do not show a request answered or a friend removed since they were read,
\* and a request sent while they were on their way.
SearchRight ==
  search.query # Short /\ ~search.timer /\ searches = {} =>
    /\ ~search.spinning
    /\ search.results.no = asked =>
         /\ search.results.text = search.query
         /\ flows = {} => \A p \in Peers \ (odd \cup unmarked) : search.results.of[p] = rows[p]

ContactsInv == ContactsTypeOK /\ FriendsRight /\ SearchRight
=============================================================================
