------------------------------- MODULE Search -------------------------------
(***************************************************************************)
(* The search within a conversation (useSearch.ts): a query, after 400 ms, *)
(* reads the whole conversation page by page (getMessages of               *)
(* conversations.service.ts), opens what it can and filters it in the page.*)
(* A change of the query, of the conversation or of the search bar aborts  *)
(* the run under way.  A conversation once read without a message that     *)
(* still looks encrypted is kept for as long as the page lives.            *)
(***************************************************************************)
EXTENDS Naturals, Sequences, FiniteSets

CONSTANTS Threads, Words,
          Short,    \* a query of less than two letters
          NoLoad,
          PageSize, \* 30 in the code
          MaxTexts, \* bound: messages
          MaxLoads  \* bound: loads of a conversation

ASSUME SearchConstants ==
  /\ Short \notin Words /\ NoLoad \notin Threads
  /\ PageSize \in Nat \ {0} /\ MaxTexts \in Nat /\ MaxLoads \in Nat

VARIABLES
  texts,  \* the server's messages, by id
  bar,    \* conversationId, query, results, isSearching, isOpen, timerRef
  load,   \* the call of fetchAllDecrypted whose controller abortRef holds
  cache   \* sessionCache

searchVars == <<texts, bar, load, cache>>

TextIds == 1 .. MaxTexts
\* What a message looks like: a text or a text without spaces (a link), which
\* opens any number of times; one whose key opens it once (v2, v2g); or one that
\* cannot be opened (v3, or its key was used or has not come).
Looks == {"text", "link", "once", "locked"}
\* What a load has of it: the same, ciphertext, or the notice that a key is missing,
\* which does not look encrypted.
Shapes == {"text", "link", "locked", "notice"}
Nothing == [thread |-> NoLoad]
Copies == [id : TextIds, gone : BOOLEAN, looks : Shapes]
Loads == [thread : Threads, query : Words, cursor : 0 .. MaxTexts, got : SUBSET Copies,
          opening : SUBSET TextIds, done : BOOLEAN, base : SUBSET TextIds]

SearchTypeOK ==
  /\ DOMAIN texts \subseteq TextIds
  /\ \A i \in DOMAIN texts :
       texts[i] \in [thread : Threads, word : Words, looks : Looks, gone : BOOLEAN]
  /\ bar \in [thread : Threads, open : BOOLEAN, query : Words \cup {Short}, timer : BOOLEAN,
              searching : BOOLEAN, results : SUBSET TextIds, base : SUBSET TextIds, loads : 0 .. MaxLoads]
  /\ load = Nothing \/ load \in Loads
  /\ \A c \in Threads : cache[c] = Nothing \/ cache[c].got \subseteq Copies

SearchInit ==
  /\ texts = <<>> /\ load = Nothing /\ cache = [c \in Threads |-> Nothing]
  /\ \E c \in Threads : bar = [thread |-> c, open |-> FALSE, query |-> Short, timer |-> FALSE,
                               searching |-> FALSE, results |-> {}, base |-> {}, loads |-> 0]

Of(c) == {i \in DOMAIN texts : texts[i].thread = c}

-----------------------------------------------------------------------------
\* Messages meanwhile: sent, deleted, their key received, or brought back when
\* unlocked saves of a group's keys overlap (GroupReceive).
Written(c, w, l) ==
  /\ Len(texts) < MaxTexts
  /\ texts' = Append(texts, [thread |-> c, word |-> w, looks |-> l, gone |-> FALSE])
  /\ UNCHANGED <<bar, load, cache>>

Removed(i) ==
  /\ ~texts[i].gone /\ texts' = [texts EXCEPT ![i].gone = TRUE]
  /\ UNCHANGED <<bar, load, cache>>

Readable(i) ==
  /\ texts[i].looks = "locked" /\ texts' = [texts EXCEPT ![i].looks = "once"]
  /\ UNCHANGED <<bar, load, cache>>

\* The one opening of a message.  Where it is not the load's own, a load that has
\* not opened the message is without it.
Spend(i) == texts[i].looks = "once" /\ texts' = [texts EXCEPT ![i].looks = "locked"]
Clear(l) == {g.id : g \in {h \in l.got : h.looks \in {"text", "link"}}}
Without(i) == load' = IF load = Nothing THEN load
                      ELSE [load EXCEPT !.base = @ \ ({i} \ Clear(load))]

\* The chat opens it as it comes or is scrolled to; or a load that was aborted does,
\* which opens the page it has before it notices, and keeps and shows nothing.
OpenedElsewhere(i) == Spend(i) /\ Without(i) /\ UNCHANGED <<bar, cache>>

-----------------------------------------------------------------------------
\* Mutant of Restart: the load under way is not aborted.
RestartUnaborted(b) ==
  /\ bar' = IF b.open /\ b.query # Short THEN [b EXCEPT !.timer = TRUE]
            ELSE [b EXCEPT !.timer = FALSE, !.results = {}, !.base = {}, !.searching = FALSE]
  /\ UNCHANGED <<texts, load, cache>>

\* The main effect, with the state the page has now: abort, and a new timer or
\* nothing to show.  What is shown stays until the timer fires.
Restart(b) ==
  /\ bar' = IF b.open /\ b.query # Short THEN [b EXCEPT !.timer = TRUE]
            ELSE [b EXCEPT !.timer = FALSE, !.results = {}, !.base = {}, !.searching = FALSE]
  /\ load' = Nothing
  /\ UNCHANGED <<texts, cache>>

Toggle == Restart([bar EXCEPT !.open = ~@])
TypeQuery(q) == bar.open /\ q # bar.query /\ Restart([bar EXCEPT !.query = q])

\* close, and the effect of another conversation, which is run after the main one.
Close == bar.open /\ Restart([bar EXCEPT !.open = FALSE, !.query = Short])
SwitchTo(c) ==
  /\ c # bar.thread
  /\ Restart([bar EXCEPT !.thread = c, !.open = FALSE, !.query = Short])

-----------------------------------------------------------------------------
\* The filter; ciphertext may have the letters by chance.
Found(l, q, chance) ==
  {g.id : g \in {h \in l.got : ~h.gone /\ IF h.id \in Clear(l) THEN texts[h.id].word = q
                                           ELSE h.id \in chance}}

ShowFound(l, q) ==
  \E chance \in SUBSET ({g.id : g \in l.got} \ Clear(l)) :
    bar' = [bar EXCEPT !.timer = FALSE, !.searching = FALSE,
                       !.results = Found(l, q, chance), !.base = l.base]

\* What a load that begins now should find.
Base(c) == {i \in Of(c) : ~texts[i].gone /\ texts[i].looks # "locked"}

\* The timer: a conversation that is kept is filtered at once, another is read.
TimerFires ==
  /\ bar.timer /\ bar.loads < MaxLoads
  /\ IF cache[bar.thread] # Nothing
     THEN ShowFound(cache[bar.thread], bar.query) /\ UNCHANGED load
     ELSE /\ bar' = [bar EXCEPT !.timer = FALSE, !.searching = TRUE, !.results = {}, !.base = {},
                                !.loads = @ + 1]
          /\ load' = [thread |-> bar.thread, query |-> bar.query, cursor |-> 0, got |-> {},
                      opening |-> {}, done |-> FALSE, base |-> {}]
  /\ UNCHANGED <<texts, cache>>

\* getMessages: the newest, and with a cursor the next older ones, which are
\* read whether or not this user has cleared them (nobody clears here).
OlderThan(c, cursor) ==
  LET among == {i \in Of(c) : cursor = 0 \/ i < cursor}
  IN {i \in among : Cardinality({j \in among : j > i}) < PageSize}

\* A page is read once the last one is opened; less than a full one is the last.
ReadPage ==
  /\ load # Nothing /\ ~load.done /\ load.opening = {}
  /\ LET p == OlderThan(load.thread, load.cursor)
         sealed == {i \in p : texts[i].looks \in {"once", "locked"}} IN
     load' = [load EXCEPT
       !.got = @ \cup {[id |-> i, gone |-> texts[i].gone,
                       looks |-> IF i \in sealed THEN "locked" ELSE texts[i].looks] : i \in p},
       !.opening = sealed,
       !.base = IF load.cursor = 0 THEN Base(load.thread) ELSE @,
       !.cursor = IF p = {} THEN @ ELSE CHOOSE i \in p : \A j \in p : i <= j,
       !.done = Cardinality(p) < PageSize]
  /\ UNCHANGED <<texts, bar, cache>>

\* decrypt, decryptFromGroup: the message is opened, which uses its key up, or stays
\* ciphertext, or becomes a notice.  The copies of the chat are not asked.
Opens(i, l, look) ==
  [l EXCEPT !.opening = @ \ {i},
            !.got = {IF g.id = i THEN [g EXCEPT !.looks = look] ELSE g : g \in @}]

\* Mutant of OpenText: a message that was opened is left as ciphertext.
OpenTextLost(i) ==
  /\ load # Nothing /\ i \in load.opening /\ load' = Opens(i, load, "locked")
  /\ Spend(i) \/ UNCHANGED texts
  /\ UNCHANGED <<bar, cache>>

OpenText(i) ==
  /\ load # Nothing /\ i \in load.opening
  /\ \/ Spend(i) /\ \E look \in {"text", "link"} : load' = Opens(i, load, look)
     \/ /\ texts[i].looks # "once" /\ UNCHANGED texts
        /\ \E look \in {"locked", "notice"} : load' = Opens(i, load, look)
  /\ UNCHANGED <<bar, cache>>

\* The end of a load: kept unless something looks encrypted, and shown.
Kept(l) == [thread |-> l.thread, got |-> l.got, base |-> l.base]
LoadEnds ==
  /\ load # Nothing /\ load.done /\ load.opening = {} /\ load' = Nothing
  /\ cache' = IF \E g \in load.got : g.looks \in {"link", "locked"} THEN cache
              ELSE [cache EXCEPT ![load.thread] = Kept(load)]
  /\ ShowFound(load, load.query) /\ UNCHANGED texts

\* A request of the load fails: no results, as if there were none.
LoadFails ==
  /\ load # Nothing /\ ~load.done /\ load.opening = {} /\ load' = Nothing
  /\ bar' = [bar EXCEPT !.searching = FALSE] /\ UNCHANGED <<texts, cache>>

SearchNext ==
  \/ \E c \in Threads : SwitchTo(c) \/ \E w \in Words, l \in Looks : Written(c, w, l)
  \/ \E i \in DOMAIN texts : Removed(i) \/ Readable(i) \/ OpenedElsewhere(i) \/ OpenText(i)
  \/ \E q \in Words \cup {Short} : TypeQuery(q)
  \/ Toggle \/ Close \/ TimerFires \/ ReadPage \/ LoadEnds \/ LoadFails

-----------------------------------------------------------------------------
\* Whatever is typed, closed and opened meanwhile, and whichever load ends last,
\* what is shown answers the query that stands there, about the conversation
\* that is open: every message that could be read when the conversation was
\* loaded and is still there, and no other that could be read.  One that opens
\* once is excepted if the chat, or a load aborted meanwhile, opened it first.
Answered == bar.open /\ bar.query # Short /\ ~bar.timer /\ ~bar.searching
Complete == {i \in bar.base : texts[i].word = bar.query /\ ~texts[i].gone} \subseteq bar.results
Sound == \A i \in bar.results :
           texts[i].thread = bar.thread /\ (i \in bar.base => texts[i].word = bar.query)
ResultsAnswer == Answered => Complete /\ Sound

\* The bar never goes on searching with nothing under way, and shows nothing
\* once it is closed or the query is too short.
Progress ==
  /\ bar.searching => bar.timer \/ load # Nothing
  /\ ~bar.open \/ bar.query = Short => bar.results = {} /\ ~bar.searching

SearchInv == SearchTypeOK /\ ResultsAnswer /\ Progress

SearchSpec == SearchInit /\ [][SearchNext]_searchVars
=============================================================================
