------------------------------- MODULE Typing -------------------------------
(***************************************************************************)
(* Typing indicators (notifyTyping and onTyping of useMessages.ts,         *)
(* handleTyping of chat.gateway.ts) and the rate limiter they pass         *)
(* (ws-rate-limiter.ts).  The pages of one user write; the page of another *)
(* shows that this user is typing in the conversation it has open.         *)
(***************************************************************************)
EXTENDS Naturals, Sequences, FiniteSets

CONSTANTS Tabs, Rooms,
          Throttle,   \* TYPING_THROTTLE_MS (1.5 s), in units of time
          StopAfter,  \* a page says that typing stopped (2.5 s)
          ClearAfter, \* a page stops showing it by itself (3.5 s)
          Limit, Ttl, \* of typingLimiter (20 events, 60 s)
          MaxWire     \* bound: events on their way

ASSUME TypingConstants ==
  /\ Throttle \in Nat /\ StopAfter \in Nat /\ ClearAfter \in Nat
  /\ Throttle < StopAfter /\ StopAfter < ClearAfter
  /\ Limit \in Nat \ {0} /\ Ttl \in Nat \ {0} /\ MaxWire \in Nat

VARIABLES
  writer, \* per page: time since lastTypingSentAt, typingTimeout and its room
  hits,   \* the limiter's window for the user: ages of what was let through
  wire,   \* events on their way to the reader
  seen,   \* the reader's room, typingUsers (is the user in it) and typingTimers
  since   \* history: time since a `typing' event was shown

typingVars == <<writer, hits, wire, seen, since>>

TypingTypeOK ==
  /\ writer \in [Tabs -> [last : 0 .. Throttle, stop : 0 .. StopAfter, room : Rooms]]
  /\ hits \in Seq(0 .. Ttl) /\ Len(hits) <= Limit
  /\ wire \in Seq([room : Rooms, on : BOOLEAN]) /\ Len(wire) <= MaxWire
  /\ seen \in [room : Rooms, typing : BOOLEAN, timer : 0 .. ClearAfter]
  /\ since \in 0 .. ClearAfter

TypingInit ==
  /\ \E r \in Rooms :
       /\ writer = [t \in Tabs |-> [last |-> Throttle, stop |-> 0, room |-> r]]
       /\ seen = [room |-> r, typing |-> FALSE, timer |-> 0]
  /\ hits = <<>> /\ wire = <<>> /\ since = ClearAfter

\* isAllowed: what is as old as the window counts no more.  The list is in the
\* order of time (WithinLimit), so that it is the beginning that goes.
Expired == {k \in DOMAIN hits : hits[k] >= Ttl}
FreshHits == SubSeq(hits, Cardinality(Expired) + 1, Len(hits))

\* rateLimit: what is let through counts, what is refused does not.
RateLimit(allowed) ==
  /\ allowed <=> Len(FreshHits) < Limit
  /\ hits' = IF allowed THEN Append(FreshHits, 0) ELSE FreshHits

\* handleTyping: on to the room, unless the user has sent too much.
HandleTyping(r, on) ==
  \/ RateLimit(TRUE) /\ wire' = Append(wire, [room |-> r, on |-> on])
  \/ RateLimit(FALSE) /\ UNCHANGED wire

\* notifyTyping: nothing while the last event is recent; else an event, and the
\* timer for the end of it, which may have been running for another room.
NotifyTyping(t, r) ==
  /\ Len(wire) < MaxWire /\ writer[t].last >= Throttle
  /\ writer' = [writer EXCEPT ![t] = [last |-> 0, stop |-> StopAfter, room |-> r]]
  /\ HandleTyping(r, TRUE) /\ UNCHANGED <<seen, since>>

\* typingTimeout.
StopTyping(t) ==
  /\ Len(wire) < MaxWire /\ writer[t].stop = 1
  /\ writer' = [writer EXCEPT ![t].stop = 0, ![t].last = Throttle]
  /\ HandleTyping(writer[t].room, FALSE) /\ UNCHANGED <<seen, since>>

\* Mutant of OnTyping: the end of typing only clears the timer.
OnTypingTimerOnly ==
  /\ wire # <<>> /\ wire' = Tail(wire)
  /\ LET e == Head(wire) IN
     IF e.room # seen.room THEN UNCHANGED <<seen, since>>
     ELSE /\ seen' = [seen EXCEPT !.typing = e.on \/ @, !.timer = IF e.on THEN ClearAfter ELSE 0]
          /\ since' = IF e.on THEN 0 ELSE since
  /\ UNCHANGED <<writer, hits>>

\* onTyping: shown with a new timer, or neither.
OnTyping ==
  /\ wire # <<>> /\ wire' = Tail(wire)
  /\ LET e == Head(wire) IN
     IF e.room # seen.room THEN UNCHANGED <<seen, since>>
     ELSE /\ seen' = [seen EXCEPT !.typing = e.on, !.timer = IF e.on THEN ClearAfter ELSE 0]
          /\ since' = IF e.on THEN 0 ELSE since
  /\ UNCHANGED <<writer, hits>>

\* onMessage of the user: not typing any more, though the timer goes on.  The
\* same for another conversation that is opened.
OnText == seen.typing /\ seen' = [seen EXCEPT !.typing = FALSE] /\ UNCHANGED <<writer, hits, wire, since>>
OpenRoom(r) ==
  /\ r # seen.room /\ seen' = [seen EXCEPT !.room = r, !.typing = FALSE]
  /\ UNCHANGED <<writer, hits, wire, since>>

\* The timer of the reader, due with the next unit of time.
Older(n, max) == IF n < max THEN n + 1 ELSE n
Sooner(n) == IF n > 0 THEN n - 1 ELSE 0

\* A unit of time; a writer's timer that is due goes first.
TimePasses ==
  /\ \A t \in Tabs : writer[t].stop # 1
  /\ writer' = [t \in Tabs |-> [writer[t] EXCEPT !.last = Older(@, Throttle), !.stop = Sooner(@)]]
  /\ hits' = [k \in DOMAIN hits |-> Older(hits[k], Ttl)]
  /\ seen' = [seen EXCEPT !.timer = Sooner(@), !.typing = @ /\ seen.timer # 1]
  /\ since' = Older(since, ClearAfter)
  /\ UNCHANGED wire

TypingNext ==
  \/ \E t \in Tabs : StopTyping(t) \/ \E r \in Rooms : NotifyTyping(t, r)
  \/ OnTyping \/ OnText \/ TimePasses \/ \E r \in Rooms : OpenRoom(r)

-----------------------------------------------------------------------------
\* Nobody is shown typing for longer than the 3.5 seconds after an event, also
\* when the event that ends it is refused by the limiter, cancelled by typing
\* elsewhere, or goes to a conversation that was left.
TypingEnds == seen.typing => seen.timer > 0 /\ since < ClearAfter

\* No more than the limit is let through within any window, and a user who has
\* been silent for as long is not refused (isAllowed); the list is oldest first.
WithinLimit ==
  /\ Cardinality({k \in DOMAIN hits : hits[k] < Ttl}) <= Limit
  /\ (Expired = DOMAIN hits) => FreshHits = <<>>
  /\ \A j, k \in DOMAIN hits : j <= k => hits[j] >= hits[k]

TypingInv == TypingTypeOK /\ TypingEnds /\ WithinLimit

TypingSpec == TypingInit /\ [][TypingNext]_typingVars
=============================================================================
