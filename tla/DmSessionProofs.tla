-------------------------- MODULE DmSessionProofs --------------------------
(***************************************************************************)
(* Proofs about DmSession and the operators of DoubleRatchet, for every    *)
(* MAX_SKIP and any number of messages, keys and resets.                   *)
(*                                                                         *)
(* That no two messages share a key holds however often a message is read: *)
(* a sending chain ends with an agreement of a key pair that no older      *)
(* chain has, and one session counts its messages (Base).  The rest needs  *)
(* that an opened message is not read again (Pair): a session moves on to  *)
(* longer chains, holds each key once, and is entered through its init     *)
(* message, which is opened by that.                                       *)
(*                                                                         *)
(* Then about Fanout, for any devices and messages: an envelope is in one  *)
(* message, and a key is used up by the message it sealed.                 *)
(*                                                                         *)
(* Then about Messages, for any page size and bounds.  The invariant has   *)
(* five layers, each kept given those before it: what refers to a message  *)
(* refers to one that is stored (Shaped); a bubble has a message it stands *)
(* for (GhostsFew); an entry says what its message says (OwnRight); what   *)
(* a list does not know of deletions and edits is on its way (FlagsKnown); *)
(* and a list is a stretch of the conversation, which each request fits    *)
(* (Whole).                                                                *)
(***************************************************************************)
EXTENDS DmSession, Fanout, Messages, FiniteSetTheorems, SequenceTheorems, WellFoundedInduction, TLAPS

InSession(u) == session[u] # NoSession

\* The positions of skipped keys and the chains they lie on.
SkippedMaps == UNION {[D -> Chains] : D \in SUBSET (Keys \X (0 .. MaxMessages))}
Sessions ==
  [dhs : Keys, dhr : Keys, rk : Chains, cks : Chains, ckr : Chains,
   ns : 0 .. MaxMessages, nr : 0 .. MaxMessages, pn : 0 .. MaxMessages,
   skipped : SkippedMaps]

\* `st' goes back to one X3DH secret, its older chains are shorter than its root
\* key, and a cached key lies on one chain at one position.
Shape(st) ==
  /\ st \in Sessions
  /\ st.rk # NoChain
  /\ st.ckr # NoChain => Root(st.ckr) = Root(st.rk) /\ Len(st.ckr) < Len(st.rk)
  /\ \A k \in DOMAIN st.skipped :
       /\ st.skipped[k] # NoChain /\ Root(st.skipped[k]) = Root(st.rk)
       /\ Len(st.skipped[k]) < Len(st.rk)
       /\ st.skipped[k] = st.ckr => k[1] = st.dhr /\ k[2] < st.nr
  /\ \A k, l \in DOMAIN st.skipped :
       st.skipped[k] = st.skipped[l] /\ k[2] = l[2] => k = l

\* The key of message `n' of chain `c' can be computed from `st' as it is.
Holds(st, c, n) ==
  \/ c = st.ckr /\ st.nr <= n
  \/ \E k \in DOMAIN st.skipped : st.skipped[k] = c /\ k[2] = n

\* A key pair that was generated before the numbers `fr' were the next ones.
Old(fr, k) == \E w \in Users : \E j \in 0 .. (fr[w] - 1) : k = <<w, j>>
OldChain(fr, c) == \A j \in DOMAIN c : \A k \in c[j] : Old(fr, k)

Types ==
  /\ session \in [Users -> {NoSession} \cup Sessions]
  /\ fresh \in [Users -> 1 .. (MaxKeys + 1)]
  /\ sent \in Seq(Messages) /\ Len(sent) <= MaxMessages
  /\ opened \in [Users -> SUBSET (1 .. MaxMessages)]
  /\ resets \in [Users -> 0 .. MaxResets]

Counted ==
  /\ \A u \in Users : InSession(u) => session[u].ns <= Len(sent)
  /\ \A i \in DOMAIN sent : sent[i].n < Len(sent)
  /\ \A u \in Users : opened[u] \subseteq DOMAIN sent

Shapes == \A u \in Users : InSession(u) => Shape(session[u]) /\ session[u].cks = session[u].rk

KeysAreOld ==
  /\ \A u \in Users : InSession(u) => OldChain(fresh, session[u].rk) /\ Old(fresh, session[u].dhs)
  /\ \A i \in DOMAIN sent : OldChain(fresh, sent[i].chain) /\ Old(fresh, sent[i].dh) /\ sent[i].chain # NoChain

OneSealer ==
  /\ \A u \in Users : InSession(u) =>
       \A i \in DOMAIN sent : sent[i].chain = session[u].cks => sent[i].n < session[u].ns
  /\ \A u, v \in Users : u # v /\ InSession(u) /\ InSession(v) => session[u].rk # session[v].rk

Base == Types /\ Counted /\ Shapes /\ KeysAreOld /\ OneSealer /\ UniqueMessageKeys

\* What was opened can no longer be computed, nor derived by turning the ratchet.
OpenedIsGone ==
  \A u \in Users : InSession(u) =>
    \A i \in opened[u] : Root(sent[i].chain) = Root(session[u].rk) =>
      /\ Len(sent[i].chain) <= Len(session[u].rk)
      /\ ~Holds(session[u], sent[i].chain, sent[i].n)

\* An X3DH session is started by one message, and by nothing else.
OneInit ==
  \A i, j \in DOMAIN sent :
    sent[i].ek # NoKey /\ sent[j].ek # NoKey /\ Root(sent[i].chain) = Root(sent[j].chain) => i = j

\* Before its receiver opens that message, it has nothing of the session, and the
\* sender is where it started.
NotEntered ==
  \A i \in DOMAIN sent : \A u, w \in Users :
    sent[i].ek # NoKey /\ sent[i].from = w /\ w # u /\ i \notin opened[u] =>
      /\ InSession(u) => Root(session[u].rk) # Root(sent[i].chain)
      /\ \A j \in opened[u] : Root(sent[j].chain) # Root(sent[i].chain)
      /\ \A j \in DOMAIN sent : sent[j].from = u => Root(sent[j].chain) # Root(sent[i].chain)
      /\ InSession(w) /\ Root(session[w].rk) = Root(sent[i].chain) => Len(session[w].rk) = 2

\* Chain `c' is the beginning of chain `d'.
Begins(c, d) == Len(c) <= Len(d) /\ \A k \in 1 .. Len(c) : c[k] = d[k]

\* What a user has sent in its present session lies on its way there.
SentOnTheWay ==
  \A i \in DOMAIN sent : \A w \in Users :
    sent[i].from = w /\ InSession(w) /\ Root(session[w].rk) = Root(sent[i].chain)
      => Begins(sent[i].chain, session[w].rk)

OneAhead ==
  \A u, v \in Users :
    ( /\ u # v /\ InSession(u) /\ InSession(v) /\ Root(session[u].rk) = Root(session[v].rk)
      /\ Len(session[u].rk) >= Len(session[v].rk) )
    => Len(session[u].rk) = Len(session[v].rk) + 1 /\ Begins(session[v].rk, session[u].rk)

Pair == OpenedIsGone /\ OneInit /\ NotEntered /\ SentOnTheWay /\ OneAhead
-----------------------------------------------------------------------------
(* Chains and keys.                                                        *)

LEMMA ChainFacts ==
  ASSUME NEW c \in Chains
  PROVE  /\ Len(c) \in Nat /\ DOMAIN c = 1 .. Len(c)
         /\ c = NoChain <=> Len(c) = 0
         /\ \A k \in 1 .. Len(c) : c[k] \in SUBSET Keys
  BY EmptySeq DEF Chains, NoChain

LEMMA AppendFacts ==
  ASSUME NEW c \in Chains, NEW x \in SUBSET Keys
  PROVE  /\ Append(c, x) \in Chains /\ Append(c, x) # NoChain
         /\ Len(Append(c, x)) = Len(c) + 1
         /\ Append(c, x)[Len(c) + 1] = x
         /\ \A k \in 1 .. Len(c) : Append(c, x)[k] = c[k]
         /\ c # NoChain => Root(Append(c, x)) = Root(c)
         /\ Begins(c, Append(c, x))
<1> DEFINE d == Append(c, x)
<1>1. d \in Seq(SUBSET Keys) /\ Len(d) = Len(c) + 1 /\ d[Len(c) + 1] = x
      /\ \A k \in 1 .. Len(c) : d[k] = c[k]
  BY DEF Chains
<1>2. d # NoChain
  BY <1>1, ChainFacts DEF Chains
<1>3. c # NoChain => Root(d) = Root(c)
  <2>1. c # NoChain => Len(c) > 0
    BY ChainFacts
  <2> QED BY <2>1, <1>1, ChainFacts DEF Root
<1>4. Begins(c, d)
  BY <1>1, ChainFacts DEF Begins
<1> QED BY <1>1, <1>2, <1>3, <1>4 DEF Chains

LEMMA SingleFacts ==
  ASSUME NEW x \in SUBSET Keys
  PROVE  <<x>> \in Chains /\ <<x>> # NoChain /\ Len(<<x>>) = 1 /\ Root(<<x>>) = x
  BY DEF Chains, NoChain, Root

LEMMA BeginsFacts ==
  /\ \A c \in Chains : Begins(c, c)
  /\ \A c, d \in Chains : Begins(c, d) /\ Len(c) = Len(d) => c = d
  /\ \A c, d, e \in Chains : Begins(c, d) /\ Begins(d, e) => Begins(c, e)
<1>1. \A c \in Chains : Begins(c, c)
  BY ChainFacts DEF Begins
<1>2. ASSUME NEW c \in Chains, NEW d \in Chains, Begins(c, d), Len(c) = Len(d) PROVE c = d
  BY <1>2 DEF Chains, Begins
<1>3. ASSUME NEW c \in Chains, NEW d \in Chains, NEW e \in Chains, Begins(c, d), Begins(d, e)
      PROVE Begins(c, e)
  <2>1. Len(c) \in Nat /\ Len(d) \in Nat /\ Len(e) \in Nat
    BY ChainFacts
  <2> QED BY <1>3, <2>1 DEF Begins
<1> QED BY <1>1, <1>2, <1>3

\* There are two correspondents, and a key pair has an owner and a number.
LEMMA PeerFacts ==
  ASSUME NEW u \in Users
  PROVE  Peer(u) \in Users /\ Peer(u) # u /\ \A v \in Users : v = u \/ v = Peer(u)
<1>1. IsFiniteSet(Users) /\ Cardinality(Users) = 2
  BY UsersAssumption
<1>2. IsFiniteSet(Users \ {u}) /\ Cardinality(Users \ {u}) = 1
  BY <1>1, FS_RemoveElement
<1>3. PICK b : Users \ {u} = {b}
  BY <1>2, FS_Singleton
<1>4. b \in Users /\ b # u /\ \A v \in Users : v = u \/ v = b
  BY <1>3
<1> QED BY <1>4 DEF Peer
-----------------------------------------------------------------------------
(* What the operators of DoubleRatchet keep.                               *)

LEMMA SkippedFacts ==
  ASSUME NEW st \in Sessions
  PROVE  /\ DOMAIN st.skipped \subseteq Keys \X (0 .. MaxMessages)
         /\ \A k \in DOMAIN st.skipped : st.skipped[k] \in Chains
  BY DEF Sessions, SkippedMaps

LEMMA SkippedTyped ==
  ASSUME NEW f, f = [k \in DOMAIN f |-> f[k]],
         DOMAIN f \subseteq Keys \X (0 .. MaxMessages),
         \A k \in DOMAIN f : f[k] \in Chains
  PROVE  f \in SkippedMaps
<1>1. f \in [DOMAIN f -> Chains]
  OBVIOUS
<1> QED BY <1>1 DEF SkippedMaps

\* skip_message_keys moves keys from the receive chain to the cache.
LEMMA SkipKeeps ==
  ASSUME NEW st, Shape(st), NEW until \in 0 .. MaxMessages
  PROVE  LET new == SkipTo(st, until) IN
         /\ Shape(new)
         /\ \A x \in {"dhs", "dhr", "rk", "cks", "ckr", "ns", "pn"} : new[x] = st[x]
         /\ new.nr = st.nr \/ new.nr = until
         /\ until <= st.nr => new = st
         /\ \A c, n : n \in Nat /\ c # NoChain /\ Holds(new, c, n) => Holds(st, c, n)
<1> DEFINE passed == {st.dhr} \X (st.nr .. (until - 1))
           map == [k \in DOMAIN st.skipped \cup passed |->
                     IF k \in passed THEN st.ckr ELSE st.skipped[k]]
           new == SkipTo(st, until)
<1>0. st \in Sessions /\ st.nr \in Nat
  BY DEF Shape, Sessions
<1>1. CASE until <= st.nr \/ st.ckr = NoChain
  <2>1. new = st
    BY <1>1 DEF SkipTo
  <2> QED BY <2>1
<1>2. CASE ~(until <= st.nr \/ st.ckr = NoChain)
  <2>1. new = [st EXCEPT !.nr = until, !.skipped = map]
    BY <1>2 DEF SkipTo
  <2>2. DOMAIN map = DOMAIN st.skipped \cup passed
        /\ (\A k \in passed : map[k] = st.ckr)
        /\ (\A k \in DOMAIN st.skipped : k \notin passed => map[k] = st.skipped[k])
    OBVIOUS
  <2>3. \A k \in passed : k[1] = st.dhr /\ k[2] \in st.nr .. (until - 1) /\ k = <<k[1], k[2]>>
    OBVIOUS
  <2>4. map \in SkippedMaps
    <3>1. DOMAIN st.skipped \subseteq Keys \X (0 .. MaxMessages)
          /\ (\A k \in DOMAIN st.skipped : st.skipped[k] \in Chains)
      BY <1>0, SkippedFacts
    <3>2. passed \subseteq Keys \X (0 .. MaxMessages)
      BY <1>0, DmBounds DEF Sessions
    <3>3. st.ckr \in Chains
      BY <1>0 DEF Sessions
    <3>4. DOMAIN map \subseteq Keys \X (0 .. MaxMessages) /\ (\A k \in DOMAIN map : map[k] \in Chains)
      BY <3>1, <3>2, <3>3
    <3> HIDE DEF passed
    <3> QED BY <3>4, SkippedTyped
  <2> HIDE DEF map
  <2>5. new \in Sessions /\ new.skipped = map /\ new.nr = until
        /\ new.dhs = st.dhs /\ new.dhr = st.dhr /\ new.rk = st.rk /\ new.cks = st.cks
        /\ new.ckr = st.ckr /\ new.ns = st.ns /\ new.pn = st.pn
    BY <1>0, <2>1, <2>4 DEF Sessions
  <2> HIDE DEF new
  <2>6. \A k \in DOMAIN map : /\ map[k] # NoChain /\ Root(map[k]) = Root(st.rk)
                              /\ Len(map[k]) < Len(st.rk)
                              /\ map[k] = st.ckr => k[1] = st.dhr /\ k[2] < until
    <3>0. until \in Nat /\ st.nr < until /\ st.ckr # NoChain
      BY <1>0, <1>2, DmBounds
    <3>1. ASSUME NEW k \in passed PROVE k[1] = st.dhr /\ k[2] < until /\ map[k] = st.ckr
      BY <1>0, <3>0, <2>2, <2>3
    <3>2. ASSUME NEW k \in DOMAIN st.skipped, k \notin passed
          PROVE  /\ map[k] # NoChain /\ Root(map[k]) = Root(st.rk) /\ Len(map[k]) < Len(st.rk)
                 /\ map[k] = st.ckr => k[1] = st.dhr /\ k[2] < until
      <4>1. map[k] = st.skipped[k] /\ k[2] \in Nat
        <5>1. k[2] \in Nat
          BY <1>0, SkippedFacts, DmBounds
        <5> HIDE DEF passed
        <5> QED BY <5>1, <2>2, <3>2
      <4> HIDE DEF passed
      <4> QED BY <1>0, <3>0, <4>1 DEF Shape
    <3>3. Root(st.ckr) = Root(st.rk) /\ Len(st.ckr) < Len(st.rk)
      BY <3>0 DEF Shape
    <3> HIDE DEF passed
    <3> QED BY <2>2, <3>0, <3>1, <3>2, <3>3
  <2>7. ASSUME NEW k \in DOMAIN map, NEW l \in DOMAIN map, map[k] = map[l], k[2] = l[2]
        PROVE  k = l
    <3>0. \A m \in DOMAIN st.skipped : m = <<m[1], m[2]>>
      BY <1>0, SkippedFacts
    <3>1. CASE k \in passed /\ l \in passed
      BY <3>1, <2>3, <2>7
    <3>2. CASE k \in passed /\ l \notin passed
      <4>1. l \in DOMAIN st.skipped /\ st.skipped[l] = st.ckr
        BY <3>2, <2>2, <2>7
      <4>2. l[1] = st.dhr
        BY <4>1 DEF Shape
      <4> QED BY <3>0, <4>1, <4>2, <2>3, <2>7, <3>2
    <3>3. CASE k \notin passed /\ l \in passed
      <4>1. k \in DOMAIN st.skipped /\ st.skipped[k] = st.ckr
        BY <3>3, <2>2, <2>7
      <4>2. k[1] = st.dhr
        BY <4>1 DEF Shape
      <4> QED BY <3>0, <4>1, <4>2, <2>3, <2>7, <3>3
    <3>4. CASE k \notin passed /\ l \notin passed
      <4> HIDE DEF passed
      <4> QED BY <3>4, <2>2, <2>7 DEF Shape
    <3> QED BY <3>1, <3>2, <3>3, <3>4
  <2>8. Shape(new)
    BY <2>5, <2>6, <2>7 DEF Shape
  <2>9. ASSUME NEW c, NEW n \in Nat, c # NoChain, Holds(new, c, n) PROVE Holds(st, c, n)
    <3>1. CASE c = st.ckr /\ until <= n
      BY <1>0, <1>2, <3>1 DEF Holds
    <3>2. CASE \E k \in DOMAIN map : map[k] = c /\ k[2] = n
      <4>1. PICK k \in DOMAIN map : map[k] = c /\ k[2] = n
        BY <3>2
      <4>2. CASE k \in passed
        BY <4>1, <4>2, <2>2, <2>3, <1>0 DEF Holds
      <4>3. CASE k \notin passed
        <5> HIDE DEF passed
        <5> QED BY <4>1, <4>3, <2>2 DEF Holds
      <4> QED BY <4>2, <4>3
    <3> QED BY <2>5, <2>9, <3>1, <3>2 DEF Holds
  <2>10. \A x \in {"dhs", "dhr", "rk", "cks", "ckr", "ns", "pn"} : new[x] = st[x]
    BY <2>5
  <2> QED BY <1>2, <2>5, <2>8, <2>9, <2>10 DEF new
<1> QED BY <1>1, <1>2
\* dh_ratchet lengthens the root key by two agreements, and lets no older key in.
Ratcheted(st, dh, f, new) ==
  /\ Shape(new)
  /\ new.ckr = Append(st.rk, {st.dhs, dh}) /\ new.rk = Append(new.ckr, {f, dh})
  /\ new.cks = new.rk /\ new.dhs = f /\ new.dhr = dh
  /\ new.ns = 0 /\ new.nr = 0 /\ new.pn = st.ns /\ new.skipped = st.skipped
  /\ Root(new.rk) = Root(st.rk) /\ Len(new.ckr) = Len(st.rk) + 1
  /\ Len(new.rk) = Len(st.rk) + 2

LEMMA RatchetKeeps ==
  ASSUME NEW st, Shape(st), NEW dh \in Keys, NEW f \in Keys
  PROVE  Ratcheted(st, dh, f, DhRatchet(st, dh, f))
<1> DEFINE new == DhRatchet(st, dh, f)
           recv == Append(st.rk, {st.dhs, dh})
           send == Append(recv, {f, dh})
<1>0. st \in Sessions /\ st.rk \in Chains /\ st.dhs \in Keys /\ st.rk # NoChain
  BY DEF Shape, Sessions
<1>1. recv \in Chains /\ Len(recv) = Len(st.rk) + 1 /\ recv # NoChain /\ Root(recv) = Root(st.rk)
  <2>1. {st.dhs, dh} \in SUBSET Keys
    BY <1>0
  <2> QED BY <1>0, <2>1, AppendFacts
<1>2. send \in Chains /\ Len(send) = Len(recv) + 1 /\ send # NoChain /\ Root(send) = Root(recv)
  <2>1. {f, dh} \in SUBSET Keys
    OBVIOUS
  <2> HIDE DEF recv
  <2> QED BY <1>1, <2>1, AppendFacts
<1>3. new = [st EXCEPT !.pn = st.ns, !.ns = 0, !.nr = 0, !.dhr = dh, !.dhs = f,
                       !.ckr = recv, !.rk = send, !.cks = send]
  BY DEF DhRatchet, KdfRk
<1>4. Len(st.rk) \in Nat
  BY <1>0, ChainFacts
<1> HIDE DEF recv, send
<1>5. new \in Sessions /\ new.ckr = recv /\ new.rk = send /\ new.cks = send
      /\ new.dhs = f /\ new.dhr = dh /\ new.ns = 0 /\ new.nr = 0 /\ new.pn = st.ns
      /\ new.skipped = st.skipped
  <2>1. 0 \in 0 .. MaxMessages
    BY DmBounds
  <2> HIDE DEF new
  <2>2. new \in Sessions
    BY <1>0, <1>1, <1>2, <1>3, <2>1 DEF Sessions
  <2>3. DOMAIN st = {"dhs", "dhr", "rk", "cks", "ckr", "ns", "nr", "pn", "skipped"}
    BY <1>0 DEF Sessions
  <2> QED BY <1>3, <2>2, <2>3
<1> HIDE DEF new
<1>6. \A k \in DOMAIN new.skipped :
         /\ new.skipped[k] # NoChain /\ Root(new.skipped[k]) = Root(new.rk)
         /\ Len(new.skipped[k]) < Len(new.rk) /\ new.skipped[k] # new.ckr
  <2> SUFFICES ASSUME NEW k \in DOMAIN new.skipped
               PROVE  /\ new.skipped[k] # NoChain /\ Root(new.skipped[k]) = Root(new.rk)
                      /\ Len(new.skipped[k]) < Len(new.rk) /\ new.skipped[k] # new.ckr
    OBVIOUS
  <2>1. st.skipped[k] # NoChain /\ Root(st.skipped[k]) = Root(st.rk)
        /\ Len(st.skipped[k]) < Len(st.rk) /\ Len(st.skipped[k]) \in Nat
    <3>1. st.skipped[k] \in Chains
      BY <1>0, <1>5, SkippedFacts
    <3> QED BY <1>5, <3>1, ChainFacts DEF Shape
  <2> QED BY <2>1, <1>1, <1>2, <1>4, <1>5
<1>7. \A k, l \in DOMAIN new.skipped :
        new.skipped[k] = new.skipped[l] /\ k[2] = l[2] => k = l
  BY <1>5 DEF Shape
<1>8. Shape(new)
  BY <1>1, <1>2, <1>4, <1>5, <1>6, <1>7 DEF Shape
<1> QED BY <1>1, <1>2, <1>4, <1>5, <1>8 DEF new, recv, send, Ratcheted

\* What decrypts a message: a key at hand, or one turn of the ratchet.
LEMMA OpeningKey ==
  ASSUME NEW st, Shape(st), NEW h \in Messages, h.chain # NoChain, NEW f, CanDecrypt(st, h, f)
  PROVE  /\ Root(h.chain) = Root(st.rk)
         /\ Turns(st, h) => h.chain = Append(st.rk, {st.dhs, h.dh})
         /\ ~Turns(st, h) => Holds(st, h.chain, h.n) /\ Len(h.chain) < Len(st.rk)
<1>0. h.n \in 0 .. MaxMessages /\ h.pn \in 0 .. MaxMessages /\ h.n \in Nat /\ h.dh \in Keys
  BY DmBounds DEF Messages
<1>1. CASE Cached(st, h)
  <2> DEFINE k == <<h.dh, h.n>>
  <2>1. k \in DOMAIN st.skipped /\ st.skipped[k] = h.chain /\ ~Turns(st, h)
        /\ k[2] = h.n
    BY <1>1 DEF Cached, CanDecrypt, Turns
  <2>2. Root(h.chain) = Root(st.rk) /\ Len(h.chain) < Len(st.rk)
    BY <2>1 DEF Shape
  <2> HIDE DEF k
  <2>3. Holds(st, h.chain, h.n)
    BY <2>1 DEF Holds
  <2> QED BY <2>1, <2>2, <2>3
<1>2. CASE ~Cached(st, h) /\ ~Turns(st, h)
  <2>1. SkipTo(st, h.n).ckr = h.chain /\ SkipTo(st, h.n).nr = h.n
    BY <1>2 DEF CanDecrypt, Turned
  <2>2. st.ckr = h.chain /\ st.nr <= h.n
    <3>1. st.nr \in Nat
      BY DEF Shape, Sessions
    <3>2. SkipTo(st, h.n)["ckr"] = st["ckr"] /\ (h.n <= st.nr => SkipTo(st, h.n) = st)
      BY <1>0, SkipKeeps
    <3> QED BY <2>1, <1>0, <3>1, <3>2
  <2> QED BY <1>2, <2>2 DEF Shape, Holds
<1>3. CASE ~Cached(st, h) /\ Turns(st, h)
  <2> DEFINE mid == SkipTo(st, h.pn)
             turned == DhRatchet(mid, h.dh, f)
  <2>1. Shape(mid) /\ mid.rk = st.rk /\ mid.dhs = st.dhs
    BY <1>0, SkipKeeps
  <2>2. SkipTo(turned, h.n).ckr = h.chain
    BY <1>3 DEF CanDecrypt, Turned
  <2>3. turned.ckr = Append(st.rk, {st.dhs, h.dh})
    <3> HIDE DEF mid
    <3>1. mid \in Sessions
      BY <2>1 DEF Shape
    <3> QED BY <2>1, <3>1 DEF DhRatchet, KdfRk, Sessions
  <2>4. SkipTo(turned, h.n).ckr = turned.ckr
    <3>1. turned.nr = 0 /\ turned = [turned EXCEPT !.dhs = @]
      <4> HIDE DEF mid
      <4>1. mid \in Sessions
        BY <2>1 DEF Shape
      <4> QED BY <4>1 DEF DhRatchet, Sessions
    <3> QED BY <3>1 DEF SkipTo, DhRatchet
  <2>5. Root(Append(st.rk, {st.dhs, h.dh})) = Root(st.rk)
    <3>1. st.rk \in Chains /\ st.rk # NoChain /\ {st.dhs, h.dh} \in SUBSET Keys
      BY <1>0 DEF Shape, Sessions
    <3> QED BY <3>1, AppendFacts
  <2> QED BY <1>3, <2>2, <2>3, <2>4, <2>5
<1> QED BY <1>1, <1>2, <1>3

\* Going from `st' to `new' the key of message `n' of chain `c' is used up.
UsesUp(st, new, c, n) ==
  /\ Shape(new) /\ ~Holds(new, c, n)
  /\ \A x \in {"dhs", "dhr", "rk", "cks", "ckr", "ns", "pn"} : new[x] = st[x]
  /\ \A d, m : m \in Nat /\ Holds(new, d, m) => Holds(st, d, m)

Without(st, k) == [st EXCEPT !.skipped = Restrict(@, DOMAIN @ \ {k})]

\* The key at the head of the receive chain is used once.
LEMMA HeadUsed ==
  ASSUME NEW at, Shape(at), at.nr < MaxMessages, at.ckr # NoChain
  PROVE  UsesUp(at, [at EXCEPT !.nr = @ + 1], at.ckr, at.nr)
<1> DEFINE new == [at EXCEPT !.nr = @ + 1]
<1>1. at \in Sessions /\ at.nr \in Nat /\ at.nr + 1 \in 0 .. MaxMessages
  BY DmBounds DEF Shape, Sessions
<1>2. new \in Sessions /\ new.nr = at.nr + 1 /\ new.skipped = at.skipped
      /\ new.dhs = at.dhs /\ new.dhr = at.dhr /\ new.rk = at.rk /\ new.cks = at.cks
      /\ new.ckr = at.ckr /\ new.ns = at.ns /\ new.pn = at.pn
  BY <1>1 DEF Sessions
<1> HIDE DEF new
<1>3. \A k \in DOMAIN at.skipped : k[2] \in Nat
  BY <1>1, SkippedFacts, DmBounds
<1>4. Shape(new)
  BY <1>1, <1>2, <1>3 DEF Shape
<1>5. ~Holds(new, at.ckr, at.nr)
  BY <1>1, <1>2, <1>3 DEF Shape, Holds
<1>6. ASSUME NEW c, NEW n \in Nat, Holds(new, c, n) PROVE Holds(at, c, n)
  BY <1>1, <1>2, <1>6 DEF Holds
<1>7. \A x \in {"dhs", "dhr", "rk", "cks", "ckr", "ns", "pn"} : new[x] = at[x]
  BY <1>2
<1> QED BY <1>4, <1>5, <1>6, <1>7 DEF new, UsesUp

\* A cached key is used once.
LEMMA CachedUsed ==
  ASSUME NEW st, Shape(st), NEW k \in DOMAIN st.skipped
  PROVE  UsesUp(st, Without(st, k), st.skipped[k], k[2])
<1> DEFINE new == Without(st, k)
           map == Restrict(st.skipped, DOMAIN st.skipped \ {k})
<1>0. st \in Sessions /\ st.nr \in Nat
  BY DEF Shape, Sessions
<1>1. DOMAIN map = DOMAIN st.skipped \ {k} /\ (\A l \in DOMAIN map : map[l] = st.skipped[l])
      /\ map = [l \in DOMAIN map |-> map[l]]
  BY DEF Restrict
<1>2. new = [st EXCEPT !.skipped = map]
  BY DEF Without
<1> HIDE DEF map
<1>3. map \in SkippedMaps
  BY <1>0, <1>1, SkippedFacts, SkippedTyped
<1>4. new \in Sessions /\ new.nr = st.nr /\ new.skipped = map
      /\ new.dhs = st.dhs /\ new.dhr = st.dhr /\ new.rk = st.rk /\ new.cks = st.cks
      /\ new.ckr = st.ckr /\ new.ns = st.ns /\ new.pn = st.pn
  <2> HIDE DEF new
  <2> QED BY <1>0, <1>2, <1>3 DEF Sessions
<1> HIDE DEF new
<1>5. \A l \in DOMAIN st.skipped : l[2] \in Nat
  BY <1>0, SkippedFacts, DmBounds
<1>6. Shape(new)
  BY <1>1, <1>4 DEF Shape
<1>7. ~Holds(new, st.skipped[k], k[2])
  <2>1. ~(st.skipped[k] = new.ckr /\ new.nr <= k[2])
    BY <1>0, <1>4, <1>5 DEF Shape
  <2>2. ~(\E l \in DOMAIN new.skipped : new.skipped[l] = st.skipped[k] /\ l[2] = k[2])
    BY <1>1, <1>4 DEF Shape
  <2> QED BY <2>1, <2>2 DEF Holds
<1>8. ASSUME NEW c, NEW n, Holds(new, c, n) PROVE Holds(st, c, n)
  BY <1>1, <1>4, <1>8 DEF Holds
<1>9. \A x \in {"dhs", "dhr", "rk", "cks", "ckr", "ns", "nr", "pn"} : new[x] = st[x]
  BY <1>4
<1> QED BY <1>6, <1>7, <1>8, <1>9 DEF new, UsesUp

\* decrypt: the key of the message is gone afterwards and no other key comes in
\* but with longer chains; without a turn the sending side stays as it is, with
\* one it goes on with a fresh key pair.
LEMMA Opens ==
  ASSUME NEW st, Shape(st), NEW h \in Messages, h.chain # NoChain, h.n < MaxMessages,
         NEW f, Turns(st, h) => f \in Keys, CanDecrypt(st, h, f)
  PROVE  LET new == AfterDecrypt(st, h, f) IN
         /\ Shape(new) /\ Root(new.rk) = Root(st.rk)
         /\ ~Turns(st, h) => /\ new.rk = st.rk /\ new.cks = st.cks /\ new.dhs = st.dhs
                             /\ new.ns = st.ns
         /\ Turns(st, h) => /\ h.chain = Append(st.rk, {st.dhs, h.dh})
                            /\ new.rk = Append(h.chain, {f, h.dh}) /\ new.cks = new.rk
                            /\ new.dhs = f /\ new.ns = 0
         /\ ~Holds(new, h.chain, h.n) /\ Len(h.chain) < Len(new.rk)
         /\ \A c \in Chains, n \in Nat :
              c # NoChain /\ Len(c) <= Len(st.rk) /\ Holds(new, c, n) => Holds(st, c, n)
<1> DEFINE new == AfterDecrypt(st, h, f)
<1>0. /\ h.n \in 0 .. MaxMessages /\ h.pn \in 0 .. MaxMessages /\ h.n \in Nat /\ h.dh \in Keys
      /\ h.chain \in Chains
      /\ st \in Sessions /\ st.nr \in Nat /\ st.rk \in Chains
  BY DmBounds DEF Messages, Shape, Sessions
<1>1. CASE Cached(st, h)
  <2> DEFINE k == <<h.dh, h.n>>
  <2>1. k \in DOMAIN st.skipped /\ st.skipped[k] = h.chain /\ ~Turns(st, h) /\ k[2] = h.n
    BY <1>1 DEF Cached, CanDecrypt, Turns
  <2>2. new = Without(st, k)
    BY <1>1 DEF AfterDecrypt, Without
  <2> HIDE DEF k, new
  <2>3. /\ Shape(new) /\ ~Holds(new, h.chain, h.n)
        /\ \A x \in {"dhs", "dhr", "rk", "cks", "ckr", "ns", "pn"} : new[x] = st[x]
        /\ \A c, n : n \in Nat /\ Holds(new, c, n) => Holds(st, c, n)
    <3>1. UsesUp(st, new, st.skipped[k], k[2])
      BY <2>1, <2>2, CachedUsed
    <3> QED BY <2>1, <3>1 DEF UsesUp
  <2>4. new.rk = st.rk /\ new.cks = st.cks /\ new.dhs = st.dhs /\ new.ns = st.ns
    BY <2>3
  <2>5. Len(h.chain) < Len(new.rk)
    BY <2>1, <2>4 DEF Shape
  <2> QED BY <2>1, <2>3, <2>4, <2>5 DEF new
<1>2. CASE ~Cached(st, h)
  <2> DEFINE turned == Turned(st, h, f)
             at == SkipTo(turned, h.n)
  <2>1. at.ckr = h.chain /\ at.nr = h.n /\ new = [at EXCEPT !.nr = @ + 1]
    BY <1>2 DEF CanDecrypt, AfterDecrypt
  <2>2. CASE ~Turns(st, h)
    <3>1. turned = st
      BY <2>2 DEF Turned
    <3> HIDE DEF new, turned
    <3>2. /\ Shape(at)
          /\ \A x \in {"dhs", "dhr", "rk", "cks", "ckr", "ns", "pn"} : at[x] = st[x]
          /\ \A c, n : n \in Nat /\ c # NoChain /\ Holds(at, c, n) => Holds(st, c, n)
      BY <1>0, <3>1, SkipKeeps
    <3> HIDE DEF at
    <3>3. /\ Shape(new) /\ ~Holds(new, h.chain, h.n)
          /\ \A x \in {"dhs", "dhr", "rk", "cks", "ckr", "ns", "pn"} : new[x] = at[x]
          /\ \A c, n : n \in Nat /\ Holds(new, c, n) => Holds(at, c, n)
      BY <2>1, <3>2, HeadUsed DEF UsesUp
    <3>4. new.rk = st.rk /\ new.cks = st.cks /\ new.dhs = st.dhs /\ new.ns = st.ns
      BY <3>2, <3>3
    <3>5. Len(h.chain) < Len(new.rk)
      <4>1. new.ckr = h.chain
        BY <2>1, <3>3
      <4> QED BY <3>3, <4>1 DEF Shape
    <3> QED BY <2>2, <3>2, <3>3, <3>4, <3>5 DEF new
  <2>3. CASE Turns(st, h)
    <3> DEFINE mid == SkipTo(st, h.pn)
    <3>1. turned = DhRatchet(mid, h.dh, f)
      BY <2>3 DEF Turned
    <3>2. /\ Shape(mid) /\ mid.rk = st.rk /\ mid.dhs = st.dhs
          /\ \A c, n : n \in Nat /\ c # NoChain /\ Holds(mid, c, n) => Holds(st, c, n)
      BY <1>0, SkipKeeps
    <3> HIDE DEF mid, new, turned
    <3>3. /\ Shape(turned)
          /\ turned.ckr = Append(st.rk, {st.dhs, h.dh}) /\ turned.rk = Append(turned.ckr, {f, h.dh})
          /\ turned.cks = turned.rk /\ turned.dhs = f
          /\ turned.ns = 0 /\ turned.skipped = mid.skipped
          /\ Root(turned.rk) = Root(st.rk) /\ Len(turned.ckr) = Len(st.rk) + 1
      <4>1. Ratcheted(mid, h.dh, f, turned)
        BY <1>0, <2>3, <3>1, <3>2, RatchetKeeps
      <4> QED BY <3>2, <4>1 DEF Ratcheted
    <3>4. /\ Shape(at)
          /\ \A x \in {"dhs", "dhr", "rk", "cks", "ckr", "ns", "pn"} : at[x] = turned[x]
          /\ \A c, n : n \in Nat /\ c # NoChain /\ Holds(at, c, n) => Holds(turned, c, n)
      BY <1>0, <3>3, SkipKeeps
    <3> HIDE DEF at
    <3>5. /\ Shape(new) /\ ~Holds(new, h.chain, h.n)
          /\ \A x \in {"dhs", "dhr", "rk", "cks", "ckr", "ns", "pn"} : new[x] = at[x]
          /\ \A c, n : n \in Nat /\ Holds(new, c, n) => Holds(at, c, n)
      BY <2>1, <3>4, HeadUsed DEF UsesUp
    <3>6. new.rk = turned.rk /\ new.cks = new.rk /\ new.dhs = f /\ new.ns = 0
          /\ new.ckr = turned.ckr /\ turned.ckr = h.chain
      BY <2>1, <3>3, <3>4, <3>5
    <3>7. Len(h.chain) < Len(new.rk)
      BY <3>5, <3>6 DEF Shape
    <3>8. ASSUME NEW c \in Chains, NEW n \in Nat,
                 c # NoChain, Len(c) <= Len(st.rk), Holds(new, c, n)
          PROVE  Holds(st, c, n)
      <4>1. Holds(turned, c, n)
        BY <3>4, <3>5, <3>8
      <4>2. c # turned.ckr
        BY <1>0, <3>3, <3>8, ChainFacts
      <4>3. Holds(mid, c, n)
        BY <3>3, <4>1, <4>2 DEF Holds
      <4> QED BY <3>2, <3>8, <4>3
    <3> QED BY <2>3, <3>3, <3>5, <3>6, <3>7, <3>8 DEF new
  <2> QED BY <2>2, <2>3
<1> QED BY <1>1, <1>2
-----------------------------------------------------------------------------
(* Base: keys, chains and numbers, however often a message is read.        *)

LEMMA FreshNotOld ==
  ASSUME Types, NEW u \in Users, NEW k \in Nat
  PROVE  ~Old(fresh, FreshKey(u, k))
  BY DEF Types, Old, FreshKey

LEMMA OldIsKey == \A k : Old(fresh, k) => k # NoKey
  BY DEF Old, NoKey

LEMMA SpkIsOld ==
  ASSUME Types, NEW u \in Users
  PROVE  Spk(u) \in Keys /\ Old(fresh, Spk(u))
<1>1. Spk(u) \in Keys
  BY DmBounds DEF Spk, Keys
<1>2. 0 \in 0 .. (fresh[u] - 1)
  BY DEF Types
<1> QED BY <1>1, <1>2 DEF Old, Spk

LEMMA OldStays ==
  ASSUME Types, Types', \A w \in Users : fresh[w] <= fresh'[w]
  PROVE  /\ \A k : Old(fresh, k) => Old(fresh', k)
         /\ \A c : OldChain(fresh, c) => OldChain(fresh', c)
<1>1. ASSUME NEW k, Old(fresh, k) PROVE Old(fresh', k)
  <2>1. PICK w \in Users : \E j \in 0 .. (fresh[w] - 1) : k = <<w, j>>
    BY <1>1 DEF Old
  <2>2. PICK j \in 0 .. (fresh[w] - 1) : k = <<w, j>>
    BY <2>1
  <2>3. j \in 0 .. (fresh'[w] - 1)
    BY <2>1, <2>2 DEF Types
  <2> QED BY <2>2, <2>3 DEF Old
<1>2. ASSUME NEW c, OldChain(fresh, c) PROVE OldChain(fresh', c)
  BY <1>1, <1>2 DEF OldChain
<1> QED BY <1>1, <1>2

\* The messages after one more was sent.
LEMMA SentFacts ==
  ASSUME NEW s \in Seq(Messages), NEW m \in Messages
  PROVE  /\ Append(s, m) \in Seq(Messages) /\ Len(Append(s, m)) = Len(s) + 1
         /\ Len(s) \in Nat /\ DOMAIN s = 1 .. Len(s)
         /\ DOMAIN Append(s, m) = DOMAIN s \cup {Len(s) + 1}
         /\ Append(s, m)[Len(s) + 1] = m
         /\ \A i \in DOMAIN s : Append(s, m)[i] = s[i] /\ i # Len(s) + 1 /\ i <= Len(s)
         /\ \A i \in DOMAIN s : s[i] \in Messages
  OBVIOUS

\* The message that SendWith seals.
SealedBy(u, st, ek, saved) ==
  [from |-> u, ek |-> ek, dh |-> st.dhs, pn |-> st.pn, n |-> st.ns,
   chain |-> st.cks, stored |-> saved]

LEMMA AdvanceFacts ==
  ASSUME NEW st, Shape(st), st.ns < MaxMessages
  PROVE  LET new == Advance(st) IN
         /\ Shape(new) /\ new.ns = st.ns + 1 /\ new.nr = st.nr /\ new.skipped = st.skipped
         /\ new.dhs = st.dhs /\ new.dhr = st.dhr /\ new.rk = st.rk /\ new.cks = st.cks
         /\ new.ckr = st.ckr /\ new.pn = st.pn
<1> DEFINE new == Advance(st)
<1>1. new = [st EXCEPT !.ns = st.ns + 1]
  BY DEF Advance
<1>2. st \in Sessions /\ st.ns + 1 \in 0 .. MaxMessages
  BY DmBounds DEF Shape, Sessions
<1> HIDE DEF new
<1>3. new \in Sessions /\ new.ns = st.ns + 1 /\ new.nr = st.nr /\ new.skipped = st.skipped
      /\ new.dhs = st.dhs /\ new.dhr = st.dhr /\ new.rk = st.rk /\ new.cks = st.cks
      /\ new.ckr = st.ckr /\ new.pn = st.pn
  BY <1>1, <1>2 DEF Sessions
<1>4. Shape(new)
  BY <1>3 DEF Shape
<1> QED BY <1>3, <1>4 DEF new

\* Sending keeps Base when no one else seals with the chain of `st'.
LEMMA SendKeepsBase ==
  ASSUME Base, NEW u \in Users, NEW st, Shape(st), st.cks = st.rk, st.ns <= Len(sent),
         NEW ek \in Keys, NEW saved \in BOOLEAN, SendWith(u, st, ek, saved),
         fresh' \in [Users -> 1 .. (MaxKeys + 1)], \A w \in Users : fresh[w] <= fresh'[w],
         OldChain(fresh', st.rk), Old(fresh', st.dhs),
         \A i \in DOMAIN sent : sent[i].chain = st.cks => sent[i].n < st.ns,
         \A v \in Users : v # u /\ InSession(v) => session[v].rk # st.rk
  PROVE  /\ Base' /\ Advance(st) \in Sessions
         /\ sent' = Append(sent, SealedBy(u, st, ek, saved))
         /\ SealedBy(u, st, ek, saved) \in Messages
         /\ session' = [session EXCEPT ![u] = Advance(st)]
<1> DEFINE m == SealedBy(u, st, ek, saved)
           new == Advance(st)
<1>0. Types /\ Counted /\ Shapes /\ KeysAreOld /\ OneSealer /\ UniqueMessageKeys
  BY DEF Base
<1>1. st \in Sessions /\ sent \in Seq(Messages) /\ Len(sent) < MaxMessages /\ st.rk # NoChain
  BY <1>0 DEF Shape, Types, SendWith
<1>2. m \in Messages /\ m.chain = st.rk /\ m.n = st.ns /\ m.dh = st.dhs /\ m.from = u /\ m.ek = ek
  BY <1>1 DEF SealedBy, Sessions, Messages
<1>3. sent' = Append(sent, m)
  BY DEF SendWith, Header, SealedBy
<1>4. session' = [session EXCEPT ![u] = new] /\ opened' = opened /\ resets' = resets
  BY DEF SendWith
<1>5. Shape(new) /\ new.ns = st.ns + 1 /\ new.rk = st.rk /\ new.cks = st.cks /\ new.dhs = st.dhs
  <2>1. st.ns < MaxMessages
    BY <1>1, DmBounds DEF Sessions
  <2> QED BY <2>1, AdvanceFacts
<1>6. st.ns \in Nat /\ Len(sent) \in Nat
  BY <1>1, SentFacts, DmBounds DEF Sessions
<1> HIDE DEF new
<1>7. /\ sent' \in Seq(Messages) /\ Len(sent') = Len(sent) + 1
      /\ DOMAIN sent = 1 .. Len(sent) /\ DOMAIN sent' = DOMAIN sent \cup {Len(sent) + 1}
      /\ sent'[Len(sent) + 1] = m
      /\ \A i \in DOMAIN sent : sent'[i] = sent[i] /\ i # Len(sent) + 1 /\ sent[i] \in Messages
  BY <1>1, <1>2, <1>3, SentFacts
<1> HIDE DEF m
<1>8. session'[u] = new /\ \A v \in Users : v # u => session'[v] = session[v]
  BY <1>0, <1>4 DEF Types
<1>9. Types'
  <2>1. session' \in [Users -> {NoSession} \cup Sessions]
    BY <1>0, <1>4, <1>5 DEF Types, Shape
  <2>2. Len(sent') <= MaxMessages
    BY <1>1, <1>6, <1>7, DmBounds
  <2> QED BY <1>0, <1>4, <1>7, <2>1, <2>2 DEF Types
<1>10. Counted'
  <2>1. ASSUME NEW v \in Users, InSession(v)' PROVE session'[v].ns <= Len(sent')
    <3>1. CASE v = u
      BY <3>1, <1>5, <1>6, <1>7, <1>8
    <3>2. CASE v # u
      <4>1. InSession(v) /\ session[v].ns \in Nat
        BY <3>2, <2>1, <1>0, <1>8, DmBounds DEF InSession, Types, Sessions
      <4> QED BY <3>2, <4>1, <1>0, <1>6, <1>7, <1>8 DEF Counted
    <3> QED BY <3>1, <3>2
  <2>2. ASSUME NEW i \in DOMAIN sent' PROVE sent'[i].n < Len(sent')
    <3>1. CASE i \in DOMAIN sent
      <4>1. sent[i].n \in Nat
        BY <3>1, <1>7, DmBounds DEF Messages
      <4> QED BY <3>1, <4>1, <1>0, <1>6, <1>7 DEF Counted
    <3>2. CASE i = Len(sent) + 1
      BY <3>2, <1>2, <1>6, <1>7
    <3> QED BY <3>1, <3>2, <1>7
  <2>3. \A v \in Users : opened'[v] \subseteq DOMAIN sent'
    BY <1>0, <1>4, <1>7 DEF Counted
  <2> QED BY <2>1, <2>2, <2>3 DEF Counted
<1>11. Shapes'
  BY <1>0, <1>5, <1>8 DEF Shapes, InSession
<1>12. KeysAreOld'
  <2>1. (\A k : Old(fresh, k) => Old(fresh', k)) /\ (\A c : OldChain(fresh, c) => OldChain(fresh', c))
    BY <1>0, <1>9, OldStays
  <2>2. ASSUME NEW v \in Users, InSession(v)' PROVE OldChain(fresh', session'[v].rk) /\ Old(fresh', session'[v].dhs)
    <3>1. CASE v = u
      BY <3>1, <1>5, <1>8
    <3>2. CASE v # u
      BY <3>2, <2>1, <2>2, <1>0, <1>8 DEF KeysAreOld, InSession
    <3> QED BY <3>1, <3>2
  <2>3. ASSUME NEW i \in DOMAIN sent'
        PROVE  OldChain(fresh', sent'[i].chain) /\ Old(fresh', sent'[i].dh) /\ sent'[i].chain # NoChain
    <3>1. CASE i \in DOMAIN sent
      BY <3>1, <2>1, <1>0, <1>7 DEF KeysAreOld
    <3>2. CASE i = Len(sent) + 1
      BY <3>2, <1>1, <1>2, <1>7
    <3> QED BY <3>1, <3>2, <1>7
  <2> QED BY <2>2, <2>3 DEF KeysAreOld
<1>13. OneSealer'
  <2>1. ASSUME NEW v \in Users, InSession(v)', NEW i \in DOMAIN sent', sent'[i].chain = session'[v].cks
        PROVE  sent'[i].n < session'[v].ns
    <3>1. CASE v = u /\ i \in DOMAIN sent
      <4>1. sent[i].n \in Nat /\ sent[i].n < st.ns
        BY <3>1, <2>1, <1>5, <1>7, <1>8, DmBounds DEF Messages
      <4> QED BY <3>1, <4>1, <1>5, <1>6, <1>7, <1>8
    <3>2. CASE v = u /\ i = Len(sent) + 1
      BY <3>2, <1>2, <1>5, <1>6, <1>7, <1>8
    <3>3. CASE v # u /\ i \in DOMAIN sent
      BY <3>3, <2>1, <1>0, <1>7, <1>8 DEF OneSealer, InSession
    <3>4. CASE v # u /\ i = Len(sent) + 1
      BY <3>4, <2>1, <1>0, <1>2, <1>7, <1>8 DEF Shapes, InSession
    <3> QED BY <3>1, <3>2, <3>3, <3>4, <1>7
  <2>2. \A v, w \in Users : v # w /\ InSession(v)' /\ InSession(w)' => session'[v].rk # session'[w].rk
    BY <1>0, <1>5, <1>8 DEF OneSealer, InSession
  <2> QED BY <2>1, <2>2 DEF OneSealer
<1>14. UniqueMessageKeys'
  <2>1. \A i \in DOMAIN sent : ~(sent[i].chain = m.chain /\ sent[i].n = m.n)
    BY <1>2, <1>6
  <2> QED BY <2>1, <1>0, <1>7 DEF UniqueMessageKeys
<1> QED BY <1>2, <1>3, <1>4, <1>5, <1>9, <1>10, <1>11, <1>12, <1>13, <1>14 DEF Base, Shape, new, m
\* A chain that ends with a new key pair is not an old one.
LEMMA ChainOfNewKey ==
  ASSUME Types, NEW u \in Users, NEW k \in Nat, NEW c \in Chains, NEW x \in Keys,
         FreshKey(u, k) \in Keys
  PROVE  ~OldChain(fresh, Append(c, {FreshKey(u, k), x}))
<1> DEFINE f == FreshKey(u, k)  d == Append(c, {f, x})
<1>1. ~Old(fresh, f)
  BY FreshNotOld
<1>2. d \in Chains /\ Len(d) = Len(c) + 1 /\ d[Len(c) + 1] = {f, x} /\ DOMAIN d = 1 .. Len(d)
  <2>1. {f, x} \in SUBSET Keys
    OBVIOUS
  <2> QED BY <2>1, AppendFacts, ChainFacts
<1>3. Len(c) \in Nat
  BY ChainFacts
<1> HIDE DEF f, d
<1> QED BY <1>1, <1>2, <1>3 DEF OldChain, f, d

LEMMA ChainGrowsOld ==
  ASSUME NEW fr, NEW c \in Chains, NEW x \in SUBSET Keys, OldChain(fr, c), \A k \in x : Old(fr, k)
  PROVE  OldChain(fr, Append(c, x))
<1> DEFINE d == Append(c, x)
<1>1. /\ Len(d) = Len(c) + 1 /\ d[Len(c) + 1] = x /\ DOMAIN d = 1 .. Len(d)
      /\ \A j \in 1 .. Len(c) : d[j] = c[j]
  BY AppendFacts, ChainFacts
<1>2. Len(c) \in Nat /\ DOMAIN c = 1 .. Len(c)
  BY ChainFacts
<1> HIDE DEF d
<1>3. ASSUME NEW j \in DOMAIN d PROVE \A k \in d[j] : Old(fr, k)
  <2>1. CASE j = Len(c) + 1
    BY <2>1, <1>1
  <2>2. CASE j \in DOMAIN c
    BY <2>2, <1>1, <1>2 DEF OldChain
  <2> QED BY <2>1, <2>2, <1>1, <1>2
<1>4. OldChain(fr, d)
  BY <1>3 DEF OldChain
<1> QED BY <1>4 DEF d

\* x3dhSend and ratchetInitSender.
LEMMA Starts ==
  ASSUME Types, NEW u \in Users, fresh[u] < MaxKeys,
         fresh' = [fresh EXCEPT ![u] = @ + 2]
  PROVE  LET ek == FreshKey(u, 0)
             fk == FreshKey(u, 1)
             spk == Spk(Peer(u))
             st == InitSender(X3dh(ek, spk), fk, spk)
         IN  /\ ek \in Keys /\ fk \in Keys /\ ek # NoKey /\ {ek, spk} \in SUBSET Keys
             /\ Shape(st) /\ st.cks = st.rk /\ st.ns = 0 /\ st.dhs = fk
             /\ Len(st.rk) = 2 /\ Root(st.rk) = {ek, spk}
             /\ fresh' \in [Users -> 1 .. (MaxKeys + 1)] /\ \A w \in Users : fresh[w] <= fresh'[w]
             /\ OldChain(fresh', st.rk) /\ Old(fresh', fk)
             /\ \A c : OldChain(fresh, c) /\ Len(c) \in Nat /\ Len(c) > 0 /\ DOMAIN c = 1 .. Len(c)
                         => Root(c) # Root(st.rk) /\ c # st.rk
<1> DEFINE ek == FreshKey(u, 0)
           fk == FreshKey(u, 1)
           spk == Spk(Peer(u))
           sk == X3dh(ek, spk)
           st == InitSender(sk, fk, spk)
<1>0. fresh[u] \in 1 .. (MaxKeys - 1) /\ fresh \in [Users -> 1 .. (MaxKeys + 1)] /\ MaxKeys \in Nat
  BY DmBounds DEF Types
<1>1. ek \in Keys /\ fk \in Keys /\ ek # NoKey
  BY <1>0 DEF FreshKey, Keys, NoKey
<1>2. spk \in Keys /\ Old(fresh, spk)
  BY PeerFacts, SpkIsOld
<1>3. fresh' \in [Users -> 1 .. (MaxKeys + 1)] /\ fresh'[u] = fresh[u] + 2
      /\ \A w \in Users : fresh[w] <= fresh'[w]
  BY <1>0
<1>4. Old(fresh', ek) /\ Old(fresh', fk) /\ Old(fresh', spk)
  <2>1. Old(fresh', ek)
    <3>1. fresh[u] + 0 \in 0 .. (fresh'[u] - 1)
      BY <1>0, <1>3
    <3> QED BY <3>1 DEF Old, FreshKey
  <2>2. Old(fresh', fk)
    <3>1. fresh[u] + 1 \in 0 .. (fresh'[u] - 1)
      BY <1>0, <1>3
    <3> QED BY <3>1 DEF Old, FreshKey
  <2>3. Old(fresh', spk)
    <3>1. 0 \in 0 .. (fresh'[Peer(u)] - 1)
      BY <1>3, PeerFacts
    <3> QED BY <3>1, PeerFacts DEF Old, Spk
  <2> QED BY <2>1, <2>2, <2>3
<1>5. ~Old(fresh, ek)
  BY FreshNotOld
<1> HIDE DEF ek, fk, spk
<1>6. sk = {ek, spk} /\ sk \in SUBSET Keys /\ ek \in sk
  BY <1>1, <1>2 DEF X3dh
<1> HIDE DEF sk
<1>7. <<sk>> \in Chains /\ <<sk>> # NoChain /\ Len(<<sk>>) = 1 /\ Root(<<sk>>) = sk
  BY <1>6, SingleFacts
<1> DEFINE rk == Append(<<sk>>, {fk, spk})
<1>8. {fk, spk} \in SUBSET Keys
  BY <1>1, <1>2
<1>9. rk \in Chains /\ rk # NoChain /\ Len(rk) = 2 /\ Root(rk) = sk
  <2> DEFINE one == <<sk>>
  <2>1. one \in Chains /\ one # NoChain /\ Len(one) = 1 /\ Root(one) = sk
    BY <1>7
  <2> HIDE DEF one
  <2> DEFINE x == {fk, spk}
  <2>2. x \in SUBSET Keys
    BY <1>8
  <2> HIDE DEF x
  <2>3. Append(one, x) \in Chains /\ Append(one, x) # NoChain
        /\ Len(Append(one, x)) = 1 + 1 /\ Root(Append(one, x)) = Root(one)
    BY <2>1, <2>2, AppendFacts
  <2> QED BY <2>1, <2>3 DEF one, x
<1>10. OldChain(fresh', rk)
  <2>1. OldChain(fresh', <<sk>>)
    BY <1>4, <1>6 DEF OldChain
  <2> QED BY <2>1, <1>4, <1>7, <1>8, ChainGrowsOld
<1>11. st = [dhs |-> fk, dhr |-> spk, rk |-> rk, cks |-> rk, ckr |-> NoChain,
             ns |-> 0, nr |-> 0, pn |-> 0, skipped |-> <<>>]
  BY DEF InitSender, KdfRk
<1> HIDE DEF rk
<1>12. <<>> \in SkippedMaps /\ NoChain \in Chains /\ 0 \in 0 .. MaxMessages /\ DOMAIN <<>> = {}
  <2>1. NoChain \in Chains
    BY EmptySeq DEF NoChain, Chains
  <2>2. DOMAIN <<>> = {} /\ <<>> = [k \in DOMAIN <<>> |-> <<>>[k]]
    OBVIOUS
  <2>3. <<>> \in SkippedMaps
    BY <2>2, SkippedTyped
  <2> QED BY <2>1, <2>2, <2>3, DmBounds
<1>13. st \in Sessions
  BY <1>1, <1>2, <1>9, <1>11, <1>12 DEF Sessions
<1>14. st.dhs = fk /\ st.rk = rk /\ st.cks = rk /\ st.ckr = NoChain /\ st.ns = 0 /\ st.skipped = <<>>
  BY <1>11
<1> HIDE DEF st
<1>15. Shape(st)
  BY <1>9, <1>12, <1>13, <1>14 DEF Shape
<1>16. ASSUME NEW c, OldChain(fresh, c), Len(c) \in Nat, Len(c) > 0, DOMAIN c = 1 .. Len(c)
       PROVE  Root(c) # Root(rk) /\ c # rk
  <2>1. 1 \in DOMAIN c
    BY <1>16
  <2>2. ek \notin c[1]
    BY <2>1, <1>5, <1>16 DEF OldChain
  <2>3. Root(c) # sk
    BY <2>2, <1>6 DEF Root
  <2> QED BY <2>3, <1>9
<1> QED BY <1>1, <1>3, <1>4, <1>6, <1>9, <1>10, <1>14, <1>15, <1>16 DEF ek, fk, spk, sk, st
LEMMA MessageFacts ==
  ASSUME Base, NEW i \in DOMAIN sent
  PROVE  /\ sent[i] \in Messages /\ sent[i].chain \in Chains /\ sent[i].chain # NoChain
         /\ sent[i].ek \in Keys /\ sent[i].dh \in Keys /\ sent[i].from \in Users
         /\ sent[i].n \in Nat /\ sent[i].n < MaxMessages
         /\ OldChain(fresh, sent[i].chain) /\ Old(fresh, sent[i].dh)
<1>0. Types /\ Counted /\ KeysAreOld
  BY DEF Base
<1>1. sent \in Seq(Messages) /\ Len(sent) \in Nat /\ Len(sent) <= MaxMessages
  BY <1>0 DEF Types
<1>2. sent[i] \in Messages /\ sent[i].n < Len(sent)
  BY <1>0, <1>1 DEF Counted
<1> DEFINE h == sent[i]
<1> HIDE DEF h
<1>3. h \in Messages => h.chain \in Chains /\ h.ek \in Keys /\ h.dh \in Keys /\ h.from \in Users
                        /\ h.n \in Nat
  BY DmBounds DEF Messages
<1>4. sent[i].n < MaxMessages
  BY <1>1, <1>2, <1>3, DmBounds DEF h
<1> QED BY <1>0, <1>2, <1>3, <1>4 DEF KeysAreOld, h

\* What reading message `i' in state `st' leaves.
LEMMA ReadFacts ==
  ASSUME Base, NEW u \in Users, NEW i \in DOMAIN sent, NEW st, Shape(st),
         CanDecrypt(st, sent[i], FreshKey(u, 0)), ReadWith(u, i, st)
  PROVE  LET new == AfterDecrypt(st, sent[i], FreshKey(u, 0)) IN
         /\ Turns(st, sent[i]) => FreshKey(u, 0) \in Keys
         /\ sent[i] \in Messages /\ sent[i].chain \in Chains /\ sent[i].chain # NoChain
         /\ sent[i].n \in Nat /\ sent[i].n < MaxMessages
         /\ Shape(new) /\ new \in Sessions /\ st \in Sessions
         /\ session'[u] = new /\ \A v \in Users : v # u => session'[v] = session[v]
         /\ sent' = sent /\ opened'[u] = opened[u] \cup {i}
         /\ \A v \in Users : v # u => opened'[v] = opened[v]
<1> DEFINE h == sent[i]
           f == FreshKey(u, 0)
           new == AfterDecrypt(st, h, f)
<1>0. Types /\ Counted /\ KeysAreOld
  BY DEF Base
<1>1. h \in Messages /\ h.chain \in Chains /\ h.chain # NoChain /\ h.n \in Nat /\ h.n < MaxMessages
  BY MessageFacts
<1>2. Turns(st, h) => f \in Keys
  <2>1. fresh[u] \in 1 .. (MaxKeys + 1) /\ MaxKeys \in Nat
    BY <1>0, DmBounds DEF Types
  <2>2. Turns(st, h) => fresh[u] <= MaxKeys
    BY DEF ReadWith
  <2> HIDE DEF h
  <2> QED BY <2>1, <2>2 DEF FreshKey, Keys
<1> HIDE DEF h, f
<1>3. Shape(new)
  BY <1>1, <1>2, Opens DEF h, f
<1>4. session' = [session EXCEPT ![u] = new] /\ sent' = sent
      /\ opened' = [opened EXCEPT ![u] = @ \cup {i}]
  BY DEF ReadWith, h, f
<1> HIDE DEF new
<1>5. session'[u] = new /\ \A v \in Users : v # u => session'[v] = session[v]
  BY <1>0, <1>4 DEF Types
<1>6. opened'[u] = opened[u] \cup {i} /\ \A v \in Users : v # u => opened'[v] = opened[v]
  BY <1>0, <1>4 DEF Types
<1> QED BY <1>1, <1>2, <1>3, <1>4, <1>5, <1>6 DEF new, h, f, Shape

\* Reading keeps Base: a turn seals with a chain that is new.
LEMMA ReadKeepsBase ==
  ASSUME Base, NEW u \in Users, NEW i \in DOMAIN sent, NEW st, Shape(st),
         CanDecrypt(st, sent[i], FreshKey(u, 0)), ReadWith(u, i, st),
         Turns(st, sent[i]) \/ (InSession(u) /\ st = session[u])
  PROVE  /\ Base'
         /\ Turns(st, sent[i]) =>
              ~OldChain(fresh, Append(sent[i].chain, {FreshKey(u, 0), sent[i].dh}))
<1> DEFINE h == sent[i]
           f == FreshKey(u, 0)
           new == AfterDecrypt(st, h, f)
<1>0. Types /\ Counted /\ Shapes /\ KeysAreOld /\ OneSealer /\ UniqueMessageKeys
  BY DEF Base
<1>1. /\ Turns(st, h) => f \in Keys
      /\ h \in Messages /\ h.chain \in Chains /\ h.chain # NoChain
      /\ h.n \in Nat /\ h.n < MaxMessages
      /\ Shape(new) /\ new \in Sessions /\ st \in Sessions
      /\ session'[u] = new /\ \A v \in Users : v # u => session'[v] = session[v]
      /\ sent' = sent /\ opened'[u] = opened[u] \cup {i}
      /\ \A v \in Users : v # u => opened'[v] = opened[v]
  BY ReadFacts
<1>2. fresh' = [fresh EXCEPT ![u] = IF Turns(st, h) THEN @ + 1 ELSE @]
      /\ (Turns(st, h) => fresh[u] <= MaxKeys)
      /\ session' = [session EXCEPT ![u] = new]
      /\ opened' = [opened EXCEPT ![u] = @ \cup {i}] /\ resets' = resets
  BY DEF ReadWith
<1>3. OldChain(fresh, h.chain) /\ Old(fresh, h.dh)
  BY <1>0 DEF KeysAreOld
<1>4. h.dh \in Keys
  BY <1>1 DEF Messages
<1>5. /\ ~Turns(st, h) => /\ new.rk = st.rk /\ new.cks = st.cks /\ new.dhs = st.dhs
                          /\ new.ns = st.ns
      /\ Turns(st, h) => new.rk = Append(h.chain, {f, h.dh}) /\ new.cks = new.rk
                         /\ new.dhs = f /\ new.ns = 0
  BY <1>1, Opens
<1> HIDE DEF new
<1>6. fresh' \in [Users -> 1 .. (MaxKeys + 1)] /\ (\A w \in Users : fresh[w] <= fresh'[w])
      /\ (Turns(st, h) => fresh'[u] = fresh[u] + 1) /\ fresh[u] \in Nat
  <2>1. fresh \in [Users -> 1 .. (MaxKeys + 1)] /\ MaxKeys \in Nat
    BY <1>0, DmBounds DEF Types
  <2> HIDE DEF h
  <2>2. CASE Turns(st, h)
    BY <1>2, <2>1, <2>2
  <2>3. CASE ~Turns(st, h)
    BY <1>2, <2>1, <2>3
  <2> QED BY <2>1, <2>2, <2>3
<1>7. Types'
  <2>1. session' \in [Users -> {NoSession} \cup Sessions]
    BY <1>0, <1>1, <1>2 DEF Types
  <2>2. i \in 1 .. MaxMessages
    BY <1>0, DmBounds DEF Types
  <2>3. opened' \in [Users -> SUBSET (1 .. MaxMessages)]
    BY <1>0, <1>2, <2>2 DEF Types
  <2> QED BY <1>0, <1>1, <1>2, <1>6, <2>1, <2>3 DEF Types
<1>8. ~Turns(st, h) => InSession(u) /\ st = session[u]
  OBVIOUS
<1>9. (\A k : Old(fresh, k) => Old(fresh', k)) /\ (\A c : OldChain(fresh, c) => OldChain(fresh', c))
  BY <1>0, <1>6, <1>7, OldStays
<1>10. Turns(st, h) => /\ ~OldChain(fresh, new.rk) /\ OldChain(fresh', new.rk)
                       /\ Old(fresh', f)
  <2> SUFFICES ASSUME Turns(st, h)
               PROVE  ~OldChain(fresh, new.rk) /\ OldChain(fresh', new.rk) /\ Old(fresh', f)
    OBVIOUS
  <2>1. Old(fresh', f)
    <3>1. fresh[u] + 0 \in 0 .. (fresh'[u] - 1)
      BY <1>6
    <3> QED BY <3>1 DEF Old, FreshKey
  <2>2. ~OldChain(fresh, new.rk)
    <3>1. FreshKey(u, 0) \in Keys /\ 0 \in Nat
      BY <1>1
    <3> HIDE DEF h
    <3>2. ~OldChain(fresh, Append(h.chain, {FreshKey(u, 0), h.dh}))
      BY <3>1, <1>0, <1>1, <1>4, ChainOfNewKey
    <3> QED BY <3>2, <1>5
  <2>3. OldChain(fresh', new.rk)
    <3> DEFINE x == {f, h.dh}
    <3>1. x \in SUBSET Keys /\ \A k \in x : Old(fresh', k)
      BY <1>1, <1>3, <1>4, <1>9, <2>1
    <3>2. OldChain(fresh', h.chain) /\ h.chain \in Chains
      BY <1>1, <1>3, <1>9
    <3> HIDE DEF x, h, f
    <3>3. OldChain(fresh', Append(h.chain, x))
      BY <3>1, <3>2, ChainGrowsOld
    <3> QED BY <3>3, <1>5 DEF x
  <2> QED BY <2>1, <2>2, <2>3
<1> HIDE DEF h, f
<1>11. Counted'
  <2>1. ASSUME NEW v \in Users, InSession(v)' PROVE session'[v].ns <= Len(sent')
    <3>1. CASE v = u /\ Turns(st, h)
      <4>1. Len(sent) \in Nat
        BY <1>0 DEF Types
      <4> QED BY <3>1, <4>1, <1>1, <1>5
    <3>2. CASE v = u /\ ~Turns(st, h)
      BY <3>2, <1>0, <1>1, <1>5, <1>8 DEF Counted
    <3>3. CASE v # u
      BY <3>3, <2>1, <1>0, <1>1 DEF Counted, InSession
    <3> QED BY <3>1, <3>2, <3>3
  <2>2. \A v \in Users : opened'[v] \subseteq DOMAIN sent'
    BY <1>0, <1>1 DEF Counted
  <2> QED BY <1>0, <1>1, <2>1, <2>2 DEF Counted
<1>12. Shapes'
  <2>1. new.cks = new.rk
    BY <1>0, <1>5, <1>8 DEF Shapes
  <2> QED BY <2>1, <1>0, <1>1 DEF Shapes, InSession
<1>13. KeysAreOld'
  <2>1. ASSUME NEW v \in Users, InSession(v)'
        PROVE  OldChain(fresh', session'[v].rk) /\ Old(fresh', session'[v].dhs)
    <3>1. CASE v = u /\ Turns(st, h)
      BY <3>1, <1>1, <1>5, <1>10
    <3>2. CASE v = u /\ ~Turns(st, h)
      BY <3>2, <1>0, <1>1, <1>5, <1>8, <1>9 DEF KeysAreOld
    <3>3. CASE v # u
      BY <3>3, <2>1, <1>0, <1>1, <1>9 DEF KeysAreOld, InSession
    <3> QED BY <3>1, <3>2, <3>3
  <2> QED BY <1>0, <1>1, <1>9, <2>1 DEF KeysAreOld
<1>14. OneSealer'
  <2>1. ASSUME NEW v \in Users, InSession(v)', NEW j \in DOMAIN sent, sent[j].chain = session'[v].cks
        PROVE  sent[j].n < session'[v].ns
    <3>1. CASE v = u /\ Turns(st, h)
      <4>1. OldChain(fresh, sent[j].chain)
        BY <1>0 DEF KeysAreOld
      <4> QED BY <3>1, <4>1, <2>1, <1>1, <1>5, <1>10
    <3>2. CASE v = u /\ ~Turns(st, h)
      BY <3>2, <2>1, <1>0, <1>1, <1>5, <1>8 DEF OneSealer
    <3>3. CASE v # u
      BY <3>3, <2>1, <1>0, <1>1 DEF OneSealer, InSession
    <3> QED BY <3>1, <3>2, <3>3
  <2>2. ASSUME NEW v \in Users, v # u, InSession(v) PROVE session[v].rk # new.rk
    <3>1. CASE Turns(st, h)
      <4>1. OldChain(fresh, session[v].rk)
        BY <2>2, <1>0 DEF KeysAreOld
      <4> QED BY <3>1, <4>1, <1>10
    <3>2. CASE ~Turns(st, h)
      BY <3>2, <2>2, <1>0, <1>5, <1>8 DEF OneSealer
    <3> QED BY <3>1, <3>2
  <2>3. \A v, w \in Users : v # w /\ InSession(v)' /\ InSession(w)' => session'[v].rk # session'[w].rk
    BY <2>2, <1>0, <1>1 DEF OneSealer, InSession
  <2> QED BY <1>1, <2>1, <2>3 DEF OneSealer
<1>15. UniqueMessageKeys'
  BY <1>0, <1>1 DEF UniqueMessageKeys
<1> QED BY <1>5, <1>7, <1>10, <1>11, <1>12, <1>13, <1>14, <1>15 DEF Base, h, f
\* x3dhReceive and ratchetInitReceiver: nothing to read with before the first turn.
LEMMA Enters ==
  ASSUME Base, NEW u \in Users, NEW i \in DOMAIN sent
  PROVE  LET st == InitReceiver(X3dh(sent[i].ek, Spk(u)), Spk(u)) IN
         /\ Shape(st) /\ Len(st.rk) = 1 /\ st.dhs = Spk(u)
         /\ Turns(st, sent[i])
         /\ \A c, n : c # NoChain => ~Holds(st, c, n)
<1> DEFINE sk == X3dh(sent[i].ek, Spk(u))
           st == InitReceiver(sk, Spk(u))
           rk == <<sk>>
<1>0. Types /\ KeysAreOld
  BY DEF Base
<1>1. Spk(u) \in Keys
  BY <1>0, SpkIsOld
<1>2. sent[i] \in Messages /\ sent[i].ek \in Keys
  BY MessageFacts
<1>3. sk \in SUBSET Keys
  BY <1>1, <1>2 DEF X3dh
<1>4. sent[i].dh # NoKey
  BY <1>0, OldIsKey DEF KeysAreOld
<1> HIDE DEF sk
<1>5. rk \in Chains /\ rk # NoChain /\ Len(rk) = 1
  BY <1>3, SingleFacts
<1>6. st = [dhs |-> Spk(u), dhr |-> NoKey, rk |-> rk, cks |-> NoChain, ckr |-> NoChain,
            ns |-> 0, nr |-> 0, pn |-> 0, skipped |-> <<>>]
  BY DEF InitReceiver
<1> HIDE DEF rk
<1>7. <<>> \in SkippedMaps /\ NoChain \in Chains /\ 0 \in 0 .. MaxMessages /\ DOMAIN <<>> = {}
      /\ NoKey \in Keys
  <2>1. NoChain \in Chains
    BY EmptySeq DEF NoChain, Chains
  <2>2. DOMAIN <<>> = {} /\ <<>> = [k \in DOMAIN <<>> |-> <<>>[k]]
    OBVIOUS
  <2>3. <<>> \in SkippedMaps
    BY <2>2, SkippedTyped
  <2>4. NoKey \in Keys
    BY DEF Keys
  <2> QED BY <2>1, <2>2, <2>3, <2>4, DmBounds
<1>8. st \in Sessions
  BY <1>1, <1>5, <1>6, <1>7 DEF Sessions
<1>9. st.dhs = Spk(u) /\ st.dhr = NoKey /\ st.rk = rk /\ st.ckr = NoChain /\ st.skipped = <<>>
  BY <1>6
<1> HIDE DEF st
<1>10. Shape(st)
  BY <1>5, <1>7, <1>8, <1>9 DEF Shape
<1>11. Turns(st, sent[i])
  BY <1>4, <1>7, <1>9 DEF Turns, Cached
<1>12. \A c, n : c # NoChain => ~Holds(st, c, n)
  BY <1>7, <1>9 DEF Holds
<1> QED BY <1>5, <1>9, <1>10, <1>11, <1>12 DEF st, sk

LEMMA BaseStarts == Init => Base
<1> SUFFICES ASSUME Init PROVE Base
  OBVIOUS
<1>1. \A u \in Users : ~InSession(u)
  BY DEF Init, InSession
<1>2. sent = <<>> /\ DOMAIN sent = {} /\ Len(sent) = 0 /\ sent \in Seq(Messages)
  BY EmptySeq DEF Init
<1>3. Types
  BY <1>2, DmBounds DEF Init, Types
<1> QED BY <1>1, <1>2, <1>3
        DEF Init, Base, Counted, Shapes, KeysAreOld, OneSealer, UniqueMessageKeys

\* drEncrypt without a session starts one that no chain so far leads to.
LEMMA EncryptFirstBase ==
  ASSUME Base, NEW u \in Users, NEW saved \in BOOLEAN, EncryptFirst(u, saved)
  PROVE  LET ek == FreshKey(u, 0)
             spk == Spk(Peer(u))
             st == InitSender(X3dh(ek, spk), FreshKey(u, 1), spk)
         IN  /\ Base'
             /\ ek # NoKey /\ Len(st.rk) = 2 /\ st.rk \in Chains
             /\ \A c \in Chains : OldChain(fresh, c) /\ c # NoChain => Root(c) # Root(st.rk)
             /\ sent' = Append(sent, SealedBy(u, st, ek, saved))
             /\ SealedBy(u, st, ek, saved) \in Messages
             /\ session' = [session EXCEPT ![u] = Advance(st)]
             /\ Advance(st).rk = st.rk /\ st.cks = st.rk
             /\ opened' = opened
<1> DEFINE ek == FreshKey(u, 0)
           fk == FreshKey(u, 1)
           spk == Spk(Peer(u))
           st == InitSender(X3dh(ek, spk), fk, spk)
<1>0. Types /\ Counted /\ Shapes /\ KeysAreOld /\ OneSealer /\ UniqueMessageKeys
  BY DEF Base
<1>1. fresh[u] < MaxKeys /\ fresh' = [fresh EXCEPT ![u] = @ + 2] /\ SendWith(u, st, ek, saved)
  BY DEF EncryptFirst
<1>2. /\ ek \in Keys /\ ek # NoKey
      /\ Shape(st) /\ st.cks = st.rk /\ st.ns = 0 /\ st.dhs = fk
      /\ Len(st.rk) = 2
      /\ fresh' \in [Users -> 1 .. (MaxKeys + 1)] /\ \A w \in Users : fresh[w] <= fresh'[w]
      /\ OldChain(fresh', st.rk) /\ Old(fresh', fk)
      /\ \A c : OldChain(fresh, c) /\ Len(c) \in Nat /\ Len(c) > 0 /\ DOMAIN c = 1 .. Len(c)
                  => Root(c) # Root(st.rk) /\ c # st.rk
  BY <1>0, <1>1, Starts
<1> HIDE DEF st, ek, fk, spk
<1>3. \A c \in Chains : OldChain(fresh, c) /\ c # NoChain => Root(c) # Root(st.rk) /\ c # st.rk
  <2> SUFFICES ASSUME NEW c \in Chains, OldChain(fresh, c), c # NoChain
               PROVE  Root(c) # Root(st.rk) /\ c # st.rk
    OBVIOUS
  <2>1. Len(c) \in Nat /\ DOMAIN c = 1 .. Len(c) /\ Len(c) # 0
    BY ChainFacts
  <2> QED BY <2>1, <1>2
<1>4. \A i \in DOMAIN sent : sent[i].chain = st.cks => sent[i].n < st.ns
  <2>1. \A i \in DOMAIN sent : sent[i].chain \in Chains
    BY MessageFacts
  <2> QED BY <2>1, <1>0, <1>2, <1>3 DEF KeysAreOld
<1>5. \A v \in Users : v # u /\ InSession(v) => session[v].rk # st.rk
  <2>1. \A v \in Users : InSession(v) => session[v].rk \in Chains /\ session[v].rk # NoChain
    BY <1>0 DEF Shapes, Shape, Sessions
  <2> QED BY <2>1, <1>0, <1>3 DEF KeysAreOld
<1>6. st.ns <= Len(sent)
  BY <1>0, <1>2 DEF Types
<1>7. /\ Base' /\ Advance(st) \in Sessions
      /\ sent' = Append(sent, SealedBy(u, st, ek, saved))
      /\ SealedBy(u, st, ek, saved) \in Messages
      /\ session' = [session EXCEPT ![u] = Advance(st)]
  <2>1. Old(fresh', st.dhs) /\ OldChain(fresh', st.rk)
    BY <1>2
  <2>2. fresh' \in [Users -> 1 .. (MaxKeys + 1)] /\ \A w \in Users : fresh[w] <= fresh'[w]
    BY <1>2
  <2>3. Shape(st) /\ st.cks = st.rk /\ ek \in Keys
    BY <1>2
  <2>4. SendWith(u, st, ek, saved)
    BY <1>1
  <2> QED BY <2>1, <2>2, <2>3, <2>4, <1>4, <1>5, <1>6, SendKeepsBase
<1>8. Advance(st).rk = st.rk /\ st.rk \in Chains
  <2>1. st.ns < MaxMessages
    <3>1. Len(sent) < MaxMessages /\ Len(sent) \in Nat
      BY <1>0, <1>1 DEF SendWith, Types
    <3> QED BY <3>1, <1>2, DmBounds
  <2> QED BY <2>1, <1>2, AdvanceFacts DEF Shape, Sessions
<1>9. opened' = opened
  BY <1>1 DEF SendWith
<1> QED BY <1>2, <1>3, <1>7, <1>8, <1>9 DEF st, ek, fk, spk

\* drEncrypt with a session goes on counting.
LEMMA EncryptBase ==
  ASSUME Base, NEW u \in Users, NEW saved \in BOOLEAN, Encrypt(u, saved)
  PROVE  LET st == session[u] IN
         /\ Base' /\ InSession(u)
         /\ sent' = Append(sent, SealedBy(u, st, NoKey, saved))
         /\ SealedBy(u, st, NoKey, saved) \in Messages
         /\ session' = [session EXCEPT ![u] = Advance(st)]
         /\ Shape(st) /\ st.ns < MaxMessages /\ st.cks = st.rk
         /\ opened' = opened
<1> DEFINE st == session[u]
<1>0. Types /\ Counted /\ Shapes /\ KeysAreOld /\ OneSealer /\ UniqueMessageKeys
  BY DEF Base
<1>1. InSession(u) /\ SendWith(u, st, NoKey, saved) /\ fresh' = fresh
  BY DEF Encrypt, InSession
<1>2. Shape(st) /\ st.cks = st.rk /\ st.ns <= Len(sent) /\ NoKey \in Keys
  BY <1>0, <1>1 DEF Shapes, Counted, Keys
<1>3. fresh' \in [Users -> 1 .. (MaxKeys + 1)] /\ \A w \in Users : fresh[w] <= fresh'[w]
  BY <1>0, <1>1 DEF Types
<1>4. OldChain(fresh', st.rk) /\ Old(fresh', st.dhs)
  BY <1>0, <1>1 DEF KeysAreOld
<1>5. \A i \in DOMAIN sent : sent[i].chain = st.cks => sent[i].n < st.ns
  BY <1>0, <1>1 DEF OneSealer
<1>6. \A v \in Users : v # u /\ InSession(v) => session[v].rk # st.rk
  BY <1>0, <1>1 DEF OneSealer
<1>7. st.ns < MaxMessages
  <2>1. Len(sent) < MaxMessages /\ Len(sent) \in Nat /\ st.ns \in Nat
    BY <1>0, <1>1, <1>2, DmBounds DEF SendWith, Types, Shape, Sessions
  <2> QED BY <2>1, <1>2, DmBounds
<1>8. opened' = opened
  BY <1>1 DEF SendWith
<1> HIDE DEF st
<1>9. /\ Base' /\ Advance(st) \in Sessions
      /\ sent' = Append(sent, SealedBy(u, st, NoKey, saved))
      /\ SealedBy(u, st, NoKey, saved) \in Messages
      /\ session' = [session EXCEPT ![u] = Advance(st)]
  BY <1>1, <1>2, <1>3, <1>4, <1>5, <1>6, SendKeepsBase
<1> QED BY <1>1, <1>2, <1>7, <1>8, <1>9 DEF st

LEMMA ResetBase ==
  ASSUME Base, NEW u \in Users, ResetSession(u)
  PROVE  /\ Base' /\ ~InSession(u)'
         /\ \A v \in Users : v # u => session'[v] = session[v]
<1>0. Types /\ Counted /\ Shapes /\ KeysAreOld /\ OneSealer /\ UniqueMessageKeys
  BY DEF Base
<1>1. session' = [session EXCEPT ![u] = NoSession] /\ resets' = [resets EXCEPT ![u] = @ + 1]
      /\ resets[u] < MaxResets /\ fresh' = fresh /\ sent' = sent /\ opened' = opened
  BY DEF ResetSession
<1>2. session'[u] = NoSession /\ \A v \in Users : v # u => session'[v] = session[v]
  BY <1>0, <1>1 DEF Types
<1>3. Types'
  <2>1. session' \in [Users -> {NoSession} \cup Sessions]
    BY <1>0, <1>1 DEF Types
  <2>2. resets' \in [Users -> 0 .. MaxResets]
    BY <1>0, <1>1, DmBounds DEF Types
  <2> QED BY <1>0, <1>1, <2>1, <2>2 DEF Types
<1>4. Counted'
  BY <1>0, <1>1, <1>2 DEF Counted, InSession
<1>5. Shapes'
  BY <1>0, <1>2 DEF Shapes, InSession
<1>6. KeysAreOld'
  BY <1>0, <1>1, <1>2 DEF KeysAreOld, InSession
<1>7. OneSealer'
  BY <1>0, <1>1, <1>2 DEF OneSealer, InSession
<1>8. UniqueMessageKeys'
  BY <1>0, <1>1 DEF UniqueMessageKeys
<1> QED BY <1>2, <1>3, <1>4, <1>5, <1>6, <1>7, <1>8 DEF Base, InSession

LEMMA BaseKept == Base /\ [Next]_vars => Base'
<1> SUFFICES ASSUME Base, [Next]_vars PROVE Base'
  OBVIOUS
<1>1. CASE UNCHANGED vars
  BY <1>1 DEF vars, Base, Types, Counted, Shapes, KeysAreOld, OneSealer, UniqueMessageKeys, InSession
<1>2. CASE Next
  <2>1. PICK u \in Users :
          \/ \E saved \in BOOLEAN : EncryptFirst(u, saved) \/ Encrypt(u, saved)
          \/ \E i \in DOMAIN sent : Decrypt(u, i) \/ DecryptInit(u, i)
          \/ ResetSession(u)
    BY <1>2 DEF Next
  <2>2. ASSUME NEW saved \in BOOLEAN, EncryptFirst(u, saved) PROVE Base'
    BY <2>2, EncryptFirstBase
  <2>3. ASSUME NEW saved \in BOOLEAN, Encrypt(u, saved) PROVE Base'
    BY <2>3, EncryptBase
  <2>4. ASSUME NEW i \in DOMAIN sent, Decrypt(u, i) PROVE Base'
    <3>1. InSession(u) /\ CanDecrypt(session[u], sent[i], FreshKey(u, 0))
          /\ ReadWith(u, i, session[u])
      BY <2>4 DEF Decrypt, SessionDecrypts, InSession
    <3>2. Shape(session[u])
      BY <3>1 DEF Base, Shapes
    <3> QED BY <3>1, <3>2, ReadKeepsBase
  <2>5. ASSUME NEW i \in DOMAIN sent, DecryptInit(u, i) PROVE Base'
    <3> DEFINE st == InitReceiver(X3dh(sent[i].ek, Spk(u)), Spk(u))
    <3>1. CanDecrypt(st, sent[i], FreshKey(u, 0)) /\ ReadWith(u, i, st)
      BY <2>5 DEF DecryptInit
    <3>2. Shape(st) /\ Turns(st, sent[i])
      BY Enters
    <3> HIDE DEF st
    <3> QED BY <3>1, <3>2, ReadKeepsBase
  <2>6. CASE ResetSession(u)
    BY <2>6, ResetBase
  <2> QED BY <2>1, <2>2, <2>3, <2>4, <2>5, <2>6
<1> QED BY <1>1, <1>2

LEMMA BaseGivesTypeOK == Base => TypeOK
<1> SUFFICES ASSUME Types PROVE TypeOK
  BY DEF Base
<1>1. ASSUME NEW st \in Sessions PROVE IsSession(st)
  <2>1. [st EXCEPT !.skipped = 0] \in
          [dhs : Keys, dhr : Keys, rk : Chains, cks : Chains, ckr : Chains,
           ns : 0 .. MaxMessages, nr : 0 .. MaxMessages, pn : 0 .. MaxMessages, skipped : {0}]
    BY DEF Sessions
  <2> QED BY <2>1, SkippedFacts DEF IsSession
<1> QED BY <1>1 DEF Types, TypeOK

\* No two messages are sealed with the same key, however often messages are read,
\* lost and sessions reset: the nonce of a message is its number, so that a key
\* must never seal two (message_nonce, encrypt).
THEOREM NoKeyReuse == Spec => [](TypeOK /\ UniqueMessageKeys)
<1>1. Base => TypeOK /\ UniqueMessageKeys
  BY BaseGivesTypeOK DEF Base
<1> QED BY BaseStarts, BaseKept, <1>1, PTL DEF Spec
-----------------------------------------------------------------------------
(* Pair: two correspondents who read each message once.                    *)

LEMMA SessionFacts ==
  ASSUME Base, NEW u \in Users, InSession(u)
  PROVE  /\ Shape(session[u]) /\ session[u] \in Sessions /\ session[u].cks = session[u].rk
         /\ session[u].rk \in Chains /\ session[u].rk # NoChain /\ Len(session[u].rk) \in Nat
         /\ OldChain(fresh, session[u].rk)
  BY ChainFacts DEF Base, Shapes, Shape, Sessions, KeysAreOld

LEMMA EncryptFirstPair ==
  ASSUME Base, Pair, NEW u \in Users, NEW saved \in BOOLEAN, EncryptFirst(u, saved)
  PROVE  Pair'
<1> DEFINE ek == FreshKey(u, 0)
           spk == Spk(Peer(u))
           st == InitSender(X3dh(ek, spk), FreshKey(u, 1), spk)
           new == Advance(st)
           m == SealedBy(u, st, ek, saved)
           last == Len(sent) + 1
<1>0. Types
  BY DEF Base
<1>1. /\ ek # NoKey /\ Len(st.rk) = 2 /\ st.rk \in Chains
      /\ \A c \in Chains : OldChain(fresh, c) /\ c # NoChain => Root(c) # Root(st.rk)
      /\ sent' = Append(sent, m) /\ m \in Messages
      /\ session' = [session EXCEPT ![u] = new]
      /\ new.rk = st.rk /\ st.cks = st.rk /\ opened' = opened
  BY EncryptFirstBase
<1>2. m.chain = st.rk /\ m.from = u /\ m.ek = ek
  BY <1>1 DEF SealedBy
<1> HIDE DEF ek, spk, st, new, m
<1>3. /\ DOMAIN sent' = DOMAIN sent \cup {last} /\ sent'[last] = m /\ last \notin DOMAIN sent
      /\ \A i \in DOMAIN sent : sent'[i] = sent[i]
  <2>1. sent \in Seq(Messages)
    BY <1>0 DEF Types
  <2> QED BY <1>1, <2>1, SentFacts
<1> HIDE DEF last
<1>4. session'[u] = new /\ \A v \in Users : v # u => session'[v] = session[v]
  BY <1>0, <1>1 DEF Types
<1>5. \A i \in DOMAIN sent : Root(sent[i].chain) # Root(st.rk)
  BY <1>1, MessageFacts
<1>6. \A v \in Users : InSession(v) => Root(session[v].rk) # Root(st.rk)
  BY <1>1, SessionFacts
<1>7. \A v \in Users : opened[v] \subseteq DOMAIN sent
  BY DEF Base, Counted
<1>8. OpenedIsGone'
  BY <1>1, <1>3, <1>4, <1>5, <1>7 DEF Pair, OpenedIsGone, InSession
<1>9. OneInit'
  BY <1>2, <1>3, <1>5 DEF Pair, OneInit
<1>10. NotEntered'
  <2>1. ASSUME NEW i \in DOMAIN sent', NEW v \in Users, NEW w \in Users,
               sent'[i].ek # NoKey, sent'[i].from = w, w # v, i \notin opened'[v]
        PROVE  /\ InSession(v)' => Root(session'[v].rk) # Root(sent'[i].chain)
               /\ \A j \in opened'[v] : Root(sent'[j].chain) # Root(sent'[i].chain)
               /\ \A j \in DOMAIN sent' : sent'[j].from = v => Root(sent'[j].chain) # Root(sent'[i].chain)
               /\ InSession(w)' /\ Root(session'[w].rk) = Root(sent'[i].chain)
                    => Len(session'[w].rk) = 2
    <3>1. CASE i \in DOMAIN sent
      <4>1. sent'[i] = sent[i] /\ sent[i].from \in Users
        BY <3>1, <1>3, MessageFacts
      <4>2. /\ InSession(v) => Root(session[v].rk) # Root(sent[i].chain)
            /\ \A j \in opened[v] : Root(sent[j].chain) # Root(sent[i].chain)
            /\ \A j \in DOMAIN sent : sent[j].from = v => Root(sent[j].chain) # Root(sent[i].chain)
            /\ InSession(w) /\ Root(session[w].rk) = Root(sent[i].chain)
                 => Len(session[w].rk) = 2
        BY <2>1, <3>1, <4>1, <1>1 DEF Pair, NotEntered
      <4>3. Root(sent[i].chain) # Root(st.rk)
        BY <3>1, <1>5
      <4>4. InSession(v)' => Root(session'[v].rk) # Root(sent[i].chain)
        BY <4>2, <4>3, <1>1, <1>4 DEF InSession
      <4>5. \A j \in opened'[v] : Root(sent'[j].chain) # Root(sent[i].chain)
        BY <4>2, <1>1, <1>3, <1>7
      <4>6. \A j \in DOMAIN sent' : sent'[j].from = v => Root(sent'[j].chain) # Root(sent[i].chain)
        BY <4>2, <4>3, <1>2, <1>3
      <4>7. InSession(w)' /\ Root(session'[w].rk) = Root(sent[i].chain)
              => Len(session'[w].rk) = 2
        BY <4>1, <4>2, <4>3, <1>1, <1>4 DEF InSession
      <4> QED BY <4>1, <4>4, <4>5, <4>6, <4>7
    <3>2. CASE i = last
      <4>1. sent'[i] = m /\ v # u /\ w = u
        BY <3>2, <2>1, <1>2, <1>3
      <4>2. InSession(v)' => Root(session'[v].rk) # Root(st.rk)
        BY <4>1, <1>4, <1>6 DEF InSession
      <4>3. \A j \in opened'[v] : Root(sent'[j].chain) # Root(st.rk)
        BY <1>1, <1>3, <1>5, <1>7
      <4>4. \A j \in DOMAIN sent' : sent'[j].from = v => Root(sent'[j].chain) # Root(st.rk)
        BY <4>1, <1>2, <1>3, <1>5
      <4>5. Len(session'[u].rk) = 2
        BY <1>1, <1>4
      <4> QED BY <4>1, <4>2, <4>3, <4>4, <4>5, <1>2
    <3> QED BY <3>1, <3>2, <1>3
  <2> QED BY <2>1 DEF NotEntered
<1>11. SentOnTheWay'
  <2>1. ASSUME NEW i \in DOMAIN sent', NEW w \in Users, sent'[i].from = w, InSession(w)',
               Root(session'[w].rk) = Root(sent'[i].chain)
        PROVE  Begins(sent'[i].chain, session'[w].rk)
    <3>1. CASE i \in DOMAIN sent
      <4>1. sent'[i] = sent[i] /\ sent[i].from \in Users
        BY <3>1, <1>3, MessageFacts
      <4>2. w # u
        BY <3>1, <4>1, <2>1, <1>1, <1>4, <1>5
      <4> QED BY <3>1, <4>1, <4>2, <2>1, <1>4 DEF Pair, SentOnTheWay, InSession
    <3>2. CASE i = last
      <4>1. Begins(st.rk, st.rk)
        BY <1>1, BeginsFacts
      <4> QED BY <3>2, <4>1, <2>1, <1>1, <1>2, <1>3, <1>4
    <3> QED BY <3>1, <3>2, <1>3
  <2> QED BY <2>1 DEF SentOnTheWay
<1>12. OneAhead'
  BY <1>1, <1>4, <1>6 DEF Pair, OneAhead, InSession
<1> QED BY <1>8, <1>9, <1>10, <1>11, <1>12 DEF Pair

LEMMA EncryptPair ==
  ASSUME Base, Pair, NEW u \in Users, NEW saved \in BOOLEAN, Encrypt(u, saved)
  PROVE  Pair'
<1> DEFINE st == session[u]
           new == Advance(st)
           m == SealedBy(u, st, NoKey, saved)
           last == Len(sent) + 1
<1>0. Types
  BY DEF Base
<1>1. /\ InSession(u) /\ sent' = Append(sent, m) /\ m \in Messages
      /\ session' = [session EXCEPT ![u] = new]
      /\ Shape(st) /\ st.ns < MaxMessages /\ st.cks = st.rk /\ opened' = opened
  BY EncryptBase
<1>2. m.chain = st.rk /\ m.from = u /\ m.ek = NoKey
  BY <1>1 DEF SealedBy
<1>3. new.rk = st.rk /\ new.ckr = st.ckr /\ new.nr = st.nr /\ new.skipped = st.skipped
  BY <1>1, AdvanceFacts
<1>4. /\ DOMAIN sent' = DOMAIN sent \cup {last} /\ sent'[last] = m /\ last \notin DOMAIN sent
      /\ \A i \in DOMAIN sent : sent'[i] = sent[i]
  <2>1. sent \in Seq(Messages)
    BY <1>0 DEF Types
  <2> HIDE DEF m, new
  <2> QED BY <1>1, <2>1, SentFacts
<1> HIDE DEF st, new, m, last
<1>5. session'[u] = new /\ \A v \in Users : v # u => session'[v] = session[v]
  BY <1>0, <1>1 DEF Types
<1>6. session[u] = st
  BY DEF st
<1>7. \A v \in Users : InSession(v)' => InSession(v) /\ session'[v].rk = session[v].rk
  BY <1>1, <1>3, <1>5, <1>6 DEF InSession
<1>8. \A v \in Users : \A c, n : InSession(v)' /\ Holds(session'[v], c, n) => Holds(session[v], c, n)
  BY <1>3, <1>5, <1>6 DEF Holds
<1>9. \A v \in Users : opened[v] \subseteq DOMAIN sent
  BY DEF Base, Counted
<1>10. OpenedIsGone'
  <2>1. ASSUME NEW v \in Users, InSession(v)', NEW i \in opened'[v],
               Root(sent'[i].chain) = Root(session'[v].rk)
        PROVE  /\ Len(sent'[i].chain) <= Len(session'[v].rk)
               /\ ~Holds(session'[v], sent'[i].chain, sent'[i].n)
    <3>1. InSession(v) /\ i \in opened[v] /\ sent'[i] = sent[i] /\ session'[v].rk = session[v].rk
      BY <2>1, <1>1, <1>4, <1>7, <1>9
    <3>2. Len(sent[i].chain) <= Len(session[v].rk) /\ ~Holds(session[v], sent[i].chain, sent[i].n)
      BY <2>1, <3>1 DEF Pair, OpenedIsGone
    <3> QED BY <2>1, <3>1, <3>2, <1>8
  <2> QED BY <2>1 DEF OpenedIsGone
<1>11. OneInit'
  BY <1>2, <1>4 DEF Pair, OneInit
<1>12. NotEntered'
  <2>1. ASSUME NEW i \in DOMAIN sent', NEW v \in Users, NEW w \in Users,
               sent'[i].ek # NoKey, sent'[i].from = w, w # v, i \notin opened'[v]
        PROVE  /\ InSession(v)' => Root(session'[v].rk) # Root(sent'[i].chain)
               /\ \A j \in opened'[v] : Root(sent'[j].chain) # Root(sent'[i].chain)
               /\ \A j \in DOMAIN sent' : sent'[j].from = v => Root(sent'[j].chain) # Root(sent'[i].chain)
               /\ InSession(w)' /\ Root(session'[w].rk) = Root(sent'[i].chain)
                    => Len(session'[w].rk) = 2
    <3>1. i \in DOMAIN sent /\ sent'[i] = sent[i] /\ sent[i].from \in Users
      BY <2>1, <1>2, <1>4, MessageFacts
    <3>2. /\ InSession(v) => Root(session[v].rk) # Root(sent[i].chain)
          /\ \A j \in opened[v] : Root(sent[j].chain) # Root(sent[i].chain)
          /\ \A j \in DOMAIN sent : sent[j].from = v => Root(sent[j].chain) # Root(sent[i].chain)
          /\ InSession(w) /\ Root(session[w].rk) = Root(sent[i].chain)
               => Len(session[w].rk) = 2
      BY <2>1, <3>1, <1>1 DEF Pair, NotEntered
    <3>3. InSession(v)' => Root(session'[v].rk) # Root(sent[i].chain)
      BY <3>2, <1>7
    <3>4. \A j \in opened'[v] : Root(sent'[j].chain) # Root(sent[i].chain)
      BY <3>2, <1>1, <1>4, <1>9
    <3>5. \A j \in DOMAIN sent' : sent'[j].from = v => Root(sent'[j].chain) # Root(sent[i].chain)
      BY <3>2, <1>1, <1>2, <1>4, <1>6
    <3>6. InSession(w)' /\ Root(session'[w].rk) = Root(sent[i].chain)
            => Len(session'[w].rk) = 2
      BY <3>1, <3>2, <1>7
    <3> QED BY <3>1, <3>3, <3>4, <3>5, <3>6
  <2> QED BY <2>1 DEF NotEntered
<1>13. SentOnTheWay'
  <2>1. ASSUME NEW i \in DOMAIN sent', NEW w \in Users, sent'[i].from = w, InSession(w)',
               Root(session'[w].rk) = Root(sent'[i].chain)
        PROVE  Begins(sent'[i].chain, session'[w].rk)
    <3>1. CASE i \in DOMAIN sent
      <4>1. sent'[i] = sent[i] /\ sent[i].from \in Users
        BY <3>1, <1>4, MessageFacts
      <4> QED BY <3>1, <4>1, <2>1, <1>7 DEF Pair, SentOnTheWay
    <3>2. CASE i = last
      <4>1. Begins(st.rk, st.rk)
        BY <1>1, <1>6, SessionFacts, BeginsFacts
      <4> QED BY <3>2, <4>1, <2>1, <1>2, <1>3, <1>4, <1>5
    <3> QED BY <3>1, <3>2, <1>4
  <2> QED BY <2>1 DEF SentOnTheWay
<1>14. OneAhead'
  BY <1>7 DEF Pair, OneAhead
<1> QED BY <1>10, <1>11, <1>12, <1>13, <1>14 DEF Pair

LEMMA ResetPair ==
  ASSUME Base, Pair, NEW u \in Users, ResetSession(u)
  PROVE  Pair'
<1>1. ~InSession(u)' /\ \A v \in Users : v # u => session'[v] = session[v]
  BY ResetBase
<1>2. sent' = sent /\ opened' = opened
  BY DEF ResetSession
<1>3. \A v \in Users : InSession(v)' => InSession(v) /\ session'[v] = session[v]
  BY <1>1 DEF InSession
<1>4. OpenedIsGone'
  BY <1>2, <1>3 DEF Pair, OpenedIsGone
<1>5. OneInit'
  BY <1>2 DEF Pair, OneInit
<1>6. \A i \in DOMAIN sent : sent[i].from \in Users
  BY MessageFacts
<1>7. NotEntered'
  BY <1>2, <1>3, <1>6 DEF Pair, NotEntered
<1>8. SentOnTheWay'
  BY <1>2, <1>3, <1>6 DEF Pair, SentOnTheWay
<1>9. OneAhead'
  BY <1>3 DEF Pair, OneAhead
<1> QED BY <1>4, <1>5, <1>7, <1>8, <1>9 DEF Pair
\* Reading a message with the stored session.
LEMMA DecryptPair ==
  ASSUME Base, Base', Pair, ~Rereads, NEW u \in Users, NEW i \in DOMAIN sent, Decrypt(u, i)
  PROVE  Pair'
<1> DEFINE h == sent[i]
           f == FreshKey(u, 0)
           st == session[u]
           new == AfterDecrypt(st, h, f)
<1>0. Types
  BY DEF Base
<1>1. InSession(u) /\ CanDecrypt(st, h, f) /\ ReadWith(u, i, st)
      /\ h.from # u /\ i \notin opened[u]
  BY DEF Decrypt, SessionDecrypts, InSession, CanBeRead
<1>2. /\ Shape(st) /\ st.rk \in Chains /\ st.rk # NoChain /\ Len(st.rk) \in Nat
      /\ h.chain \in Chains /\ h.chain # NoChain /\ h.n \in Nat /\ h.n < MaxMessages
      /\ h.from \in Users /\ h.dh \in Keys /\ st.dhs \in Keys /\ h \in Messages
  BY <1>1, SessionFacts, MessageFacts DEF Sessions
<1>3. /\ Turns(st, h) => f \in Keys
      /\ Shape(new) /\ session'[u] = new /\ \A v \in Users : v # u => session'[v] = session[v]
      /\ sent' = sent /\ opened'[u] = opened[u] \cup {i}
      /\ \A v \in Users : v # u => opened'[v] = opened[v]
  BY <1>1, <1>2, ReadFacts
<1>4. /\ Root(new.rk) = Root(st.rk)
      /\ ~Turns(st, h) => new.rk = st.rk
      /\ Turns(st, h) => /\ h.chain = Append(st.rk, {st.dhs, h.dh})
                         /\ new.rk = Append(h.chain, {f, h.dh})
      /\ ~Holds(new, h.chain, h.n) /\ Len(h.chain) < Len(new.rk)
      /\ \A c \in Chains, n \in Nat :
           c # NoChain /\ Len(c) <= Len(st.rk) /\ Holds(new, c, n) => Holds(st, c, n)
  BY <1>1, <1>2, <1>3, Opens
<1>5. Root(h.chain) = Root(st.rk)
  BY <1>1, <1>2, OpeningKey
<1>6. Turns(st, h) => /\ Begins(st.rk, h.chain) /\ Len(h.chain) = Len(st.rk) + 1
                      /\ Begins(h.chain, new.rk) /\ Len(new.rk) = Len(h.chain) + 1
                      /\ new.rk \in Chains
  <2> SUFFICES ASSUME Turns(st, h)
               PROVE  /\ Begins(st.rk, h.chain) /\ Len(h.chain) = Len(st.rk) + 1
                      /\ Begins(h.chain, new.rk) /\ Len(new.rk) = Len(h.chain) + 1
                      /\ new.rk \in Chains
    OBVIOUS
  <2> DEFINE x == {st.dhs, h.dh}  y == {f, h.dh}
  <2>1. x \in SUBSET Keys /\ y \in SUBSET Keys
    BY <1>2, <1>3
  <2>2. h.chain = Append(st.rk, x) /\ new.rk = Append(h.chain, y)
    BY <1>4
  <2> HIDE DEF x, y, new, st, h
  <2> QED BY <2>1, <2>2, <1>2, AppendFacts
<1> HIDE DEF h, f, st, new
<1>7. Len(h.chain) \in Nat /\ Len(new.rk) \in Nat /\ Len(st.rk) <= Len(new.rk)
      /\ new.rk \in Chains /\ Begins(st.rk, new.rk)
  <2>1. Len(h.chain) \in Nat
    BY <1>2, ChainFacts
  <2>2. CASE Turns(st, h)
    BY <2>1, <2>2, <1>2, <1>6, BeginsFacts
  <2>3. CASE ~Turns(st, h)
    BY <2>1, <2>3, <1>2, <1>4, BeginsFacts
  <2> QED BY <2>2, <2>3
<1>8. h = sent[i] /\ st = session[u]
  BY DEF h, st
<1>9. \A v \in Users : opened[v] \subseteq DOMAIN sent
  BY DEF Base, Counted
<1>10. \A v \in Users : v # u => (InSession(v)' <=> InSession(v))
  BY <1>3 DEF InSession
<1>11. OpenedIsGone'
  <2>1. ASSUME NEW v \in Users, InSession(v)', NEW j \in opened'[v],
               Root(sent[j].chain) = Root(session'[v].rk)
        PROVE  Len(sent[j].chain) <= Len(session'[v].rk) /\ ~Holds(session'[v], sent[j].chain, sent[j].n)
    <3>1. CASE v # u
      <4>1. InSession(v) /\ j \in opened[v] /\ session'[v] = session[v]
        BY <3>1, <2>1, <1>3, <1>10
      <4> QED BY <4>1, <2>1 DEF Pair, OpenedIsGone
    <3>2. CASE v = u /\ j = i
      BY <3>2, <1>3, <1>4, <1>7, <1>8
    <3>3. CASE v = u /\ j # i
      <4>1. j \in opened[u] /\ Root(sent[j].chain) = Root(st.rk)
        BY <3>3, <2>1, <1>3, <1>4
      <4>2. j \in DOMAIN sent
        BY <4>1, <1>9
      <4>3. sent[j].chain \in Chains /\ sent[j].chain # NoChain /\ sent[j].n \in Nat
            /\ Len(sent[j].chain) \in Nat
        BY <4>2, MessageFacts, ChainFacts
      <4>4. Len(sent[j].chain) <= Len(st.rk) /\ ~Holds(st, sent[j].chain, sent[j].n)
        BY <4>1, <1>1, <1>8 DEF Pair, OpenedIsGone
      <4>5. ~Holds(new, sent[j].chain, sent[j].n)
        BY <4>3, <4>4, <1>4
      <4> QED BY <3>3, <4>3, <4>4, <4>5, <1>2, <1>3, <1>7
    <3> QED BY <3>1, <3>2, <3>3
  <2> QED BY <2>1, <1>3 DEF OpenedIsGone
<1>12. OneInit'
  BY <1>3 DEF Pair, OneInit
<1>13. NotEntered'
  <2>1. ASSUME NEW k \in DOMAIN sent, NEW v \in Users, NEW w \in Users,
               sent[k].ek # NoKey, sent[k].from = w, w # v, k \notin opened'[v]
        PROVE  /\ InSession(v)' => Root(session'[v].rk) # Root(sent[k].chain)
               /\ \A j \in opened'[v] : Root(sent[j].chain) # Root(sent[k].chain)
               /\ \A j \in DOMAIN sent : sent[j].from = v => Root(sent[j].chain) # Root(sent[k].chain)
               /\ InSession(w)' /\ Root(session'[w].rk) = Root(sent[k].chain)
                    => Len(session'[w].rk) = 2
    <3>1. k \notin opened[v]
      BY <2>1, <1>3
    <3>2. /\ InSession(v) => Root(session[v].rk) # Root(sent[k].chain)
          /\ \A j \in opened[v] : Root(sent[j].chain) # Root(sent[k].chain)
          /\ \A j \in DOMAIN sent : sent[j].from = v => Root(sent[j].chain) # Root(sent[k].chain)
          /\ InSession(w) /\ Root(session[w].rk) = Root(sent[k].chain) => Len(session[w].rk) = 2
      BY <2>1, <3>1 DEF Pair, NotEntered
    <3>3. CASE v = u
      <4>1. w # u
        BY <3>3, <2>1
      <4>2. Root(st.rk) # Root(sent[k].chain)
        BY <3>2, <3>3, <1>1, <1>8
      <4> QED BY <3>2, <3>3, <4>1, <4>2, <1>3, <1>4, <1>5, <1>8, <1>10
    <3>4. CASE v # u
      <4>1. w = u /\ h.from = v
        BY <3>4, <2>1, <1>1, <1>2, PeerFacts
      <4>2. Root(h.chain) # Root(sent[k].chain)
        BY <3>2, <4>1, <1>8
      <4> QED BY <3>2, <3>4, <4>1, <4>2, <1>3, <1>4, <1>5, <1>10
    <3> QED BY <3>3, <3>4
  <2> QED BY <2>1, <1>3 DEF NotEntered
<1>14. SentOnTheWay'
  <2>1. ASSUME NEW k \in DOMAIN sent, NEW w \in Users, sent[k].from = w, InSession(w)',
               Root(session'[w].rk) = Root(sent[k].chain)
        PROVE  Begins(sent[k].chain, session'[w].rk)
    <3>1. CASE w = u
      <4>1. Begins(sent[k].chain, st.rk)
        BY <3>1, <2>1, <1>1, <1>3, <1>4, <1>8 DEF Pair, SentOnTheWay
      <4> QED BY <3>1, <4>1, <1>2, <1>3, <1>7, MessageFacts, BeginsFacts
    <3>2. CASE w # u
      BY <3>2, <2>1, <1>3, <1>10 DEF Pair, SentOnTheWay
    <3> QED BY <3>1, <3>2
  <2> QED BY <2>1, <1>3 DEF SentOnTheWay
<1>15. OneAhead'
  <2>1. ASSUME NEW v \in Users, v # u, InSession(v), Root(session[v].rk) = Root(new.rk)
        PROVE  /\ Len(new.rk) >= Len(session[v].rk) =>
                    Len(new.rk) = Len(session[v].rk) + 1 /\ Begins(session[v].rk, new.rk)
               /\ Len(session[v].rk) >= Len(new.rk) =>
                    Len(session[v].rk) = Len(new.rk) + 1 /\ Begins(new.rk, session[v].rk)
    <3>1. CASE ~Turns(st, h)
      BY <3>1, <2>1, <1>1, <1>4, <1>8 DEF Pair, OneAhead
    <3>2. CASE Turns(st, h)
      <4>1. session[v].rk \in Chains /\ Len(session[v].rk) \in Nat /\ h.from = v
        BY <2>1, <1>1, <1>2, SessionFacts, PeerFacts
      <4>2. Begins(h.chain, session[v].rk)
        BY <4>1, <2>1, <1>4, <1>5, <1>8 DEF Pair, SentOnTheWay
      <4>3. Len(session[v].rk) >= Len(h.chain)
        BY <4>2 DEF Begins
      <4>4. Len(session[v].rk) = Len(st.rk) + 1
        BY <4>1, <4>3, <3>2, <2>1, <1>1, <1>2, <1>4, <1>6, <1>8 DEF Pair, OneAhead
      <4>5. session[v].rk = h.chain
        BY <4>1, <4>2, <4>4, <3>2, <1>2, <1>6, BeginsFacts
      <4> QED BY <4>5, <3>2, <1>6, <1>7
    <3> QED BY <3>1, <3>2
  <2> QED BY <2>1, <1>3, <1>10 DEF Pair, OneAhead
<1> QED BY <1>11, <1>12, <1>13, <1>14, <1>15 DEF Pair

\* Entering an X3DH session with its init message.
LEMMA DecryptInitPair ==
  ASSUME Base, Base', Pair, ~Rereads, NEW u \in Users, NEW i \in DOMAIN sent, DecryptInit(u, i)
  PROVE  Pair'
<1> DEFINE h == sent[i]
           f == FreshKey(u, 0)
           st == InitReceiver(X3dh(h.ek, Spk(u)), Spk(u))
           new == AfterDecrypt(st, h, f)
<1>0. Types
  BY DEF Base
<1>1. h.ek # NoKey /\ CanDecrypt(st, h, f) /\ ReadWith(u, i, st)
      /\ h.from # u /\ i \notin opened[u]
  BY DEF DecryptInit, CanBeRead
<1>2. Shape(st) /\ Len(st.rk) = 1 /\ Turns(st, h) /\ st.rk \in Chains /\ st.rk # NoChain
      /\ st.dhs \in Keys
  BY Enters DEF Shape, Sessions
<1> HIDE DEF st
<1>3. /\ h.chain \in Chains /\ h.chain # NoChain /\ h.n \in Nat /\ h.n < MaxMessages
      /\ h.from \in Users /\ h.dh \in Keys /\ h \in Messages
  BY MessageFacts
<1>4. /\ f \in Keys
      /\ Shape(new) /\ session'[u] = new /\ \A v \in Users : v # u => session'[v] = session[v]
      /\ sent' = sent /\ opened'[u] = opened[u] \cup {i}
      /\ \A v \in Users : v # u => opened'[v] = opened[v]
  BY <1>1, <1>2, <1>3, ReadFacts
<1>5. /\ Root(new.rk) = Root(st.rk)
      /\ h.chain = Append(st.rk, {st.dhs, h.dh}) /\ new.rk = Append(h.chain, {f, h.dh})
      /\ ~Holds(new, h.chain, h.n) /\ Len(h.chain) < Len(new.rk)
  BY <1>1, <1>2, <1>3, <1>4, Opens
<1>6. Root(h.chain) = Root(st.rk)
  BY <1>1, <1>2, <1>3, OpeningKey
<1>7. Len(h.chain) = 2 /\ Begins(h.chain, new.rk) /\ Len(new.rk) = 3 /\ new.rk \in Chains
  <2> DEFINE x == {st.dhs, h.dh}  y == {f, h.dh}
  <2>1. x \in SUBSET Keys /\ y \in SUBSET Keys
    BY <1>2, <1>3, <1>4
  <2>2. h.chain = Append(st.rk, x) /\ new.rk = Append(h.chain, y)
    BY <1>5
  <2> HIDE DEF x, y, new, h
  <2>3. Len(h.chain) = 1 + 1
    <3>1. Len(Append(st.rk, x)) = Len(st.rk) + 1
      BY <2>1, <1>2, AppendFacts
    <3> QED BY <3>1, <2>2, <1>2
  <2>4. Len(new.rk) = Len(h.chain) + 1 /\ Begins(h.chain, new.rk) /\ new.rk \in Chains
    BY <2>1, <2>2, <1>3, AppendFacts
  <2> QED BY <2>3, <2>4
<1> HIDE DEF h, f, new
<1>8. h = sent[i]
  BY DEF h
<1>9. \A v \in Users : opened[v] \subseteq DOMAIN sent
  BY DEF Base, Counted
<1>10. \A v \in Users : v # u => (InSession(v)' <=> InSession(v))
  BY <1>4 DEF InSession
<1>11. /\ InSession(u) => Root(session[u].rk) # Root(h.chain)
       /\ \A j \in opened[u] : Root(sent[j].chain) # Root(h.chain)
       /\ \A j \in DOMAIN sent : sent[j].from = u => Root(sent[j].chain) # Root(h.chain)
       /\ \A w \in Users : h.from = w /\ InSession(w) /\ Root(session[w].rk) = Root(h.chain)
            => Len(session[w].rk) = 2
  BY <1>1, <1>3, <1>8 DEF Pair, NotEntered
<1>12. OpenedIsGone'
  <2>1. ASSUME NEW v \in Users, InSession(v)', NEW j \in opened'[v],
               Root(sent[j].chain) = Root(session'[v].rk)
        PROVE  Len(sent[j].chain) <= Len(session'[v].rk) /\ ~Holds(session'[v], sent[j].chain, sent[j].n)
    <3>1. CASE v # u
      <4>1. InSession(v) /\ j \in opened[v] /\ session'[v] = session[v]
        BY <3>1, <2>1, <1>4, <1>10
      <4> QED BY <4>1, <2>1 DEF Pair, OpenedIsGone
    <3>2. CASE v = u
      <4>1. j = i
        BY <3>2, <2>1, <1>4, <1>5, <1>6, <1>11
      <4>2. sent[j] = h /\ session'[v] = new
        BY <3>2, <4>1, <1>4, <1>8
      <4>3. Len(h.chain) <= Len(new.rk)
        BY <1>7
      <4>4. ~Holds(new, h.chain, h.n)
        BY <1>5
      <4> QED BY <4>2, <4>3, <4>4
    <3> QED BY <3>1, <3>2
  <2> QED BY <2>1, <1>4 DEF OpenedIsGone
<1>13. OneInit'
  BY <1>4 DEF Pair, OneInit
<1>14. NotEntered'
  <2>1. ASSUME NEW k \in DOMAIN sent, NEW v \in Users, NEW w \in Users,
               sent[k].ek # NoKey, sent[k].from = w, w # v, k \notin opened'[v]
        PROVE  /\ InSession(v)' => Root(session'[v].rk) # Root(sent[k].chain)
               /\ \A j \in opened'[v] : Root(sent[j].chain) # Root(sent[k].chain)
               /\ \A j \in DOMAIN sent : sent[j].from = v => Root(sent[j].chain) # Root(sent[k].chain)
               /\ InSession(w)' /\ Root(session'[w].rk) = Root(sent[k].chain)
                    => Len(session'[w].rk) = 2
    <3>1. k \notin opened[v]
      BY <2>1, <1>4
    <3>2. /\ InSession(v) => Root(session[v].rk) # Root(sent[k].chain)
          /\ \A j \in opened[v] : Root(sent[j].chain) # Root(sent[k].chain)
          /\ \A j \in DOMAIN sent : sent[j].from = v => Root(sent[j].chain) # Root(sent[k].chain)
          /\ InSession(w) /\ Root(session[w].rk) = Root(sent[k].chain) => Len(session[w].rk) = 2
      BY <2>1, <3>1 DEF Pair, NotEntered
    <3>3. CASE v = u
      <4>1. w # u /\ k # i
        BY <3>3, <2>1, <1>4
      <4>2. Root(h.chain) # Root(sent[k].chain)
        BY <4>1, <2>1, <1>1, <1>8 DEF Pair, OneInit
      <4> QED BY <3>2, <3>3, <4>1, <4>2, <1>4, <1>5, <1>6, <1>8, <1>10
    <3>4. CASE v # u
      <4>1. w = u
        BY <3>4, <2>1, PeerFacts
      <4>2. Root(h.chain) # Root(sent[k].chain)
        BY <4>1, <2>1, <1>11
      <4> QED BY <3>2, <3>4, <4>1, <4>2, <1>4, <1>5, <1>6, <1>10
    <3> QED BY <3>3, <3>4
  <2> QED BY <2>1, <1>4 DEF NotEntered
<1>15. SentOnTheWay'
  <2>1. ASSUME NEW k \in DOMAIN sent, NEW w \in Users, sent[k].from = w, InSession(w)',
               Root(session'[w].rk) = Root(sent[k].chain)
        PROVE  Begins(sent[k].chain, session'[w].rk)
    <3>1. w # u
      BY <2>1, <1>4, <1>5, <1>6, <1>11
    <3> QED BY <3>1, <2>1, <1>4, <1>10 DEF Pair, SentOnTheWay
  <2> QED BY <2>1, <1>4 DEF SentOnTheWay
<1>16. OneAhead'
  <2>1. ASSUME NEW v \in Users, v # u, InSession(v), Root(session[v].rk) = Root(new.rk)
        PROVE  /\ Len(new.rk) = Len(session[v].rk) + 1 /\ Begins(session[v].rk, new.rk)
               /\ ~(Len(session[v].rk) >= Len(new.rk))
    <3>1. session[v].rk \in Chains /\ h.from = v
      BY <2>1, <1>1, <1>3, SessionFacts, PeerFacts
    <3>2. Len(session[v].rk) = 2
      BY <3>1, <2>1, <1>5, <1>6, <1>11
    <3>3. Begins(h.chain, session[v].rk)
      BY <3>1, <2>1, <1>5, <1>6, <1>8 DEF Pair, SentOnTheWay
    <3>4. session[v].rk = h.chain
      BY <3>1, <3>2, <3>3, <1>3, <1>7, BeginsFacts
    <3> QED BY <3>2, <3>4, <1>7
  <2> QED BY <2>1, <1>4, <1>10 DEF Pair, OneAhead
<1> QED BY <1>12, <1>13, <1>14, <1>15, <1>16 DEF Pair

LEMMA PairStarts == Init => Pair
<1> SUFFICES ASSUME Init PROVE Pair
  OBVIOUS
<1>1. (\A u \in Users : ~InSession(u)) /\ DOMAIN sent = {}
  BY DEF Init, InSession
<1> QED BY <1>1 DEF Pair, OpenedIsGone, OneInit, NotEntered, SentOnTheWay, OneAhead

LEMMA PairKept == ~Rereads /\ Base /\ Base' /\ Pair /\ [Next]_vars => Pair'
<1> SUFFICES ASSUME ~Rereads, Base, Base', Pair, [Next]_vars PROVE Pair'
  OBVIOUS
<1>1. CASE UNCHANGED vars
  BY <1>1 DEF vars, Pair, OpenedIsGone, OneInit, NotEntered, SentOnTheWay, OneAhead, InSession
<1>2. CASE Next
  <2>1. PICK u \in Users :
          \/ \E saved \in BOOLEAN : EncryptFirst(u, saved) \/ Encrypt(u, saved)
          \/ \E i \in DOMAIN sent : Decrypt(u, i) \/ DecryptInit(u, i)
          \/ ResetSession(u)
    BY <1>2 DEF Next
  <2>2. CASE \E saved \in BOOLEAN : EncryptFirst(u, saved) \/ Encrypt(u, saved)
    BY <2>2, EncryptFirstPair, EncryptPair
  <2>3. CASE \E i \in DOMAIN sent : Decrypt(u, i) \/ DecryptInit(u, i)
    BY <2>3, DecryptPair, DecryptInitPair
  <2>4. CASE ResetSession(u)
    BY <2>4, ResetPair
  <2> QED BY <2>1, <2>2, <2>3, <2>4
<1> QED BY <1>1, <1>2

LEMMA PairGivesDmInv == Base /\ Pair => DmInv
<1> SUFFICES ASSUME Base, Pair PROVE DmInv
  OBVIOUS
<1>1. TypeOK /\ UniqueMessageKeys
  BY BaseGivesTypeOK DEF Base
<1>2. KeyGoneAfterUse
  <2> SUFFICES ASSUME NEW u \in Users, InSession(u), NEW i \in opened[u],
                      CanDecrypt(session[u], sent[i], FreshKey(u, 0))
               PROVE  FALSE
    BY DEF KeyGoneAfterUse, SessionDecrypts, InSession
  <2>1. i \in DOMAIN sent
    BY DEF Base, Counted
  <2>2. /\ Shape(session[u]) /\ sent[i] \in Messages /\ sent[i].chain # NoChain
        /\ session[u].rk \in Chains /\ session[u].dhs \in Keys /\ sent[i].dh \in Keys
    BY <2>1, SessionFacts, MessageFacts DEF Sessions
  <2>3. /\ Root(sent[i].chain) = Root(session[u].rk)
        /\ Turns(session[u], sent[i]) =>
             sent[i].chain = Append(session[u].rk, {session[u].dhs, sent[i].dh})
        /\ ~Turns(session[u], sent[i]) => Holds(session[u], sent[i].chain, sent[i].n)
    BY <2>2, OpeningKey
  <2>4. Len(sent[i].chain) <= Len(session[u].rk) /\ ~Holds(session[u], sent[i].chain, sent[i].n)
    BY <2>3 DEF Pair, OpenedIsGone
  <2>5. Len(Append(session[u].rk, {session[u].dhs, sent[i].dh})) = Len(session[u].rk) + 1
        /\ Len(session[u].rk) \in Nat
    <3>1. {session[u].dhs, sent[i].dh} \in SUBSET Keys
      BY <2>2
    <3> QED BY <3>1, <2>2, AppendFacts, ChainFacts
  <2> QED BY <2>3, <2>4, <2>5
<1>3. RootKeysAgree
  <2> SUFFICES ASSUME NEW u \in Users, NEW v \in Users, u # v, InSession(u), InSession(v),
                      Root(session[u].rk) = Root(session[v].rk),
                      Len(session[u].rk) >= Len(session[v].rk)
               PROVE  session[v].rk = SubSeq(session[u].rk, 1, Len(session[u].rk) - 1)
    BY DEF RootKeysAgree, InSession
  <2> DEFINE c == session[v].rk  d == session[u].rk
  <2>1. c \in Chains /\ d \in Chains
    BY SessionFacts
  <2>2. Len(d) = Len(c) + 1 /\ Begins(c, d)
    BY DEF Pair, OneAhead
  <2> HIDE DEF c, d
  <2>3. c \in Seq(SUBSET Keys) /\ d \in Seq(SUBSET Keys) /\ Len(c) \in Nat
    BY <2>1 DEF Chains
  <2>4. Len(d) - 1 = Len(c) /\ SubSeq(d, 1, Len(c)) \in Seq(SUBSET Keys)
        /\ Len(SubSeq(d, 1, Len(c))) = Len(c)
        /\ \A k \in 1 .. Len(c) : SubSeq(d, 1, Len(c))[k] = d[k]
    BY <2>2, <2>3
  <2>5. c = SubSeq(d, 1, Len(c))
    BY <2>2, <2>3, <2>4 DEF Begins
  <2> QED BY <2>4, <2>5 DEF c, d
<1> QED BY <1>1, <1>2, <1>3 DEF DmInv

\* As long as no message is read a second time: no key seals two messages, a
\* message that was opened cannot be opened again with what is stored, and the
\* root keys of the two sides are one step apart (encrypt, decrypt, dh_ratchet,
\* x3dhReceive; drDecrypt is called once per message but for the
\* rereads that the constant Rereads allows).
THEOREM DmSafe == ~Rereads /\ Spec => []DmInv
<1>1. Init => Base /\ Pair
  BY BaseStarts, PairStarts
<1>2. ~Rereads /\ Base /\ Pair /\ [Next]_vars => (Base /\ Pair)'
  BY BaseKept, PairKept
<1>3. Base /\ Pair => DmInv
  BY PairGivesDmInv
<1>4. ~Rereads => (~Rereads)'
  OBVIOUS
<1> QED BY <1>1, <1>2, <1>3, <1>4, PTL DEF Spec

-----------------------------------------------------------------------------
(* Fan-out to devices.                                                     *)

\* The messages under way to the server and those stored.
Written == sends \cup stored

\* A number is given once, and an envelope is in one message.
OneNumber ==
  /\ \A s, p \in sends : s.m = p.m => s = p
  /\ \A q, r \in stored : q.m = r.m => q = r
  /\ \A s \in sends, r \in stored : s.m # r.m
  /\ \A x \in Written : x.m <= begun
SealedApart ==
  /\ \A x, y \in Written : \A e \in x.sealed : e \in y.sealed => x = y
  /\ \A x \in Written : \A e \in x.sealed : e.no <= outgoing[e.to]

\* While the lists are asked for nothing is sealed, and a device is sealed for once.
SealsInTurn ==
  \A s \in sends : /\ s.ask # {} => s.sealed = {}
                   /\ \A e \in s.sealed : e.to \notin s.left

\* A device known when the message was begun is on the way to its envelope.
Reaches(x, d) == (\E e \in x.sealed : e.to = d) \/ <<x.m, d>> \in excused
KnownReached ==
  \A s \in sends :
    /\ s.known \subseteq registered
    /\ \A d \in s.known : (\E of \in s.ask : d \in of) \/ d \in s.left \/ Reaches(s, d)

\* Every session has room for the messages that may still be sealed in it.
Unsealed(d) == {m \in Texts : \E s \in sends : s.m = m /\ \A e \in s.sealed : e.to # d}
RoomToSeal == \A d \in Targets : outgoing[d] + Cardinality(Unsealed(d)) <= begun

\* A key is used up by the message it sealed, whose text is kept.
Keeps == [m : Texts, at : Targets, as : {"text", "cipher"}]
Kept(m, d) ==
  \/ text[d][m] # "none" \/ <<m, d>> \in unsaved
  \/ [m |-> m, at |-> d, as |-> "text"] \in keeping
UsedIsKept ==
  \A d \in Targets : \A n \in incoming[d].used :
    \E r \in stored : \E e \in r.rows : e.to = d /\ e.no = n /\ Kept(r.m, d)

SenderInv == OneNumber /\ SealedApart /\ SealsInTurn /\ KnownReached /\ RoomToSeal /\ NoneForgotten
FanIndInv == FanTypeOK /\ SenderInv /\ UsedIsKept

LEMMA SendIs ==
  ASSUME FanTypeOK, NEW s \in sends
  PROVE  /\ s \in Sends /\ s.m \in Texts /\ s.m \in Nat /\ s.ask \subseteq {Theirs, Mine}
         /\ s.left \subseteq Targets /\ s.sealed \subseteq Envelopes /\ s.known \subseteq Targets
BY DEF FanTypeOK, Sends, Texts

LEMMA StoredIs ==
  ASSUME FanTypeOK, NEW r \in stored
  PROVE  /\ r \in StoredRows /\ r.m \in Texts /\ r.m \in Nat /\ r.rows \in {{}, r.sealed}
         /\ r.sealed \subseteq Envelopes /\ r.rows \subseteq Envelopes
BY DEF FanTypeOK, StoredRows, Texts

LEMMA EnvelopeIs ==
  ASSUME NEW e \in Envelopes
  PROVE  e.to \in Targets /\ e.no \in Texts /\ e.no \in Nat /\ e = [to |-> e.to, no |-> e.no]
BY DEF Envelopes, Texts

LEMMA CountsAre ==
  ASSUME FanTypeOK
  PROVE  begun \in Nat /\ MaxTexts \in Nat /\ \A d \in Targets : outgoing[d] \in Nat
BY FanoutConstants DEF FanTypeOK

LEMMA UnsealedFinite ==
  ASSUME NEW d, NEW T, T \subseteq Unsealed(d)
  PROVE  /\ IsFiniteSet(T) /\ IsFiniteSet(Unsealed(d))
         /\ Cardinality(T) \in Nat /\ Cardinality(Unsealed(d)) \in Nat
         /\ Cardinality(T) <= Cardinality(Unsealed(d))
<1>1. IsFiniteSet(Texts)
  BY FS_Interval, FanoutConstants DEF Texts
<1>2. Unsealed(d) \subseteq Texts
  BY DEF Unsealed
<1>3. IsFiniteSet(Unsealed(d))
  BY <1>1, <1>2, FS_Subset
<1>4. IsFiniteSet(T) /\ Cardinality(T) <= Cardinality(Unsealed(d))
  BY <1>3, FS_Subset
<1> QED
  BY <1>3, <1>4, FS_CardinalityType

\* A step that goes on with one of the messages under way, or drops some.
GoesOn ==
  /\ \A s \in sends' : \E q \in sends : s.m = q.m /\ s.sealed = q.sealed /\ s.known = q.known
  /\ \A s, p \in sends' : s.m = p.m => s = p
  /\ UNCHANGED <<stored, outgoing, begun>> /\ registered \subseteq registered'
  /\ excused \subseteq excused'

LEMMA GoesOnKeeps ==
  ASSUME FanTypeOK, FanTypeOK', SenderInv, GoesOn
  PROVE  OneNumber' /\ SealedApart' /\ RoomToSeal' /\ NoneForgotten'
<1> USE DEF SenderInv
<1>1. ASSUME NEW x \in Written'
      PROVE  \E q \in Written : x.m = q.m /\ x.sealed = q.sealed
  BY DEF GoesOn, Written
<1>2. ASSUME NEW s \in sends', NEW r \in stored' PROVE s.m # r.m
  BY DEF OneNumber, GoesOn
<1>3. OneNumber'
  <2>1. \A x \in Written' : x.m <= begun'
    BY <1>1 DEF OneNumber, GoesOn
  <2>2. \A q, r \in stored' : q.m = r.m => q = r
    BY DEF OneNumber, GoesOn
  <2>3. \A s, p \in sends' : s.m = p.m => s = p
    BY DEF GoesOn
  <2> QED
    BY <1>2, <2>1, <2>2, <2>3 DEF OneNumber
<1>4. SealedApart'
  <2>1. ASSUME NEW x \in Written', NEW y \in Written', NEW e \in x.sealed, e \in y.sealed
        PROVE  x = y
    <3>1. PICK q \in Written : x.m = q.m /\ x.sealed = q.sealed
      BY <1>1
    <3>2. PICK r \in Written : y.m = r.m /\ y.sealed = r.sealed
      BY <1>1
    <3>3. x.m = y.m
      BY <2>1, <3>1, <3>2 DEF SealedApart
    <3> QED
      BY <1>3, <3>3 DEF OneNumber, Written
  <2>2. \A x \in Written' : \A e \in x.sealed : e.no <= outgoing'[e.to]
    BY <1>1 DEF SealedApart, GoesOn
  <2> QED
    BY <2>1, <2>2 DEF SealedApart
<1>5. RoomToSeal'
  <2>1. ASSUME NEW d \in Targets PROVE outgoing'[d] + Cardinality(Unsealed(d)') <= begun'
    <3>1. Unsealed(d)' \subseteq Unsealed(d)
      BY DEF Unsealed, GoesOn
    <3>2. PICK T : T = Unsealed(d)'
      OBVIOUS
    <3>3. Cardinality(T) <= Cardinality(Unsealed(d)) /\ Cardinality(T) \in Nat
          /\ Cardinality(Unsealed(d)) \in Nat
      BY <3>1, <3>2, UnsealedFinite
    <3>4. outgoing[d] + Cardinality(Unsealed(d)) <= begun
      BY DEF RoomToSeal
    <3> QED
      BY <3>2, <3>3, <3>4, CountsAre DEF GoesOn
  <2> QED
    BY <2>1 DEF RoomToSeal
<1>6. NoneForgotten'
  BY DEF NoneForgotten, GoesOn
<1> QED
  BY <1>3, <1>4, <1>5, <1>6

LEMMA ReadersWait ==
  ASSUME UsedIsKept, UNCHANGED <<incoming, text, keeping, unsaved>>,
         \A r \in stored : \A e \in r.rows : \E q \in stored' : q.m = r.m /\ e \in q.rows
  PROVE  UsedIsKept'
<1>1. ASSUME NEW d \in Targets, NEW n \in incoming'[d].used
      PROVE  \E r \in stored' : \E e \in r.rows : e.to = d /\ e.no = n /\ Kept(r.m, d)'
  <2>1. PICK r \in stored : \E e \in r.rows : e.to = d /\ e.no = n /\ Kept(r.m, d)
    BY <1>1 DEF UsedIsKept
  <2>2. PICK e \in r.rows : e.to = d /\ e.no = n
    BY <2>1
  <2>3. PICK q \in stored' : q.m = r.m /\ e \in q.rows
    OBVIOUS
  <2>4. Kept(q.m, d)'
    BY <2>1, <2>3 DEF Kept
  <2> QED
    BY <2>2, <2>3, <2>4
<1> QED
  BY <1>1 DEF UsedIsKept

LEMMA Swapped ==
  ASSUME SenderInv, NEW s \in sends, NEW s2,
         s2.m = s.m, s2.sealed = s.sealed, s2.known = s.known,
         sends' = (sends \ {s}) \cup {s2}, UNCHANGED <<stored, outgoing, begun>>,
         registered \subseteq registered', excused \subseteq excused'
  PROVE  GoesOn
<1>1. \A p \in sends' : \E q \in sends : p.m = q.m /\ p.sealed = q.sealed /\ p.known = q.known
  OBVIOUS
<1>2. \A p, q \in sends' : p.m = q.m => p = q
  BY DEF SenderInv, OneNumber
<1> QED
  BY <1>1, <1>2 DEF GoesOn

\* The lists, the bundles, and devices left out.
LEMMA PreparingKeeps ==
  ASSUME FanIndInv, NEW s \in sends,
         \/ \E of \in {Theirs, Mine} : ListDevices(s, of) \/ ListFails(s, of)
         \/ \E d \in Targets : FetchDeviceBundle(s, d) \/ LeaveOut(s, d)
  PROVE  FanIndInv'
<1> USE DEF FanIndInv
<1>0. s \in Sends
  BY SendIs
<1>1. UNCHANGED <<registered, outgoing, begun, stored, heard, incoming, text, keeping, loads, unsaved>>
  BY DEF ListDevices, ListFails, FetchDeviceBundle, LeaveOut, readers
<1>2. CASE \E d \in Targets : FetchDeviceBundle(s, d)
  <2>1. PICK d \in Targets : FetchDeviceBundle(s, d)
    BY <1>2
  <2>2. UNCHANGED <<sends, excused>>
    BY <2>1 DEF FetchDeviceBundle
  <2>3. bundles' \in [Targets -> {"none", "some", "null"}] /\ failures' \in 0 .. MaxFailures
    <3>1. \E b \in {"some", "null"} : bundles' = [bundles EXCEPT ![d] = b]
      BY <2>1 DEF FetchDeviceBundle
    <3>2. UNCHANGED failures \/ Fail
      BY <2>1 DEF FetchDeviceBundle
    <3>3. failures' \in 0 .. MaxFailures
      BY <3>2, FanoutConstants DEF FanTypeOK, Fail
    <3> QED
      BY <3>1, <3>3 DEF FanTypeOK
  <2>4. FanTypeOK'
    BY <1>1, <2>2, <2>3 DEF FanTypeOK
  <2>5. SenderInv'
    BY <1>1, <2>2 DEF SenderInv, OneNumber, SealedApart, SealsInTurn, KnownReached, RoomToSeal,
                      NoneForgotten, Written, Reaches, Unsealed
  <2>6. UsedIsKept'
    BY <1>1, ReadersWait
  <2> QED
    BY <2>4, <2>5, <2>6
<1>3. ASSUME NEW s2 \in Sends, s2.m = s.m, s2.sealed = s.sealed, s2.known = s.known,
             sends' = (sends \ {s}) \cup {s2}, UNCHANGED bundles, failures' \in 0 .. MaxFailures,
             excused \subseteq excused', excused' \subseteq Texts \X Targets,
             s2.ask # {} => s2.sealed = {}, \A e \in s2.sealed : e.to \notin s2.left,
             \A d \in s.known : (\E of \in s2.ask : d \in of) \/ d \in s2.left \/ Reaches(s2, d)'
      PROVE  FanIndInv'
  <2>1. FanTypeOK'
    <3>1. sends' \subseteq Sends
      BY <1>3 DEF FanTypeOK
    <3> QED
      BY <1>1, <1>3, <3>1 DEF FanTypeOK
  <2>2. GoesOn
    BY <1>1, <1>3, Swapped
  <2>3. OneNumber' /\ SealedApart' /\ RoomToSeal' /\ NoneForgotten'
    BY <2>1, <2>2, GoesOnKeeps
  <2>4. SealsInTurn'
    BY <1>3 DEF SenderInv, SealsInTurn
  <2>5. KnownReached'
    <3>1. ASSUME NEW p \in sends \ {s}, NEW d \in p.known
          PROVE  (\E of \in p.ask : d \in of) \/ d \in p.left \/ Reaches(p, d)'
      BY <1>3, <3>1 DEF SenderInv, KnownReached, Reaches
    <3>2. \A p \in sends : p.known \subseteq registered
      BY DEF SenderInv, KnownReached
    <3> QED
      BY <1>1, <1>3, <3>1, <3>2 DEF KnownReached, Reaches
  <2>6. UsedIsKept'
    BY <1>1, ReadersWait
  <2> QED
    BY <2>1, <2>3, <2>4, <2>5, <2>6 DEF SenderInv
<1>4. \A d \in s.known : (\E of \in s.ask : d \in of) \/ d \in s.left \/ Reaches(s, d)
  BY DEF SenderInv, KnownReached
<1>5. (s.ask # {} => s.sealed = {}) /\ (\A e \in s.sealed : e.to \notin s.left) /\ s.known \subseteq registered
  BY DEF SenderInv, SealsInTurn, KnownReached
<1>6. failures \in 0 .. MaxFailures /\ (Fail => failures' \in 0 .. MaxFailures)
      /\ excused \subseteq Texts \X Targets
  BY FanoutConstants DEF FanTypeOK, Fail
<1>7. ASSUME NEW of \in {Theirs, Mine}, ListDevices(s, of) PROVE FanIndInv'
  <2>1. PICK s2 : s2 = [s EXCEPT !.ask = s.ask \ {of}, !.left = s.left \cup (of \cap registered)]
    OBVIOUS
  <2>2. of \in s.ask /\ s.sealed = {}
    BY <1>5, <1>7 DEF ListDevices
  <2>3. /\ s2 \in Sends /\ s2.m = s.m /\ s2.sealed = s.sealed /\ s2.known = s.known
        /\ s2.ask = s.ask \ {of} /\ s2.left = s.left \cup (of \cap registered)
    <3>1. of \cap registered \subseteq Targets
      BY DEF Targets
    <3> QED
      BY <1>0, <2>1, <3>1 DEF Sends
  <2>4. UNCHANGED <<excused, failures, bundles>> /\ sends' = (sends \ {s}) \cup {s2}
    BY <1>7, <2>1 DEF ListDevices
  <2>5. \A d \in s.known : (\E o \in s2.ask : d \in o) \/ d \in s2.left \/ Reaches(s2, d)'
    BY <1>4, <1>5, <2>3, <2>4 DEF Reaches
  <2> QED
    BY <1>3, <1>6, <2>2, <2>3, <2>4, <2>5
<1>8. ASSUME NEW of \in {Theirs, Mine}, ListFails(s, of) PROVE FanIndInv'
  <2>1. PICK s2 : s2 = [s EXCEPT !.ask = s.ask \ {of}]
    OBVIOUS
  <2>2. of \in s.ask /\ s.sealed = {} /\ Fail
    BY <1>5, <1>8 DEF ListFails
  <2>3. /\ s2 \in Sends /\ s2.m = s.m /\ s2.sealed = s.sealed /\ s2.known = s.known
        /\ s2.ask = s.ask \ {of} /\ s2.left = s.left
    BY <1>0, <2>1 DEF Sends
  <2>4. UNCHANGED bundles /\ sends' = (sends \ {s}) \cup {s2} /\ excused' = excused \cup ({s.m} \X of)
    BY <1>8, <2>1 DEF ListFails
  <2>5. excused' \subseteq Texts \X Targets /\ excused \subseteq excused'
    BY <1>6, <2>4, SendIs DEF Targets
  <2>6. \A d \in s.known : (\E o \in s2.ask : d \in o) \/ d \in s2.left \/ Reaches(s2, d)'
    BY <1>4, <2>3, <2>4 DEF Reaches
  <2> QED
    BY <1>3, <1>6, <2>2, <2>3, <2>4, <2>5, <2>6
<1>9. ASSUME NEW d \in Targets, LeaveOut(s, d) PROVE FanIndInv'
  <2>1. PICK s2 : s2 = [s EXCEPT !.left = s.left \ {d}]
    OBVIOUS
  <2>2. s.ask = {}
    BY <1>9 DEF LeaveOut
  <2>3. /\ s2 \in Sends /\ s2.m = s.m /\ s2.sealed = s.sealed /\ s2.known = s.known
        /\ s2.ask = s.ask /\ s2.left = s.left \ {d}
    BY <1>0, <2>1 DEF Sends
  <2>4. /\ UNCHANGED <<bundles, failures>> /\ sends' = (sends \ {s}) \cup {s2}
        /\ excused' = excused \cup {<<s.m, d>>}
    BY <1>9, <2>1 DEF LeaveOut
  <2>5. excused' \subseteq Texts \X Targets /\ excused \subseteq excused'
    BY <1>6, <2>4, SendIs
  <2>6. \A c \in s.known : (\E o \in s2.ask : c \in o) \/ c \in s2.left \/ Reaches(s2, c)'
    BY <1>4, <2>3, <2>4 DEF Reaches
  <2> QED
    BY <1>3, <1>5, <1>6, <2>2, <2>3, <2>4, <2>5, <2>6
<1> QED
  BY <1>2, <1>7, <1>8, <1>9

\* A device that signs in.
LEMMA RegisterDeviceKeeps ==
  ASSUME FanIndInv, NEW d \in Targets, Register(d)
  PROVE  FanIndInv'
<1> USE DEF FanIndInv
<1>1. /\ UNCHANGED <<outgoing, bundles, sends, begun, excused, stored, heard, incoming, text, keeping, loads, unsaved, failures>>
      /\ registered' = registered \cup {d}
  BY DEF Register, senderPage, readers
<1>2. FanTypeOK'
  BY <1>1 DEF FanTypeOK
<1>3. SenderInv'
  BY <1>1 DEF SenderInv, OneNumber, SealedApart, SealsInTurn, KnownReached, RoomToSeal,
              NoneForgotten, Written, Reaches, Unsealed
<1>4. UsedIsKept'
  BY <1>1, ReadersWait
<1> QED
  BY <1>2, <1>3, <1>4

\* The messages of the page are dropped, all or one.
LEMMA DroppedKeeps ==
  ASSUME FanIndInv, PageDies \/ \E s \in sends : FallBack(s) \/ Refused3(s)
  PROVE  FanIndInv'
<1> USE DEF FanIndInv
<1>1. /\ UNCHANGED <<registered, outgoing, begun, excused, stored, heard, incoming, text, keeping, loads, unsaved>>
      /\ sends' \subseteq sends
  BY DEF PageDies, FallBack, Refused3, readers
<1>2. bundles' \in [Targets -> {"none", "some", "null"}] /\ failures' \in 0 .. MaxFailures
  BY FanoutConstants DEF PageDies, FallBack, Refused3, FanTypeOK, Fail
<1>3. FanTypeOK'
  BY <1>1, <1>2 DEF FanTypeOK
<1>4. GoesOn
  BY <1>1 DEF GoesOn, SenderInv, OneNumber
<1>5. OneNumber' /\ SealedApart' /\ RoomToSeal' /\ NoneForgotten'
  BY <1>3, <1>4, GoesOnKeeps
<1>6. SealsInTurn' /\ KnownReached'
  BY <1>1 DEF SenderInv, SealsInTurn, KnownReached, Reaches
<1>7. UsedIsKept'
  BY <1>1, ReadersWait
<1> QED
  BY <1>3, <1>5, <1>6, <1>7 DEF SenderInv

LEMMA EncryptV3Keeps ==
  ASSUME FanIndInv, EncryptV3
  PROVE  FanIndInv'
<1> USE DEF FanIndInv
<1>1. PICK s : s = [m |-> begun + 1, ask |-> {Theirs, Mine}, left |-> {}, sealed |-> {}, known |-> registered]
  OBVIOUS
<1>2. /\ UNCHANGED <<registered, outgoing, bundles, excused, stored, heard, incoming, text, keeping, loads, unsaved, failures>>
      /\ begun < MaxTexts /\ begun' = begun + 1 /\ sends' = sends \cup {s}
  BY <1>1 DEF EncryptV3, readers
<1>3. /\ s.m = begun + 1 /\ s.sealed = {} /\ s.left = {} /\ s.known = registered
      /\ s.ask = {Theirs, Mine}
  BY <1>1
<1>4. begun + 1 \in Texts /\ begun \in Nat
  BY <1>2, CountsAre DEF Texts
<1>5. s \in Sends
  BY <1>1, <1>4 DEF Sends, FanTypeOK
<1>6. FanTypeOK'
  <2>1. begun' \in 0 .. MaxTexts /\ sends' \subseteq Sends
    BY <1>2, <1>4, <1>5, CountsAre DEF FanTypeOK
  <2> QED
    BY <1>2, <2>1 DEF FanTypeOK
<1>7. \A x \in Written : x.m < s.m /\ x.m <= begun'
  <2>1. \A x \in Written : x.m \in Nat /\ x.m <= begun
    BY SendIs, StoredIs DEF SenderInv, OneNumber, Written
  <2> QED
    BY <1>2, <1>3, <1>4, <2>1
<1>8. OneNumber'
  <2>1. \A x \in Written : x.m # s.m
    BY <1>4, <1>3, <1>7, SendIs, StoredIs DEF Written
  <2>2. s.m <= begun'
    BY <1>2, <1>3, <1>4
  <2> QED
    BY <1>2, <1>7, <2>1, <2>2 DEF SenderInv, OneNumber, Written
<1>9. SealedApart' /\ SealsInTurn'
  BY <1>2, <1>3 DEF SenderInv, SealedApart, SealsInTurn, Written
<1>10. KnownReached'
  BY <1>2, <1>3 DEF SenderInv, KnownReached, Reaches, FanTypeOK, Targets
<1>11. RoomToSeal'
  <2>1. ASSUME NEW d \in Targets PROVE outgoing'[d] + Cardinality(Unsealed(d)') <= begun'
    <3>1. Unsealed(d)' = Unsealed(d) \cup {begun + 1}
      BY <1>2, <1>3, <1>4 DEF Unsealed
    <3>2. PICK U : U = Unsealed(d)
      OBVIOUS
    <3>3. IsFiniteSet(U) /\ Cardinality(U) \in Nat
      BY <3>2, UnsealedFinite
    <3>4. Cardinality(U \cup {begun + 1}) \in {Cardinality(U), Cardinality(U) + 1}
      BY <3>3, FS_AddElement
    <3>5. outgoing[d] + Cardinality(U) <= begun
      BY <3>2 DEF SenderInv, RoomToSeal
    <3> QED
      BY <1>2, <1>4, <3>1, <3>2, <3>3, <3>4, <3>5, CountsAre
  <2> QED
    BY <2>1 DEF RoomToSeal
<1>12. NoneForgotten'
  BY <1>2 DEF SenderInv, NoneForgotten
<1>13. UsedIsKept'
  BY <1>2, ReadersWait
<1> QED
  BY <1>6, <1>8, <1>9, <1>10, <1>11, <1>12, <1>13 DEF SenderInv

\* drDeviceEncrypt under its lock: the next number of a session is in no
\* envelope yet, and the message now has its envelope for the device.
LEMMA SealForKeeps ==
  ASSUME FanIndInv, NEW s \in sends, NEW d \in Targets, SealFor(s, d)
  PROVE  FanIndInv'
<1> USE DEF FanIndInv
<1>0. s \in Sends /\ s.m \in Texts
  BY SendIs
<1>1. PICK new : new = [to |-> d, no |-> outgoing[d] + 1]
  OBVIOUS
<1>2. PICK s2 : s2 = [s EXCEPT !.left = s.left \ {d}, !.sealed = s.sealed \cup {new}]
  OBVIOUS
<1>3. /\ UNCHANGED <<registered, bundles, begun, excused, stored, heard, incoming, text, keeping, loads, unsaved, failures>>
      /\ d \in s.left /\ s.ask = {} /\ outgoing' = [outgoing EXCEPT ![d] = outgoing[d] + 1]
      /\ sends' = (sends \ {s}) \cup {s2}
  BY <1>1, <1>2 DEF SealFor, readers
<1>4. /\ s2.m = s.m /\ s2.ask = {} /\ s2.known = s.known /\ s2.left = s.left \ {d}
      /\ s2.sealed = s.sealed \cup {new} /\ new.to = d /\ new.no = outgoing[d] + 1
  BY <1>0, <1>1, <1>2, <1>3 DEF Sends
<1>5. /\ outgoing[d] \in Nat /\ begun \in Nat /\ outgoing'[d] = outgoing[d] + 1
      /\ \A c \in Targets : c # d => outgoing'[c] = outgoing[c]
  BY <1>3, CountsAre DEF FanTypeOK
<1>6. \A e \in s.sealed : e.to # d
  BY <1>3 DEF SenderInv, SealsInTurn
<1>7. Unsealed(d)' = Unsealed(d) \ {s.m} /\ s.m \in Unsealed(d)
      /\ \A c \in Targets : c # d => Unsealed(c)' = Unsealed(c)
  <2>1. s.m \in Unsealed(d)
    BY <1>0, <1>6 DEF Unsealed
  <2>2. \A p \in sends \ {s} : p.m # s.m
    BY DEF SenderInv, OneNumber
  <2>3. Unsealed(d)' \subseteq Unsealed(d) \ {s.m}
    BY <1>3, <1>4, <2>2 DEF Unsealed
  <2>4. Unsealed(d) \ {s.m} \subseteq Unsealed(d)'
    BY <1>3 DEF Unsealed
  <2>5. ASSUME NEW c \in Targets, c # d PROVE Unsealed(c)' = Unsealed(c)
    <3>1. (\A e \in s2.sealed : e.to # c) <=> (\A e \in s.sealed : e.to # c)
      BY <1>4, <2>5
    <3>2. Unsealed(c)' \subseteq Unsealed(c)
      BY <1>3, <1>4, <3>1 DEF Unsealed
    <3>3. Unsealed(c) \subseteq Unsealed(c)'
      BY <1>3, <1>4, <3>1 DEF Unsealed
    <3> QED
      BY <3>2, <3>3
  <2> QED
    BY <2>1, <2>3, <2>4, <2>5
<1>8. RoomToSeal' /\ outgoing[d] + 1 <= begun
  <2>1. PICK U : U = Unsealed(d)
    OBVIOUS
  <2>2. IsFiniteSet(U) /\ Cardinality(U) \in Nat
    BY <2>1, UnsealedFinite
  <2>3. IsFiniteSet(U \ {s.m}) /\ Cardinality(U \ {s.m}) = Cardinality(U) - 1
    BY <1>7, <2>1, <2>2, FS_RemoveElement
  <2>4. Cardinality(U \ {s.m}) \in Nat
    BY <2>3, FS_CardinalityType
  <2>5. outgoing[d] + Cardinality(U) <= begun
    BY <2>1 DEF SenderInv, RoomToSeal
  <2>6. outgoing'[d] + Cardinality(Unsealed(d)') <= begun' /\ outgoing[d] + 1 <= begun
    BY <1>3, <1>5, <1>7, <2>1, <2>2, <2>3, <2>4, <2>5
  <2>7. \A c \in Targets : c # d => outgoing'[c] + Cardinality(Unsealed(c)') <= begun'
    BY <1>3, <1>5, <1>7 DEF SenderInv, RoomToSeal
  <2> QED
    BY <2>6, <2>7 DEF RoomToSeal
<1>9. outgoing[d] + 1 \in Texts /\ outgoing[d] + 1 \in 0 .. MaxTexts
  <2>1. begun <= MaxTexts /\ MaxTexts \in Nat
    BY FanoutConstants DEF FanTypeOK
  <2> QED
    BY <1>5, <1>8, <2>1 DEF Texts
<1>10. s2 \in Sends /\ new \in Envelopes
  <2>1. new \in Envelopes
    BY <1>1, <1>9 DEF Envelopes
  <2> QED
    BY <1>0, <1>2, <2>1 DEF Sends
<1>11. FanTypeOK'
  <2>1. outgoing' \in [Targets -> 0 .. MaxTexts]
    BY <1>3, <1>9 DEF FanTypeOK
  <2>2. sends' \subseteq Sends
    BY <1>3, <1>10 DEF FanTypeOK
  <2> QED
    BY <1>3, <2>1, <2>2 DEF FanTypeOK
<1>12. OneNumber'
  <2>1. \A x \in Written' : \E q \in Written : x.m = q.m
    BY <1>3, <1>4 DEF Written
  <2>2. \A x \in Written' : x.m <= begun'
    BY <1>3, <2>1 DEF SenderInv, OneNumber
  <2> QED
    BY <1>3, <1>4, <2>2 DEF SenderInv, OneNumber
<1>13. \A x \in Written : \A e \in x.sealed : e \in Envelopes /\ e # new /\ e.no <= outgoing'[e.to]
  <2>1. ASSUME NEW x \in Written, NEW e \in x.sealed
        PROVE  e \in Envelopes /\ e.to \in Targets /\ e.no \in Nat /\ e.no <= outgoing[e.to]
    <3>1. e \in Envelopes
      BY <2>1, SendIs, StoredIs DEF Written
    <3> QED
      BY <2>1, <3>1, EnvelopeIs DEF SenderInv, SealedApart
  <2>2. ASSUME NEW x \in Written, NEW e \in x.sealed PROVE e # new /\ e.no <= outgoing'[e.to]
    <3>1. CASE e.to = d
      BY <1>4, <1>5, <2>1, <2>2, <3>1
    <3>2. CASE e.to # d
      BY <1>4, <1>5, <2>1, <2>2, <3>2
    <3> QED
      BY <3>1, <3>2
  <2> QED
    BY <2>1, <2>2
<1>14. SealedApart'
  <2>1. new.no <= outgoing'[new.to]
    BY <1>4, <1>5
  <2>2. \A x \in Written' : \A e \in x.sealed : e.no <= outgoing'[e.to]
    BY <1>3, <1>4, <1>13, <2>1 DEF Written
  <2>3. ASSUME NEW x \in Written', NEW y \in Written', NEW e \in x.sealed, e \in y.sealed PROVE x = y
    <3>1. CASE e = new
      <4>1. \A z \in Written' : new \in z.sealed => z = s2
        BY <1>3, <1>13 DEF Written
      <4> QED
        BY <2>3, <3>1, <4>1
    <3>2. CASE e # new
      <4>1. PICK q \in Written : e \in q.sealed /\ (x = q \/ (q = s /\ x = s2))
        BY <1>3, <1>4, <2>3, <3>2 DEF Written
      <4>2. PICK r \in Written : e \in r.sealed /\ (y = r \/ (r = s /\ y = s2))
        BY <1>3, <1>4, <2>3, <3>2 DEF Written
      <4>3. q = r
        BY <4>1, <4>2 DEF SenderInv, SealedApart
      <4>4. x.m = y.m
        BY <1>4, <4>1, <4>2, <4>3
      <4> QED
        BY <1>12, <4>4 DEF OneNumber, Written
    <3> QED
      BY <3>1, <3>2
  <2> QED
    BY <2>2, <2>3 DEF SealedApart
<1>15. SealsInTurn'
  <2>1. \A e \in s2.sealed : e.to \notin s2.left
    BY <1>4 DEF SenderInv, SealsInTurn
  <2> QED
    BY <1>3, <1>4, <2>1 DEF SenderInv, SealsInTurn
<1>16. KnownReached'
  <2>1. \A c \in s.known : c \in s.left \/ Reaches(s, c)
    BY <1>3 DEF SenderInv, KnownReached
  <2>2. \A c \in s2.known : c \in s2.left \/ Reaches(s2, c)'
    BY <1>3, <1>4, <2>1 DEF Reaches
  <2>3. s2.known \subseteq registered'
    BY <1>3, <1>4 DEF SenderInv, KnownReached
  <2> QED
    BY <1>3, <2>2, <2>3 DEF SenderInv, KnownReached, Reaches
<1>17. NoneForgotten'
  BY <1>3 DEF SenderInv, NoneForgotten
<1>18. UsedIsKept'
  BY <1>3, ReadersWait
<1> QED
  BY <1>8, <1>11, <1>12, <1>14, <1>15, <1>16, <1>17, <1>18 DEF SenderInv

\* The message row is stored: a message whose lists have come and whose devices
\* are sealed for.
LEMMA SaveMessageKeeps ==
  ASSUME FanIndInv, NEW s \in sends, SaveMessage(s)
  PROVE  FanIndInv'
<1> USE DEF FanIndInv
<1>0. s \in Sends /\ s.m \in Texts
  BY SendIs
<1>1. PICK r : r = [m |-> s.m, sealed |-> s.sealed, rows |-> {}, known |-> s.known]
  OBVIOUS
<1>2. /\ UNCHANGED <<registered, outgoing, bundles, begun, excused, heard, incoming, text, keeping, loads, unsaved, failures>>
      /\ s.ask = {} /\ s.left = {} /\ sends' = sends \ {s} /\ stored' = stored \cup {r}
  BY <1>1 DEF SaveMessage, Sealed, readers
<1>3. r.m = s.m /\ r.sealed = s.sealed /\ r.rows = {} /\ r.known = s.known
  BY <1>1
<1>4. FanTypeOK'
  <2>1. r \in StoredRows
    BY <1>0, <1>1 DEF StoredRows, Sends
  <2> QED
    BY <1>2, <1>3, <2>1 DEF FanTypeOK
<1>5. OneNumber'
  <2>1. \A x \in Written' : x.m <= begun'
    BY <1>2, <1>3 DEF SenderInv, OneNumber, Written
  <2>2. \A p \in sends' : p.m # r.m
    BY <1>2, <1>3 DEF SenderInv, OneNumber
  <2> QED
    BY <1>2, <1>3, <2>1, <2>2 DEF SenderInv, OneNumber
<1>6. SealedApart'
  <2>1. ASSUME NEW x \in Written', NEW y \in Written', NEW e \in x.sealed, e \in y.sealed PROVE x = y
    <3>1. PICK q \in Written : x.m = q.m /\ x.sealed = q.sealed
      BY <1>2, <1>3 DEF Written
    <3>2. PICK p \in Written : y.m = p.m /\ y.sealed = p.sealed
      BY <1>2, <1>3 DEF Written
    <3>3. x.m = y.m
      BY <2>1, <3>1, <3>2 DEF SenderInv, SealedApart
    <3> QED
      BY <1>5, <3>3 DEF OneNumber, Written
  <2>2. \A x \in Written' : \A e \in x.sealed : e.no <= outgoing'[e.to]
    BY <1>2, <1>3 DEF SenderInv, SealedApart, Written
  <2> QED
    BY <2>1, <2>2 DEF SealedApart
<1>7. SealsInTurn' /\ KnownReached'
  BY <1>2 DEF SenderInv, SealsInTurn, KnownReached, Reaches
<1>8. RoomToSeal'
  <2>1. ASSUME NEW d \in Targets PROVE outgoing'[d] + Cardinality(Unsealed(d)') <= begun'
    <3>1. PICK T : T = Unsealed(d)'
      OBVIOUS
    <3>2. T \subseteq Unsealed(d)
      BY <1>2, <3>1 DEF Unsealed
    <3>3. Cardinality(T) <= Cardinality(Unsealed(d)) /\ Cardinality(T) \in Nat
          /\ Cardinality(Unsealed(d)) \in Nat
      BY <3>2, UnsealedFinite
    <3>4. outgoing[d] + Cardinality(Unsealed(d)) <= begun
      BY DEF SenderInv, RoomToSeal
    <3> QED
      BY <1>2, <3>1, <3>3, <3>4, CountsAre
  <2> QED
    BY <2>1 DEF RoomToSeal
<1>9. NoneForgotten'
  <2>1. \A d \in r.known : (\E e \in r.sealed : e.to = d) \/ <<r.m, d>> \in excused
    BY <1>2, <1>3 DEF SenderInv, KnownReached, Reaches
  <2> QED
    BY <1>2, <2>1 DEF SenderInv, NoneForgotten
<1>10. UsedIsKept'
  BY <1>2, ReadersWait
<1> QED
  BY <1>4, <1>5, <1>6, <1>7, <1>8, <1>9, <1>10 DEF SenderInv

\* The envelope rows of a message row.
LEMMA SaveEnvelopesKeeps ==
  ASSUME FanIndInv, NEW r \in stored, SaveEnvelopes(r)
  PROVE  FanIndInv'
<1> USE DEF FanIndInv
<1>0. r \in StoredRows /\ r.m \in Texts
  BY StoredIs
<1>1. PICK r2 : r2 = [r EXCEPT !.rows = r.sealed]
  OBVIOUS
<1>2. /\ UNCHANGED <<registered, outgoing, bundles, sends, begun, excused, incoming, text, keeping, loads, unsaved, failures>>
      /\ r.rows = {} /\ stored' = (stored \ {r}) \cup {r2}
  BY <1>1 DEF SaveEnvelopes, senderPage
<1>3. r2 \in StoredRows /\ r2.m = r.m /\ r2.sealed = r.sealed /\ r2.rows = r2.sealed /\ r2.known = r.known
  BY <1>0, <1>1 DEF StoredRows
<1>4. heard' \subseteq [m : Texts, at : Targets, by : {"list", "view"}]
  <2>1. PICK here \in SUBSET registered : \E viewing \in SUBSET here :
          heard' = heard \cup [m : {r.m}, at : here, by : {"list"}] \cup [m : {r.m}, at : viewing, by : {"view"}]
    BY DEF SaveEnvelopes
  <2>2. PICK viewing \in SUBSET here :
          heard' = heard \cup [m : {r.m}, at : here, by : {"list"}] \cup [m : {r.m}, at : viewing, by : {"view"}]
    BY <2>1
  <2>3. here \subseteq Targets /\ viewing \subseteq Targets
    BY <2>1, <2>2 DEF FanTypeOK
  <2>4. /\ [m : {r.m}, at : here, by : {"list"}] \subseteq [m : Texts, at : Targets, by : {"list", "view"}]
        /\ [m : {r.m}, at : viewing, by : {"view"}] \subseteq [m : Texts, at : Targets, by : {"list", "view"}]
    BY <1>0, <2>3
  <2> QED
    BY <2>2, <2>4 DEF FanTypeOK
<1>5. FanTypeOK'
  BY <1>2, <1>3, <1>4 DEF FanTypeOK
<1>6. \A x \in Written' : \E q \in Written : x.m = q.m /\ x.sealed = q.sealed
  BY <1>2, <1>3 DEF Written
<1>7. OneNumber'
  <2>1. \A x \in Written' : x.m <= begun'
    BY <1>2, <1>6 DEF SenderInv, OneNumber
  <2> QED
    BY <1>2, <1>3, <2>1 DEF SenderInv, OneNumber
<1>8. SealedApart'
  <2>1. ASSUME NEW x \in Written', NEW y \in Written', NEW e \in x.sealed, e \in y.sealed PROVE x = y
    <3>1. PICK q \in Written : x.m = q.m /\ x.sealed = q.sealed
      BY <1>6
    <3>2. PICK p \in Written : y.m = p.m /\ y.sealed = p.sealed
      BY <1>6
    <3>3. x.m = y.m
      BY <2>1, <3>1, <3>2 DEF SenderInv, SealedApart
    <3> QED
      BY <1>7, <3>3 DEF OneNumber, Written
  <2>2. \A x \in Written' : \A e \in x.sealed : e.no <= outgoing'[e.to]
    BY <1>2, <1>6 DEF SenderInv, SealedApart
  <2> QED
    BY <2>1, <2>2 DEF SealedApart
<1>9. SealsInTurn' /\ KnownReached' /\ RoomToSeal'
  BY <1>2 DEF SenderInv, SealsInTurn, KnownReached, Reaches, RoomToSeal, Unsealed
<1>10. NoneForgotten'
  BY <1>2, <1>3 DEF SenderInv, NoneForgotten
<1>11. UsedIsKept'
  BY <1>2, ReadersWait
<1> QED
  BY <1>5, <1>7, <1>8, <1>9, <1>10, <1>11 DEF SenderInv

\* A reader uses up the key of the message it has read, and of no other.
LEMMA DecryptV3Keeps ==
  ASSUME FanIndInv, NEW d \in Targets, NEW n \in Texts, NEW keeps \in BOOLEAN, DecryptV3(d, n, keeps),
         UNCHANGED <<stored, text>>
  PROVE  /\ incoming' \in [Targets -> [has : BOOLEAN, used : SUBSET Texts]]
         /\ keeping' \subseteq Keeps
         /\ unsaved' \subseteq Texts \X Targets
         /\ UsedIsKept'
<1> USE DEF FanIndInv
<1>1. CASE UNCHANGED <<incoming, keeping, unsaved>>
  BY <1>1, ReadersWait DEF FanTypeOK, Keeps
<1>2. CASE \E e \in {e \in EnvelopeOf(n, d) : Opens3(d, e)} :
             /\ incoming' = [incoming EXCEPT ![d] = AfterOpen(d, e)]
             /\ keeping' = IF keeps THEN keeping \cup {[m |-> n, at |-> d, as |-> "text"]} ELSE keeping
             /\ unsaved' = IF keeps THEN unsaved ELSE unsaved \cup {<<n, d>>}
  <2>1. PICK e \in EnvelopeOf(n, d) :
             /\ incoming' = [incoming EXCEPT ![d] = AfterOpen(d, e)]
             /\ keeping' = IF keeps THEN keeping \cup {[m |-> n, at |-> d, as |-> "text"]} ELSE keeping
             /\ unsaved' = IF keeps THEN unsaved ELSE unsaved \cup {<<n, d>>}
    BY <1>2
  <2>2. PICK r \in stored : r.m = n /\ e \in r.rows /\ e.to = d
    BY DEF EnvelopeOf
  <2>3. e.no \in Texts
    BY <2>2, StoredIs, EnvelopeIs
  <2>4. incoming[d] \in [has : BOOLEAN, used : SUBSET Texts]
    BY DEF FanTypeOK
  <2>5. /\ AfterOpen(d, e) \in [has : BOOLEAN, used : SUBSET Texts]
        /\ AfterOpen(d, e).used \subseteq incoming[d].used \cup {e.no}
    BY <2>3, <2>4 DEF AfterOpen
  <2>6. incoming' \in [Targets -> [has : BOOLEAN, used : SUBSET Texts]]
    BY <2>1, <2>5 DEF FanTypeOK
  <2>7. keeping' \subseteq Keeps /\ unsaved' \subseteq Texts \X Targets
    BY <2>1 DEF FanTypeOK, Keeps
  <2>9. Kept(n, d)' /\ \A m \in Texts, c \in Targets : Kept(m, c) => Kept(m, c)'
    BY <2>1 DEF Kept
  <2>10. UsedIsKept'
    <3>1. ASSUME NEW c \in Targets, NEW k \in incoming'[c].used
          PROVE  \E q \in stored' : \E f \in q.rows : f.to = c /\ f.no = k /\ Kept(q.m, c)'
      <4>1. CASE k \in incoming[c].used
        <5>1. PICK q \in stored : \E f \in q.rows : f.to = c /\ f.no = k /\ Kept(q.m, c)
          BY <4>1 DEF UsedIsKept
        <5>2. Kept(q.m, c)'
          BY <2>9, <5>1, StoredIs
        <5> QED
          BY <5>1, <5>2
      <4>2. CASE k \notin incoming[c].used
        <5>1. c = d /\ k = e.no
          BY <2>1, <2>5, <3>1, <4>2 DEF FanTypeOK
        <5> QED
          BY <2>2, <2>9, <5>1
      <4> QED
        BY <4>1, <4>2
    <3> QED
      BY <3>1 DEF UsedIsKept
  <2> QED
    BY <2>6, <2>7, <2>10
<1> QED
  BY <1>1, <1>2 DEF DecryptV3

\* What was kept, being kept or given up stays so while no key is used.
LEMMA StillKept ==
  ASSUME FanIndInv, UNCHANGED <<incoming, stored>>,
         \A m \in Texts, c \in Targets : Kept(m, c) => Kept(m, c)'
  PROVE  UsedIsKept'
<1>1. ASSUME NEW c \in Targets, NEW k \in incoming'[c].used
      PROVE  \E q \in stored' : \E f \in q.rows : f.to = c /\ f.no = k /\ Kept(q.m, c)'
  <2>1. PICK q \in stored : \E f \in q.rows : f.to = c /\ f.no = k /\ Kept(q.m, c)
    BY <1>1 DEF FanIndInv, UsedIsKept
  <2>2. Kept(q.m, c)'
    BY <2>1, StoredIs DEF FanIndInv
  <2> QED
    BY <2>1, <2>2
<1> QED
  BY <1>1 DEF UsedIsKept

\* The sender's part of the invariant does not mention the readers.
LEMMA SenderApart ==
  ASSUME SenderInv, UNCHANGED <<registered, outgoing, sends, begun, excused, stored>>
  PROVE  SenderInv'
BY DEF SenderInv, OneNumber, SealedApart, SealsInTurn, KnownReached, RoomToSeal, NoneForgotten,
       Written, Reaches, Unsealed

LEMMA ReadingKeeps ==
  ASSUME FanIndInv,
         \/ \E r \in stored : \E d \in Targets : HistoryReads(d, r)
         \/ \E h \in heard : ListReads(h) \/ ViewReads(h)
  PROVE  FanIndInv'
<1> USE DEF FanIndInv
<1>1. /\ UNCHANGED <<registered, outgoing, bundles, sends, begun, excused, stored, text, failures>>
      /\ heard' \subseteq heard /\ loads' \in 0 .. MaxLoads
  <2>1. /\ UNCHANGED <<registered, outgoing, bundles, sends, begun, excused, stored, text, failures>>
        /\ heard' \subseteq heard
    BY DEF HistoryReads, ListReads, ViewReads, senderPage
  <2>2. loads' = loads \/ (loads < MaxLoads /\ loads' = loads + 1)
    BY DEF HistoryReads, ListReads, ViewReads
  <2>3. loads' \in 0 .. MaxLoads
    BY <2>2, FanoutConstants DEF FanTypeOK
  <2> QED
    BY <2>1, <2>3
<1>2. /\ incoming' \in [Targets -> [has : BOOLEAN, used : SUBSET Texts]]
      /\ keeping' \subseteq Keeps
      /\ unsaved' \subseteq Texts \X Targets
      /\ UsedIsKept'
  <2>1. CASE UNCHANGED <<incoming, keeping, unsaved>>
    BY <1>1, <2>1, ReadersWait DEF FanTypeOK, Keeps
  <2>2. ASSUME NEW d \in Targets, NEW n \in Texts, NEW keeps \in BOOLEAN, DecryptV3(d, n, keeps)
        PROVE  /\ incoming' \in [Targets -> [has : BOOLEAN, used : SUBSET Texts]]
               /\ keeping' \subseteq Keeps
               /\ unsaved' \subseteq Texts \X Targets
               /\ UsedIsKept'
    BY <1>1, <2>2, DecryptV3Keeps
  <2>3. ASSUME NEW d \in Targets, NEW n \in Texts,
               keeping' = keeping \cup {[m |-> n, at |-> d, as |-> "cipher"]},
               UNCHANGED <<incoming, unsaved>>
        PROVE  /\ incoming' \in [Targets -> [has : BOOLEAN, used : SUBSET Texts]]
               /\ keeping' \subseteq Keeps
               /\ unsaved' \subseteq Texts \X Targets
               /\ UsedIsKept'
    <3>1. \A m \in Texts, c \in Targets : Kept(m, c) => Kept(m, c)'
      BY <1>1, <2>3 DEF Kept
    <3>2. UsedIsKept'
      BY <1>1, <2>3, <3>1, StillKept
    <3> QED
      BY <2>3, <3>2 DEF FanTypeOK, Keeps
  <2>4. ASSUME NEW r \in stored, NEW d \in Targets, HistoryReads(d, r)
        PROVE  \/ UNCHANGED <<incoming, keeping, unsaved>>
               \/ DecryptV3(d, r.m, TRUE)
               \/ keeping' = keeping \cup {[m |-> r.m, at |-> d, as |-> "cipher"]}
                  /\ UNCHANGED <<incoming, unsaved>>
    BY <2>4 DEF HistoryReads
  <2>5. ASSUME NEW h \in heard, ListReads(h) \/ ViewReads(h)
        PROVE  /\ h.m \in Texts /\ h.at \in Targets
               /\ \/ UNCHANGED <<incoming, keeping, unsaved>>
                  \/ DecryptV3(h.at, h.m, TRUE) \/ DecryptV3(h.at, h.m, FALSE)
    BY <2>5 DEF ListReads, ViewReads, FanTypeOK
  <2> QED
    BY <2>1, <2>2, <2>3, <2>4, <2>5, StoredIs
<1>3. FanTypeOK'
  BY <1>1, <1>2 DEF FanTypeOK, Keeps
<1>4. SenderInv'
  BY <1>1, SenderApart
<1> QED
  BY <1>2, <1>3, <1>4

\* The write of a text: carried out, or given up with the text.
LEMMA KeepingKeeps ==
  ASSUME FanIndInv,
         \/ \E k \in keeping : SavePlaintext(k) \/ SaveFails(k)
         \/ \E d \in Targets : ReaderDies(d)
  PROVE  FanIndInv'
<1> USE DEF FanIndInv
<1>1. /\ UNCHANGED <<registered, outgoing, bundles, sends, begun, excused, stored, incoming, loads>>
      /\ heard' \subseteq heard
  BY DEF SavePlaintext, SaveFails, ReaderDies, Lose, senderPage
<1>2. /\ failures' \in 0 .. MaxFailures
      /\ keeping' \subseteq Keeps
      /\ text' \in [Targets -> [Texts -> {"none", "text", "cipher"}]]
      /\ unsaved' \subseteq Texts \X Targets
      /\ \A m \in Texts, c \in Targets : Kept(m, c) => Kept(m, c)'
  <2>1. CASE \E k \in keeping : SavePlaintext(k)
    <3>1. PICK k \in keeping : SavePlaintext(k)
      BY <2>1
    <3>2. /\ keeping' = keeping \ {k} /\ text' = [text EXCEPT ![k.at][k.m] = k.as]
          /\ UNCHANGED <<unsaved, failures>>
      BY <3>1 DEF SavePlaintext
    <3>3. /\ k \in Keeps /\ k.m \in Texts /\ k.at \in Targets /\ k.as \in {"text", "cipher"}
          /\ text[k.at] \in [Texts -> {"none", "text", "cipher"}]
      BY <3>1 DEF FanTypeOK, Keeps
    <3>4. text' = [text EXCEPT ![k.at] = [text[k.at] EXCEPT ![k.m] = k.as]]
      BY <3>2
    <3>5. [text[k.at] EXCEPT ![k.m] = k.as] \in [Texts -> {"none", "text", "cipher"}]
      BY <3>3
    <3>6. text' \in [Targets -> [Texts -> {"none", "text", "cipher"}]]
      BY <3>4, <3>5 DEF FanTypeOK
    <3>7. \A m \in Texts, c \in Targets :
            text'[c][m] = IF c = k.at /\ m = k.m THEN k.as ELSE text[c][m]
      BY <3>3, <3>4 DEF FanTypeOK
    <3>8. \A m \in Texts, c \in Targets : Kept(m, c) => Kept(m, c)'
      BY <3>2, <3>3, <3>7 DEF Kept
    <3> QED
      BY <3>2, <3>6, <3>8 DEF FanTypeOK, Keeps
  <2>2. ASSUME NEW gone \in SUBSET keeping, Lose(gone)
        PROVE  /\ failures' \in 0 .. MaxFailures
               /\ keeping' \subseteq Keeps
               /\ text' \in [Targets -> [Texts -> {"none", "text", "cipher"}]]
               /\ unsaved' \subseteq Texts \X Targets
               /\ \A m \in Texts, c \in Targets : Kept(m, c) => Kept(m, c)'
    <3>1. /\ failures < MaxFailures /\ failures' = failures + 1 /\ keeping' = keeping \ gone
          /\ unsaved' = unsaved \cup {<<k.m, k.at>> : k \in {j \in gone : j.as = "text"}}
          /\ UNCHANGED text
      BY <2>2 DEF Lose, Fail
    <3>2. failures' \in 0 .. MaxFailures
      BY <3>1, FanoutConstants DEF FanTypeOK
    <3>3. unsaved' \subseteq Texts \X Targets
      BY <3>1 DEF FanTypeOK, Keeps
    <3>4. ASSUME NEW m \in Texts, NEW c \in Targets, Kept(m, c) PROVE Kept(m, c)'
      <4>1. PICK k : k = [m |-> m, at |-> c, as |-> "text"]
        OBVIOUS
      <4>2. k.m = m /\ k.at = c /\ k.as = "text"
        BY <4>1
      <4>3. k \in gone => <<m, c>> \in unsaved'
        BY <3>1, <4>2
      <4> QED
        BY <3>1, <3>4, <4>1, <4>3 DEF Kept
    <3> QED
      BY <3>1, <3>2, <3>3, <3>4 DEF FanTypeOK, Keeps
  <2>3. ASSUME NEW k \in keeping, SaveFails(k) PROVE Lose({k})
    BY <2>3 DEF SaveFails
  <2>4. ASSUME NEW d \in Targets, ReaderDies(d) PROVE Lose({k \in keeping : k.at = d})
    BY <2>4 DEF ReaderDies
  <2>5. \A d \in Targets : {k \in keeping : k.at = d} \in SUBSET keeping
    OBVIOUS
  <2> QED
    BY <2>1, <2>2, <2>3, <2>4, <2>5
<1>3. UsedIsKept'
  BY <1>1, <1>2, StillKept
<1>4. FanTypeOK'
  BY <1>1, <1>2 DEF FanTypeOK, Keeps
<1>5. SenderInv'
  BY <1>1, SenderApart
<1> QED
  BY <1>3, <1>4, <1>5

LEMMA FanInitially == FanInit => FanIndInv
<1> SUFFICES ASSUME FanInit PROVE FanIndInv
  OBVIOUS
<1>1. FanTypeOK
  BY FanoutConstants DEF FanInit, FanTypeOK, Idle
<1>2. OneNumber /\ SealedApart /\ SealsInTurn /\ KnownReached /\ NoneForgotten
  BY DEF FanInit, OneNumber, SealedApart, SealsInTurn, KnownReached, NoneForgotten, Written
<1>3. RoomToSeal
  <2>1. ASSUME NEW d \in Targets PROVE outgoing[d] + Cardinality(Unsealed(d)) <= begun
    <3>1. Unsealed(d) = {}
      BY DEF FanInit, Unsealed
    <3>2. outgoing[d] = 0 /\ begun = 0
      BY DEF FanInit
    <3> QED
      BY <3>1, <3>2, FS_EmptySet
  <2> QED
    BY <2>1 DEF RoomToSeal
<1>4. UsedIsKept
  BY DEF FanInit, UsedIsKept, Idle
<1> QED
  BY <1>1, <1>2, <1>3, <1>4 DEF FanIndInv, SenderInv

LEMMA FanStep ==
  ASSUME FanIndInv, [FanNext]_fanVars
  PROVE  FanIndInv'
<1>1. CASE UNCHANGED fanVars
  <2>1. UNCHANGED <<registered, outgoing, bundles, sends, begun, stored, heard, incoming, text, loads,
                    keeping, failures, excused, unsaved>>
    BY <1>1 DEF fanVars
  <2>2. FanTypeOK'
    BY <2>1 DEF FanIndInv, FanTypeOK
  <2>3. SenderInv'
    BY <2>1 DEF FanIndInv, SenderInv, OneNumber, SealedApart, SealsInTurn, KnownReached, RoomToSeal,
                NoneForgotten, Written, Reaches, Unsealed
  <2>4. UsedIsKept'
    BY <2>1, ReadersWait DEF FanIndInv
  <2> QED
    BY <2>2, <2>3, <2>4 DEF FanIndInv
<1>2. CASE FanNext
  BY <1>2, RegisterDeviceKeeps, EncryptV3Keeps, DroppedKeeps, PreparingKeeps, SealForKeeps,
     SaveMessageKeeps, SaveEnvelopesKeeps, ReadingKeeps, KeepingKeeps DEF FanNext
<1> QED
  BY <1>1, <1>2

LEMMA FanIndInvIsEnough ==
  ASSUME FanIndInv
  PROVE  FanoutInv
<1> USE DEF FanIndInv
<1>1. SealedOnce
  BY DEF SenderInv, SealedApart, SealedOnce, Written
<1>2. SealedStaysReadable
  <2>1. ASSUME NEW r \in stored, NEW e \in r.rows, e.no \in incoming[e.to].used
        PROVE  Kept(r.m, e.to)
    <3>1. e \in r.sealed /\ e \in Envelopes
      BY <2>1, StoredIs
    <3>2. PICK q \in stored : \E f \in q.rows : f.to = e.to /\ f.no = e.no /\ Kept(q.m, e.to)
      BY <2>1, <3>1, EnvelopeIs DEF UsedIsKept
    <3>3. PICK f \in q.rows : f.to = e.to /\ f.no = e.no
      BY <3>2
    <3>4. f = e /\ f \in q.sealed
      BY <3>1, <3>3, StoredIs, EnvelopeIs
    <3> QED
      BY <1>1, <3>1, <3>2, <3>4 DEF SealedOnce
  <2> QED
    BY <2>1 DEF SealedStaysReadable, Kept
<1> QED
  BY <1>1, <1>2 DEF FanoutInv, SenderInv

\* For any devices, messages, loads and failures: what was sealed for a device
\* stays readable there unless a reader that keeps no text used its key or the text was
\* lost before it was written; no two
\* messages are sealed with one key; no device that was known is forgotten but
\* for a request that failed.
THEOREM FanoutSafe == FanSpec => []FanoutInv
<1>1. FanIndInv => FanoutInv
  BY FanIndInvIsEnough
<1>2. FanIndInv /\ [FanNext]_fanVars => FanIndInv'
  BY FanStep
<1> QED
  BY <1>1, <1>2, FanInitially, PTL DEF FanSpec

-----------------------------------------------------------------------------
(* Messages: sequences of events and of what is listed.                    *)

Events == [ev : {"message", "deleted", "edited"}, id : Ids]
Gots == [id : Ids, gone : BOOLEAN, edited : BOOLEAN]

InQueue(q, ev, id) == \E i \in 1 .. Len(q) : q[i].ev = ev /\ q[i].id = id
OnceIn(q) ==
  \A i, j \in 1 .. Len(q) : q[i].ev = "message" /\ q[j].ev = "message" /\ q[i].id = q[j].id => i = j

LEMMA QueueAppend ==
  ASSUME NEW q \in Seq(Events), NEW e \in Events
  PROVE  /\ \A ev, id : InQueue(Append(q, e), ev, id) <=> InQueue(q, ev, id) \/ (e.ev = ev /\ e.id = id)
         /\ OnceIn(q) /\ (e.ev = "message" => ~InQueue(q, "message", e.id)) => OnceIn(Append(q, e))
         /\ Append(q, e) \in Seq(Events)
<1> DEFINE r == Append(q, e)
<1>1. /\ r \in Seq(Events) /\ Len(r) = Len(q) + 1 /\ Len(q) \in Nat
      /\ \A i \in 1 .. Len(q) : r[i] = q[i]
      /\ r[Len(q) + 1] = e
  OBVIOUS
<1> HIDE DEF r
<1>2. \A i \in 1 .. Len(r) : i \in 1 .. Len(q) \/ i = Len(q) + 1
  BY <1>1
<1>3. \A i \in 1 .. Len(q) : i \in 1 .. Len(r)
  BY <1>1
<1>4. Len(q) + 1 \in 1 .. Len(r)
  BY <1>1
<1>5. ASSUME NEW ev, NEW id PROVE InQueue(r, ev, id) <=> InQueue(q, ev, id) \/ (e.ev = ev /\ e.id = id)
  BY <1>1, <1>2, <1>3, <1>4 DEF InQueue
<1>6. ASSUME OnceIn(q), e.ev = "message" => ~InQueue(q, "message", e.id) PROVE OnceIn(r)
  <2> SUFFICES ASSUME NEW i \in 1 .. Len(r), NEW j \in 1 .. Len(r),
                      r[i].ev = "message", r[j].ev = "message", r[i].id = r[j].id
               PROVE  i = j
    BY DEF OnceIn
  <2>1. CASE i \in 1 .. Len(q) /\ j \in 1 .. Len(q)
    BY <2>1, <1>1, <1>6 DEF OnceIn
  <2>2. CASE i = Len(q) + 1 /\ j \in 1 .. Len(q)
    BY <2>2, <1>1, <1>6 DEF InQueue
  <2>3. CASE j = Len(q) + 1 /\ i \in 1 .. Len(q)
    BY <2>3, <1>1, <1>6 DEF InQueue
  <2> QED BY <2>1, <2>2, <2>3, <1>2
<1> QED BY <1>1, <1>5, <1>6 DEF r

LEMMA QueueTail ==
  ASSUME NEW q \in Seq(Events), q # <<>>
  PROVE  /\ \A ev, id : InQueue(q, ev, id) <=>
                          InQueue(Tail(q), ev, id) \/ (Head(q).ev = ev /\ Head(q).id = id)
         /\ OnceIn(q) => OnceIn(Tail(q)) /\ (Head(q).ev = "message" => ~InQueue(Tail(q), "message", Head(q).id))
         /\ Tail(q) \in Seq(Events) /\ Head(q) \in Events
<1> DEFINE r == Tail(q)
<1>1. /\ r \in Seq(Events) /\ Len(q) = Len(r) + 1 /\ Len(r) \in Nat
      /\ \A i \in 1 .. Len(r) : r[i] = q[i + 1]
      /\ Head(q) = q[1] /\ Head(q) \in Events
  OBVIOUS
<1> HIDE DEF r
<1>2. \A i \in 1 .. Len(q) : i = 1 \/ (i - 1 \in 1 .. Len(r) /\ q[i] = r[i - 1])
  <2> TAKE i \in 1 .. Len(q)
  <2>1. i = 1 \/ i - 1 \in 1 .. Len(r)
    BY <1>1
  <2>2. i - 1 \in 1 .. Len(r) => q[(i - 1) + 1] = r[i - 1]
    BY <1>1
  <2> QED BY <2>1, <2>2
<1>3. \A i \in 1 .. Len(r) : i + 1 \in 1 .. Len(q) /\ i + 1 # 1
  BY <1>1
<1>4. 1 \in 1 .. Len(q)
  BY <1>1
<1>5. ASSUME NEW ev, NEW id
      PROVE  InQueue(q, ev, id) <=> InQueue(r, ev, id) \/ (q[1].ev = ev /\ q[1].id = id)
  BY <1>1, <1>2, <1>3, <1>4 DEF InQueue
<1>6. ASSUME OnceIn(q) PROVE OnceIn(r)
  <2> SUFFICES ASSUME NEW i \in 1 .. Len(r), NEW j \in 1 .. Len(r),
                      r[i].ev = "message", r[j].ev = "message", r[i].id = r[j].id
               PROVE  i = j
    BY DEF OnceIn
  <2>1. i + 1 = j + 1
    BY <1>1, <1>3, <1>6 DEF OnceIn
  <2> QED BY <2>1
<1>7. ASSUME OnceIn(q), q[1].ev = "message", InQueue(r, "message", q[1].id) PROVE FALSE
  <2>1. PICK i \in 1 .. Len(r) : r[i].ev = "message" /\ r[i].id = q[1].id
    BY <1>7 DEF InQueue
  <2>2. i + 1 = 1
    BY <2>1, <1>1, <1>3, <1>4, <1>7 DEF OnceIn
  <2> QED BY <2>2, <1>3
<1> QED BY <1>1, <1>5, <1>6, <1>7 DEF r

\* What is listed at each place, but for what it says of deletions and edits.
Alike(s, r) ==
  /\ Len(s) = Len(r)
  /\ \A i \in 1 .. Len(s) : s[i].id = r[i].id /\ s[i].says = r[i].says /\ s[i].how = r[i].how

LEMMA AlikeKeeps ==
  ASSUME NEW s, NEW r, Alike(s, r)
  PROVE  IdsOf(s) = IdsOf(r) /\ Bubbles(s) = Bubbles(r)
BY DEF Alike, IdsOf, Bubbles

OnceListed(s) == \A i, j \in 1 .. Len(s) : s[i].id # 0 /\ s[i].id = s[j].id => i = j

LEMMA ListAppend ==
  ASSUME NEW s \in Seq(Shown), NEW e \in Shown
  PROVE  /\ Append(s, e) \in Seq(Shown) /\ Len(Append(s, e)) = Len(s) + 1 /\ Len(s) \in Nat
         /\ \A i \in 1 .. Len(s) : Append(s, e)[i] = s[i]
         /\ Append(s, e)[Len(s) + 1] = e
         /\ IdsOf(Append(s, e)) = IdsOf(s) \cup ({e.id} \ {0})
         /\ Bubbles(Append(s, e)) = Bubbles(s) \cup (IF e.id = 0 THEN {Len(s) + 1} ELSE {})
         /\ Len(s) + 1 \notin Bubbles(s)
         /\ OnceListed(s) /\ e.id \notin IdsOf(s) => OnceListed(Append(s, e))
<1> DEFINE r == Append(s, e)
<1>1. /\ r \in Seq(Shown) /\ Len(r) = Len(s) + 1 /\ Len(s) \in Nat
      /\ \A i \in 1 .. Len(s) : r[i] = s[i]
      /\ r[Len(s) + 1] = e
  OBVIOUS
<1> HIDE DEF r
<1>2. 1 .. Len(r) = 1 .. Len(s) \cup {Len(s) + 1} /\ Len(s) + 1 \notin 1 .. Len(s)
  BY <1>1
<1>3. IdsOf(r) = IdsOf(s) \cup ({e.id} \ {0})
  BY <1>1, <1>2 DEF IdsOf
<1>4. Bubbles(r) = Bubbles(s) \cup (IF e.id = 0 THEN {Len(s) + 1} ELSE {}) /\ Len(s) + 1 \notin Bubbles(s)
  BY <1>1, <1>2 DEF Bubbles
<1>5. ASSUME OnceListed(s), e.id \notin IdsOf(s) PROVE OnceListed(r)
  <2> SUFFICES ASSUME NEW i \in 1 .. Len(r), NEW j \in 1 .. Len(r), r[i].id # 0, r[i].id = r[j].id
               PROVE  i = j
    BY DEF OnceListed
  <2>1. CASE i \in 1 .. Len(s) /\ j \in 1 .. Len(s)
    BY <2>1, <1>1, <1>5 DEF OnceListed
  <2>2. CASE i = Len(s) + 1 /\ j \in 1 .. Len(s)
    BY <2>2, <1>1, <1>5 DEF IdsOf
  <2>3. CASE j = Len(s) + 1 /\ i \in 1 .. Len(s)
    BY <2>3, <1>1, <1>5 DEF IdsOf
  <2> QED BY <2>1, <2>2, <2>3, <1>2
<1> QED BY <1>1, <1>3, <1>4, <1>5 DEF r

Replaced(s, at, e, r) ==
  /\ r \in Seq(Shown) /\ Len(r) = Len(s) /\ r[at] = e /\ at \in 1 .. Len(s)
  /\ \A i \in 1 .. Len(s) : i # at => r[i] = s[i]
  /\ IdsOf(r) = IdsOf(s) \cup {e.id}
  /\ Bubbles(r) = Bubbles(s) \ {at}
  /\ OnceListed(s) /\ e.id \notin IdsOf(s) => OnceListed(r)

LEMMA ListReplace ==
  ASSUME NEW s \in Seq(Shown), NEW e \in Shown, NEW at \in Bubbles(s), e.id # 0
  PROVE  Replaced(s, at, e, [s EXCEPT ![at] = e])
<1> DEFINE r == [s EXCEPT ![at] = e]
<1>1. /\ r \in Seq(Shown) /\ Len(r) = Len(s) /\ r[at] = e /\ at \in 1 .. Len(s) /\ s[at].id = 0
      /\ \A i \in 1 .. Len(s) : i # at => r[i] = s[i]
  BY DEF Bubbles
<1> HIDE DEF r
<1>2. IdsOf(r) = IdsOf(s) \cup {e.id}
  BY <1>1 DEF IdsOf
<1>3. Bubbles(r) = Bubbles(s) \ {at}
  BY <1>1 DEF Bubbles
<1>4. ASSUME OnceListed(s), e.id \notin IdsOf(s) PROVE OnceListed(r)
  <2> SUFFICES ASSUME NEW i \in 1 .. Len(r), NEW j \in 1 .. Len(r), r[i].id # 0, r[i].id = r[j].id
               PROVE  i = j
    BY DEF OnceListed
  <2>1. CASE i # at /\ j # at
    BY <2>1, <1>1, <1>4 DEF OnceListed
  <2>2. CASE i = at /\ j # at
    BY <2>2, <1>1, <1>4 DEF IdsOf
  <2>3. CASE j = at /\ i # at
    BY <2>3, <1>1, <1>4 DEF IdsOf
  <2> QED BY <2>1, <2>2, <2>3
<1> QED BY <1>1, <1>2, <1>3, <1>4 DEF Replaced, r

LEMMA BubblesFinite ==
  ASSUME NEW s \in Seq(Shown)
  PROVE  IsFiniteSet(Bubbles(s)) /\ Cardinality(Bubbles(s)) \in Nat /\ Bubbles(s) \subseteq 1 .. Len(s)
<1>1. IsFiniteSet(1 .. Len(s))
  BY FS_Interval
<1>2. Bubbles(s) \subseteq 1 .. Len(s)
  BY DEF Bubbles
<1> QED BY <1>1, <1>2, FS_Subset, FS_CardinalityType

-----------------------------------------------------------------------------
(* Messages: the list without its duplicates.                              *)

LEMMA LeastOf ==
  ASSUME NEW S \in SUBSET Nat, S # {}
  PROVE  \E m \in S : \A j \in S : m <= j
<1>1. PICK m \in S : \A j \in S : ~ (<<j, m>> \in OpToRel(<, Nat))
  BY NatLessThanWellFounded, WFMin
<1>2. \A j \in S : ~ (j < m)
  BY <1>1 DEF OpToRel
<1> QED
  BY <1>2

LEMMA GreatestOf ==
  ASSUME NEW n \in Nat, NEW S \in SUBSET (1 .. n), S # {}
  PROVE  \E m \in S : \A j \in S : m >= j
<1> DEFINE T == {n - i : i \in S}
<1>0. \A i \in S : i \in Nat /\ i <= n /\ n - i \in Nat
  OBVIOUS
<1>1. T \in SUBSET Nat /\ T # {}
  BY <1>0
<1>2. PICK t \in T : \A j \in T : t <= j
  BY <1>1, LeastOf
<1>3. PICK m \in S : t = n - m
  BY <1>2
<1>4. ASSUME NEW j \in S PROVE m >= j
  <2>1. n - j \in T /\ t <= n - j
    BY <1>2
  <2> QED
    BY <2>1, <1>0, <1>3
<1> QED
  BY <1>4

Rising(f, n) == \A i, j \in 1 .. n : i < j => f[i] < f[j]
Ordered(S) == \E f \in [1 .. Cardinality(S) -> S] : Rising(f, Cardinality(S))

\* A finite set of numbers can be put in order: its least one comes first.
LEMMA OrderExists ==
  ASSUME NEW S \in SUBSET Nat, IsFiniteSet(S)
  PROVE  Ordered(S)
<1> DEFINE Bad == {n \in Nat : \E T \in SUBSET Nat : IsFiniteSet(T) /\ Cardinality(T) = n /\ ~Ordered(T)}
<1> SUFFICES ASSUME Bad # {} PROVE FALSE
  BY FS_CardinalityType
<1>1. PICK n \in Bad : \A m \in Bad : n <= m
  <2>1. Bad \in SUBSET Nat
    OBVIOUS
  <2> HIDE DEF Bad
  <2> QED BY <2>1, LeastOf
<1>2. PICK T \in SUBSET Nat : IsFiniteSet(T) /\ Cardinality(T) = n /\ ~Ordered(T)
  OBVIOUS
<1>3. n \in Nat
  OBVIOUS
<1>4. T # {}
  <2> SUFFICES ASSUME T = {} PROVE FALSE
    OBVIOUS
  <2>1. n = 0
    BY <1>2, FS_EmptySet
  <2>2. [i \in 1 .. n |-> 0] \in [1 .. n -> T] /\ Rising([i \in 1 .. n |-> 0], n)
    BY <2>1 DEF Rising
  <2> QED BY <2>2, <1>2 DEF Ordered
<1>5. PICK m \in T : \A j \in T : m <= j
  BY <1>4, LeastOf
<1> DEFINE U == T \ {m}
<1>6. U \in SUBSET Nat /\ IsFiniteSet(U) /\ Cardinality(U) = n - 1 /\ n - 1 \in Nat
  <2>1. IsFiniteSet(U) /\ Cardinality(U) = n - 1
    BY <1>2, FS_RemoveElement
  <2>2. Cardinality(U) \in Nat
    BY <2>1, FS_CardinalityType
  <2> QED BY <2>1, <2>2
<1>7. n - 1 \notin Bad
  <2> HIDE DEF Bad
  <2> QED BY <1>1, <1>3
<1>8. PICK f \in [1 .. n - 1 -> U] : Rising(f, n - 1)
  <2> HIDE DEF U
  <2> QED BY <1>6, <1>7 DEF Ordered
<1> DEFINE g == [i \in 1 .. n |-> IF i = 1 THEN m ELSE f[i - 1]]
<1>9. \A i \in 1 .. n : i = 1 \/ (i - 1 \in 1 .. n - 1 /\ g[i] = f[i - 1] /\ g[i] \in T /\ m < g[i])
  <2> TAKE i \in 1 .. n
  <2>1. i = 1 \/ i - 1 \in 1 .. n - 1
    BY <1>3
  <2>2. i - 1 \in 1 .. n - 1 => f[i - 1] \in U
    OBVIOUS
  <2>3. \A u \in U : u \in T /\ m < u
    BY <1>5, <1>2
  <2> QED BY <2>1, <2>2, <2>3
<1>10. g \in [1 .. n -> T]
  BY <1>9, <1>5
<1>11. Rising(g, n)
  <2> SUFFICES ASSUME NEW i \in 1 .. n, NEW j \in 1 .. n, i < j PROVE g[i] < g[j]
    BY DEF Rising
  <2>1. j # 1 /\ j - 1 \in 1 .. n - 1 /\ g[j] = f[j - 1] /\ m < g[j]
    BY <1>9, <1>3
  <2>2. CASE i = 1
    BY <2>1, <2>2
  <2>3. CASE i # 1
    <3>1. i - 1 \in 1 .. n - 1 /\ g[i] = f[i - 1]
      BY <2>3, <1>9
    <3>2. i - 1 < j - 1
      BY <1>3
    <3> HIDE DEF g
    <3> QED BY <3>1, <3>2, <2>1, <1>8 DEF Rising
  <2> QED BY <2>2, <2>3
<1> HIDE DEF g
<1> QED BY <1>10, <1>11, <1>2 DEF Ordered

LEMMA InOrderIs ==
  ASSUME NEW S \in SUBSET Nat, IsFiniteSet(S)
  PROVE  LET f == InOrder(S) n == Cardinality(S) IN
         /\ n \in Nat /\ f \in [1 .. n -> S] /\ Rising(f, n)
         /\ \A i, j \in 1 .. n : f[i] = f[j] => i = j
         /\ \A k \in S : \E i \in 1 .. n : f[i] = k
<1> DEFINE n == Cardinality(S)
           f == InOrder(S)
<1>1. n \in Nat
  BY FS_CardinalityType
<1>2. f \in [1 .. n -> S] /\ Rising(f, n)
  BY OrderExists DEF Ordered, InOrder, Rising
<1> HIDE DEF f
<1>3. \A i, j \in 1 .. n : f[i] = f[j] => i = j
  <2> SUFFICES ASSUME NEW i \in 1 .. n, NEW j \in 1 .. n, f[i] = f[j], i # j PROVE FALSE
    OBVIOUS
  <2>1. f[i] \in S /\ f[i] \in Nat /\ i \in Nat /\ j \in Nat
    <3>1. f[i] \in S
      BY <1>2
    <3>2. i \in Nat /\ j \in Nat
      BY <1>1
    <3> HIDE DEF n
    <3> QED BY <3>1, <3>2
  <2>2. i < j \/ j < i
    BY <2>1
  <2>3. f[i] < f[j] \/ f[j] < f[i]
    BY <2>2, <1>2 DEF Rising
  <2> QED BY <2>1, <2>3
<1>4. f \in Injection(1 .. n, S)
  BY <1>2, <1>3 DEF Injection, IsInjective
<1>5. Cardinality(1 .. n) = n
  BY <1>1, FS_Interval
<1>6. f \in Surjection(1 .. n, S)
  BY <1>4, <1>5, FS_Injection
<1>7. \A k \in S : \E i \in 1 .. n : f[i] = k
  BY <1>6 DEF Surjection
<1> QED BY <1>1, <1>2, <1>3, <1>7 DEF f

\* What is left is in order, each of it once, and every number is still there.
LEMMA DedupIs ==
  ASSUME NEW s \in Seq(Shown)
  PROVE  LET r == Dedup(s) at == InOrder(Staying(s)) IN
         /\ r \in Seq(Shown) /\ Len(r) = Cardinality(Staying(s)) /\ Len(r) \in Nat
         /\ \A i \in 1 .. Len(r) : at[i] \in Staying(s) /\ r[i] = s[at[i]]
         /\ Rising(at, Len(r))
         /\ \A i, j \in 1 .. Len(r) : at[i] = at[j] => i = j
         /\ \A k \in Staying(s) : \E i \in 1 .. Len(r) : at[i] = k
<1>1. Staying(s) \in SUBSET Nat /\ IsFiniteSet(Staying(s)) /\ Staying(s) \subseteq 1 .. Len(s)
  <2>1. IsFiniteSet(1 .. Len(s)) /\ Staying(s) \subseteq 1 .. Len(s)
    BY FS_Interval DEF Staying
  <2> QED BY <2>1, FS_Subset
<1> DEFINE at == InOrder(Staying(s))
           n == Cardinality(Staying(s))
<1>2. /\ n \in Nat /\ at \in [1 .. n -> Staying(s)] /\ Rising(at, n)
      /\ \A i, j \in 1 .. n : at[i] = at[j] => i = j
      /\ \A k \in Staying(s) : \E i \in 1 .. n : at[i] = k
  BY <1>1, InOrderIs
<1>3. Dedup(s) = [i \in 1 .. n |-> s[at[i]]]
  BY DEF Dedup
<1> HIDE DEF at, n
<1>4. \A i \in 1 .. n : at[i] \in Staying(s) /\ s[at[i]] \in Shown
  BY <1>1, <1>2
<1>5. Dedup(s) \in Seq(Shown) /\ Len(Dedup(s)) = n
  BY <1>2, <1>3, <1>4
<1>6. \A i \in 1 .. n : Dedup(s)[i] = s[at[i]]
  BY <1>3
<1> QED BY <1>2, <1>4, <1>5, <1>6 DEF at, n

LEMMA DedupOnce ==
  ASSUME NEW s \in Seq(Shown)
  PROVE  OnceListed(Dedup(s))
<1> DEFINE r == Dedup(s)
           at == InOrder(Staying(s))
<1>1. /\ \A i \in 1 .. Len(r) : at[i] \in Staying(s) /\ r[i] = s[at[i]]
      /\ Rising(at, Len(r)) /\ Len(r) \in Nat
      /\ \A i, j \in 1 .. Len(r) : at[i] = at[j] => i = j
  BY DedupIs
<1> HIDE DEF r, at
<1>2. ASSUME NEW k \in Staying(s), NEW l \in Staying(s), k < l, s[k].id # 0 PROVE s[k].id # s[l].id
  BY <1>2 DEF Staying
<1>3. ASSUME NEW i \in 1 .. Len(r), NEW j \in 1 .. Len(r), i < j, r[i].id # 0 PROVE r[i].id # r[j].id
  <2>1. at[i] < at[j]
    BY <1>1, <1>3 DEF Rising
  <2> QED BY <2>1, <1>1, <1>2, <1>3
<1>4. \A i, j \in 1 .. Len(r) : i = j \/ i < j \/ j < i
  BY <1>1
<1>5. OnceListed(r)
  BY <1>3, <1>4 DEF OnceListed
<1> QED BY <1>5 DEF r

LEMMA DedupIds ==
  ASSUME NEW s \in Seq(Shown)
  PROVE  IdsOf(Dedup(s)) = IdsOf(s)
<1> DEFINE r == Dedup(s)
           at == InOrder(Staying(s))
<1>1. /\ \A i \in 1 .. Len(r) : at[i] \in Staying(s) /\ r[i] = s[at[i]]
      /\ \A k \in Staying(s) : \E i \in 1 .. Len(r) : at[i] = k
  BY DedupIs
<1> HIDE DEF r, at
<1>2. Staying(s) \subseteq 1 .. Len(s)
  BY DEF Staying
<1>3. IdsOf(r) \subseteq IdsOf(s)
  BY <1>1, <1>2 DEF IdsOf
<1>4. ASSUME NEW id \in IdsOf(s) PROVE id \in IdsOf(r)
  <2> DEFINE P == {i \in 1 .. Len(s) : s[i].id = id}
  <2>1. P \in SUBSET Nat /\ P # {} /\ id # 0
    BY DEF IdsOf
  <2>2. PICK m \in P : \A j \in P : m <= j
    BY <2>1, LeastOf
  <2>3. m \in Staying(s)
    <3>1. \A j \in 1 .. m - 1 : j \notin P /\ j \in 1 .. Len(s)
      BY <2>2
    <3> QED BY <3>1, <2>1 DEF Staying
  <2>4. PICK i \in 1 .. Len(r) : at[i] = m
    BY <2>3, <1>1
  <2>5. r[i].id = id
    BY <2>4, <1>1
  <2> QED BY <2>5, <2>1 DEF IdsOf
<1>5. IdsOf(r) = IdsOf(s)
  BY <1>3, <1>4
<1> QED BY <1>5 DEF r

\* A bubble that is left was there, and one with a text stays.
LEMMA DedupBubbles ==
  ASSUME NEW s \in Seq(Shown)
  PROVE  /\ Cardinality(Bubbles(Dedup(s))) <= Cardinality(Bubbles(s))
         /\ \A i \in Bubbles(s) : s[i].how = "cipher" =>
              \E j \in Bubbles(Dedup(s)) : Dedup(s)[j] = s[i]
         /\ \A j \in 1 .. Len(Dedup(s)) : \E i \in 1 .. Len(s) : Dedup(s)[j] = s[i]
<1> DEFINE r == Dedup(s)
           at == InOrder(Staying(s))
<1>1. /\ \A i \in 1 .. Len(r) : at[i] \in Staying(s) /\ r[i] = s[at[i]]
      /\ \A i, j \in 1 .. Len(r) : at[i] = at[j] => i = j
      /\ \A k \in Staying(s) : \E i \in 1 .. Len(r) : at[i] = k
  BY DedupIs
<1> HIDE DEF r, at
<1>2. Staying(s) \subseteq 1 .. Len(s)
  BY DEF Staying
<1> DEFINE f == [i \in Bubbles(r) |-> at[i]]
<1>3. \A i \in Bubbles(r) : i \in 1 .. Len(r) /\ at[i] \in Bubbles(s)
  BY <1>1, <1>2 DEF Bubbles
<1>4. f \in Injection(Bubbles(r), Bubbles(s))
  BY <1>1, <1>3 DEF Injection, IsInjective
<1>5. Cardinality(Bubbles(r)) <= Cardinality(Bubbles(s))
  BY <1>4, BubblesFinite, FS_Injection
<1>6. ASSUME NEW i \in Bubbles(s), s[i].how = "cipher"
      PROVE  \E j \in Bubbles(r) : r[j] = s[i]
  <2>1. i \in Staying(s) /\ s[i].id = 0
    BY <1>6 DEF Staying, Bubbles
  <2>2. PICK j \in 1 .. Len(r) : at[j] = i
    BY <2>1, <1>1
  <2>3. r[j] = s[i] /\ j \in Bubbles(r)
    BY <2>1, <2>2, <1>1 DEF Bubbles
  <2> QED BY <2>3
<1>7. \A j \in 1 .. Len(r) : \E i \in 1 .. Len(s) : r[j] = s[i]
  BY <1>1, <1>2
<1> QED BY <1>5, <1>6, <1>7 DEF r

\* The first and the last of a list stay where they are.
LEMMA DedupEnds ==
  ASSUME NEW s \in Seq(Shown), s # <<>>
  PROVE  /\ s[1].id # 0 => Dedup(s) # <<>> /\ Dedup(s)[1] = s[1]
         /\ Len(s) \in Staying(s) => Dedup(s) # <<>> /\ Dedup(s)[Len(Dedup(s))] = s[Len(s)]
<1> DEFINE r == Dedup(s)
           at == InOrder(Staying(s))
<1>1. /\ \A i \in 1 .. Len(r) : at[i] \in Staying(s) /\ r[i] = s[at[i]]
      /\ \A k \in Staying(s) : \E i \in 1 .. Len(r) : at[i] = k
      /\ Rising(at, Len(r)) /\ Len(r) \in Nat /\ r \in Seq(Shown)
  BY DedupIs
<1> HIDE DEF r, at
<1>2. Staying(s) \subseteq 1 .. Len(s) /\ Len(s) \in Nat
  BY DEF Staying
<1>3. ASSUME s[1].id # 0 PROVE r # <<>> /\ r[1] = s[1]
  <2>1. 1 \in Staying(s)
    BY <1>3 DEF Staying
  <2>2. PICK i \in 1 .. Len(r) : at[i] = 1
    BY <2>1, <1>1
  <2>3. i = 1
    <3> SUFFICES ASSUME 1 < i PROVE FALSE
      OBVIOUS
    <3>1. 1 \in 1 .. Len(r) /\ at[1] < at[i]
      BY <1>1 DEF Rising
    <3>2. at[1] \in 1 .. Len(s)
      BY <3>1, <1>1, <1>2
    <3> QED BY <3>1, <3>2, <2>2
  <2> QED BY <2>2, <2>3, <1>1
<1>4. ASSUME Len(s) \in Staying(s) PROVE r # <<>> /\ r[Len(r)] = s[Len(s)]
  <2>1. PICK i \in 1 .. Len(r) : at[i] = Len(s)
    BY <1>4, <1>1
  <2>2. i = Len(r)
    <3> SUFFICES ASSUME i < Len(r) PROVE FALSE
      BY <1>1
    <3>1. Len(r) \in 1 .. Len(r) /\ at[i] < at[Len(r)]
      BY <1>1 DEF Rising
    <3>2. at[Len(r)] \in 1 .. Len(s)
      BY <3>1, <1>1, <1>2
    <3> QED BY <3>1, <3>2, <2>1, <1>2
  <2> QED BY <2>1, <2>2, <1>1
<1> QED BY <1>3, <1>4 DEF r

-----------------------------------------------------------------------------
(* Messages: the inductive invariant.                                      *)

Pending(ev, id) == InQueue(inbox, ev, id)
FromMe(id) == msgs[id].by = "me"

\* A page that shows another conversation lists nothing here.
ClosedEmpty == ~open => list = <<>> /\ load.kind # "initial"
LoadShape ==
  /\ load.at = "none" <=> load = NoLoad
  /\ load.kind = "none" <=> load = NoLoad
  /\ load.kind \in {"newer", "around"} => load.arg # 0
  /\ load.at # "read" => load.got = <<>>
  /\ Len(load.got) <= PageSize
  /\ \A i \in 1 .. Len(load.got) : load.got[i].id = load.got[1].id + i - 1

\* Whatever refers to a message refers to one that is stored.
Refer ==
  /\ unsaid \subseteq 1 .. Len(msgs)
  /\ \A i \in 1 .. Len(inbox) : inbox[i].id <= Len(msgs)
  /\ \A o \in opening : o.id <= Len(msgs)
  /\ \A i \in 1 .. Len(list) : list[i].id <= Len(msgs)
  /\ \A i \in 1 .. Len(load.got) : load.got[i].id <= Len(msgs)
  /\ load.arg <= Len(msgs)

\* Every text that was written is stored, on its way or refused, and in one place.
TextsCounted ==
  IsFiniteSet(emitted) /\ count = Len(msgs) + Cardinality(emitted) + refused
TextsApart ==
  /\ \A s \in emitted : s.text <= count
  /\ \A i \in 1 .. Len(msgs) : msgs[i].text <= count
  /\ \A s, p \in emitted : s.text = p.text => s = p
  /\ \A i, j \in 1 .. Len(msgs) : msgs[i].text = msgs[j].text => i = j
  /\ \A s \in emitted : \A i \in 1 .. Len(msgs) : s.text # msgs[i].text

\* The page hears of a message once.
AnnouncedOnce ==
  /\ OnceIn(inbox)
  /\ \A id \in unsaid : ~Pending("message", id)
  /\ \A o \in opening : o.id \notin unsaid /\ ~Pending("message", o.id)
  /\ \A o, p \in opening : o.id = p.id => o = p

Shaped ==
  /\ MessagesTypeOK /\ ClosedEmpty /\ LoadShape /\ Refer
  /\ TextsCounted /\ TextsApart /\ AnnouncedOnce /\ OnceListed(list)

LEMMA WaitingIs == \A id : id \in Waiting <=> Pending("message", id)
BY DEF Waiting, Pending, InQueue

LEMMA ComingIs ==
  \A id : id \in Coming <=> id \in unsaid \/ Pending("message", id) \/ (\E o \in opening : o.id = id)
BY WaitingIs DEF Coming

\* The bubble that an echo finds.
LEMMA MatchIs ==
  ASSUME NEW s \in Seq(Shown), NEW id
  PROVE  /\ Bubbles(s) # {} => Match(s, id) \in Bubbles(s) /\ Match(s, id) # 0
         /\ Bubbles(s) = {} => Match(s, id) = 0
         /\ \A i \in Bubbles(s) :
              s[i].how = "cipher" /\ s[i].says = msgs[id].text /\ msgs[id].how = "cipher" /\ msgs[id].by = "me"
                => s[Match(s, id)].how = "cipher" /\ s[Match(s, id)].says = msgs[id].text
<1> DEFINE same == {i \in Bubbles(s) : s[i].how = "cipher" /\ s[i].says = msgs[id].text
                                       /\ msgs[id].how = "cipher" /\ msgs[id].by = "me"}
<1>1. Bubbles(s) \in SUBSET (1 .. Len(s)) /\ Len(s) \in Nat
  BY DEF Bubbles
<1>2. ASSUME NEW S \in SUBSET (1 .. Len(s)), S # {} PROVE Min(S) \in S /\ Max(S) \in S
  <2>1. S \in SUBSET Nat
    BY <1>1
  <2>2. \E m \in S : \A j \in S : m >= j
    BY <1>1, <1>2, GreatestOf
  <2>3. \E m \in S : \A j \in S : m <= j
    BY <1>2, <2>1, LeastOf
  <2> QED BY <2>2, <2>3 DEF Min, Max
<1>3. same \in SUBSET Bubbles(s) /\ same \in SUBSET (1 .. Len(s))
  BY <1>1
<1>4. Match(s, id) = IF same # {} THEN Min(same) ELSE IF Bubbles(s) # {} THEN Max(Bubbles(s)) ELSE 0
  BY DEF Match
<1>5. ASSUME same # {} PROVE Match(s, id) \in same
  <2> HIDE DEF same
  <2> QED BY <1>2, <1>3, <1>4, <1>5
<1>6. ASSUME same = {}, Bubbles(s) # {} PROVE Match(s, id) \in Bubbles(s)
  <2> HIDE DEF same
  <2> QED BY <1>1, <1>2, <1>4, <1>6
<1>7. Bubbles(s) = {} => Match(s, id) = 0
  BY <1>3, <1>4
<1>8. 0 \notin Bubbles(s)
  BY <1>1
<1> QED BY <1>3, <1>5, <1>6, <1>7, <1>8

LEMMA EntryIs ==
  ASSUME Shaped, NEW i \in 1 .. Len(list), list[i].id # 0
  PROVE  Entry(list[i].id) = list[i] /\ list[i] \in Shown /\ list[i].id \in IdsOf(list)
<1>1. list[i] \in {list[k] : k \in 1 .. Len(list)}
  OBVIOUS
<1>2. \A e \in {list[k] : k \in 1 .. Len(list)} : e.id = list[i].id => e = list[i]
  BY DEF Shaped, OnceListed
<1>3. list[i] \in Shown
  BY DEF Shaped, MessagesTypeOK
<1> QED BY <1>1, <1>2, <1>3 DEF Entry, IdsOf

\* A message is marked where it is listed, and nothing else changes.
LEMMA MarkIs ==
  ASSUME Shaped, NEW id \in IdsOf(list), NEW f \in Shown, f.id = id, f.says = Entry(id).says, f.how = Entry(id).how
  PROVE  /\ Mark(id, f) \in Seq(Shown) /\ Alike(Mark(id, f), list)
         /\ \A i \in 1 .. Len(list) : Mark(id, f)[i] = IF list[i].id = id THEN f ELSE list[i]
<1>1. list \in Seq(Shown) /\ Len(list) \in Nat /\ id # 0
  BY DEF Shaped, MessagesTypeOK, IdsOf
<1>2. Mark(id, f) \in Seq(Shown) /\ Len(Mark(id, f)) = Len(list)
  BY <1>1 DEF Mark
<1>3. \A i \in 1 .. Len(list) : Mark(id, f)[i] = IF list[i].id = id THEN f ELSE list[i]
  BY <1>1 DEF Mark
<1>4. \A i \in 1 .. Len(list) : list[i].id = id => Entry(id) = list[i]
  BY <1>1, EntryIs
<1> HIDE DEF Mark
<1> QED BY <1>2, <1>3, <1>4 DEF Alike

LEMMA GoneIs ==
  ASSUME Shaped, NEW id \in IdsOf(list)
  PROVE  LET f == [Entry(id) EXCEPT !.gone = TRUE]
             g == [Entry(id) EXCEPT !.edited = TRUE] IN
         /\ Entry(id) \in Shown /\ Entry(id).id = id
         /\ Mark(id, f) \in Seq(Shown) /\ Alike(Mark(id, f), list)
         /\ Mark(id, g) \in Seq(Shown) /\ Alike(Mark(id, g), list)
         /\ \A i \in 1 .. Len(list) :
              /\ Mark(id, f)[i].gone = (list[i].gone \/ list[i].id = id)
              /\ Mark(id, f)[i].edited = list[i].edited
              /\ Mark(id, g)[i].gone = list[i].gone
              /\ Mark(id, g)[i].edited = (list[i].edited \/ list[i].id = id)
<1> DEFINE f == [Entry(id) EXCEPT !.gone = TRUE]
           g == [Entry(id) EXCEPT !.edited = TRUE]
<1>1. PICK k \in 1 .. Len(list) : list[k].id = id /\ id # 0
  BY DEF IdsOf
<1>2. Entry(id) = list[k] /\ list[k] \in Shown /\ Entry(id).id = id
  BY <1>1, EntryIs
<1>3. /\ f \in Shown /\ f.id = id /\ f.says = Entry(id).says /\ f.how = Entry(id).how
      /\ f.gone = TRUE /\ f.edited = Entry(id).edited
      /\ g \in Shown /\ g.id = id /\ g.says = Entry(id).says /\ g.how = Entry(id).how
      /\ g.edited = TRUE /\ g.gone = Entry(id).gone
  BY <1>2 DEF Shown
<1>4. \A i \in 1 .. Len(list) :
        list[i] \in Shown /\ list[i].gone \in BOOLEAN /\ list[i].edited \in BOOLEAN /\ (list[i].id = id => list[i] = Entry(id))
  <2>1. \A i \in 1 .. Len(list) : list[i] \in Shown /\ (list[i].id = id => list[i] = Entry(id))
    BY <1>1, EntryIs DEF Shaped, MessagesTypeOK
  <2> QED BY <2>1 DEF Shown
<1> HIDE DEF f, g
<1>5. /\ Mark(id, f) \in Seq(Shown) /\ Alike(Mark(id, f), list)
      /\ \A i \in 1 .. Len(list) : Mark(id, f)[i] = IF list[i].id = id THEN f ELSE list[i]
  BY <1>3, MarkIs
<1>6. /\ Mark(id, g) \in Seq(Shown) /\ Alike(Mark(id, g), list)
      /\ \A i \in 1 .. Len(list) : Mark(id, g)[i] = IF list[i].id = id THEN g ELSE list[i]
  BY <1>3, MarkIs
<1>7. \A i \in 1 .. Len(list) :
              /\ Mark(id, f)[i].gone = (list[i].gone \/ list[i].id = id)
              /\ Mark(id, f)[i].edited = list[i].edited
              /\ Mark(id, g)[i].gone = list[i].gone
              /\ Mark(id, g)[i].edited = (list[i].edited \/ list[i].id = id)
  <2> TAKE i \in 1 .. Len(list)
  <2>1. CASE list[i].id = id
    BY <2>1, <1>3, <1>4, <1>5, <1>6
  <2>2. CASE list[i].id # id
    BY <2>2, <1>4, <1>5, <1>6
  <2> QED BY <2>1, <2>2
<1> QED BY <1>2, <1>5, <1>6, <1>7 DEF f, g

-----------------------------------------------------------------------------
(* Messages: shapes and numbers.                                           *)

LEMMA ShapeTypes ==
  ASSUME Shaped
  PROVE  /\ msgs \in Seq(Stored) /\ Len(msgs) \in Nat /\ Len(msgs) <= MaxWritten /\ MaxWritten \in Nat
         /\ inbox \in Seq(Events) /\ list \in Seq(Shown) /\ Len(list) \in Nat
         /\ load \in Requests /\ load.got \in Seq(Gots) /\ load.arg \in Nat
         /\ count \in Nat /\ count <= MaxWritten /\ refused \in Nat
         /\ \A i \in 1 .. Len(msgs) :
              msgs[i] \in Stored /\ i \in Ids /\ msgs[i].text \in Ids /\ msgs[i].text \in Nat
         /\ \A i \in 1 .. Len(list) : list[i] \in Shown /\ list[i].id \in Nat
<1>1. /\ msgs \in Seq(Stored) /\ Len(msgs) \in Nat /\ Len(msgs) <= MaxWritten /\ MaxWritten \in Nat
      /\ inbox \in Seq(Events) /\ list \in Seq(Shown) /\ Len(list) \in Nat
      /\ load \in Requests /\ count \in Nat /\ count <= MaxWritten /\ refused \in Nat
  BY MessagesConstants DEF Shaped, MessagesTypeOK, Events
<1>2. load.got \in Seq(Gots) /\ load.arg \in Nat
  BY <1>1 DEF Requests, Gots
<1>3. \A i \in 1 .. Len(msgs) : msgs[i] \in Stored /\ i \in Ids
  BY <1>1 DEF Ids
<1>4. \A i \in 1 .. Len(msgs) : msgs[i].text \in Ids /\ msgs[i].text \in Nat
  BY <1>1, <1>3 DEF Stored, Ids
<1>5. \A i \in 1 .. Len(list) : list[i] \in Shown
  BY <1>1
<1>6. \A i \in 1 .. Len(list) : list[i].id \in Nat
  BY <1>5 DEF Shown
<1> QED BY <1>1, <1>2, <1>3, <1>4, <1>5, <1>6

LEMMA StepTells ==
  ASSUME Shaped, NEW ev \in {"deleted", "edited"}, NEW id \in 1 .. Len(msgs), Tell(ev, id),
         Len(msgs') = Len(msgs), unsaid' = unsaid, opening' = opening
  PROVE  /\ inbox' \in Seq(Events) /\ AnnouncedOnce'
         /\ \A i \in 1 .. Len(inbox') : inbox'[i].id <= Len(msgs')
         /\ \A e, i : Pending(e, i)' <=> Pending(e, i) \/ (e = ev /\ i = id)
         /\ Coming' = Coming
<1> DEFINE m == [ev |-> ev, id |-> id]
<1>1. m \in Events /\ inbox \in Seq(Events) /\ inbox' = Append(inbox, m) /\ m.ev # "message" /\ Len(inbox) \in Nat
  <2>1. id \in Ids /\ inbox \in Seq(Events) /\ Len(inbox) \in Nat
    BY ShapeTypes
  <2>2. m \in Events /\ m.ev # "message"
    BY <2>1 DEF Events
  <2>3. inbox' = Append(inbox, m)
    BY DEF Tell
  <2> QED BY <2>1, <2>2, <2>3
<1>2. /\ \A e, i : InQueue(Append(inbox, m), e, i) <=> InQueue(inbox, e, i) \/ (m.ev = e /\ m.id = i)
      /\ OnceIn(inbox) => OnceIn(Append(inbox, m))
      /\ Append(inbox, m) \in Seq(Events)
  BY <1>1, QueueAppend
<1>3. \A e, i : Pending(e, i)' <=> Pending(e, i) \/ (e = ev /\ i = id)
  BY <1>1, <1>2 DEF Pending
<1>4. AnnouncedOnce'
  BY <1>1, <1>2, <1>3 DEF Shaped, AnnouncedOnce
<1>5. Coming' = Coming
  <2>1. \A i : i \in Waiting' <=> i \in Waiting
    <3>1. \A i : i \in Waiting' <=> Pending("message", i)'
      BY DEF Waiting, Pending, InQueue
    <3> QED BY <3>1, <1>3, WaitingIs
  <2> QED BY <2>1 DEF Coming
<1>6. \A i \in 1 .. Len(inbox') : inbox'[i].id <= Len(msgs')
  <2>1. \A i \in 1 .. Len(inbox') : (i \in 1 .. Len(inbox) /\ inbox'[i] = inbox[i]) \/ inbox'[i] = m
    BY <1>1
  <2> QED BY <2>1, ShapeTypes DEF Shaped, Refer
<1> QED BY <1>1, <1>2, <1>3, <1>4, <1>5, <1>6

LEMMA StepPops ==
  ASSUME Shaped, inbox # <<>>, Pop
  PROVE  /\ inbox' \in Seq(Events) /\ OnceIn(inbox')
         /\ Head(inbox).id \in 1 .. Len(msgs) /\ Head(inbox) \in Events
         /\ \A i \in 1 .. Len(inbox') : inbox'[i].id <= Len(msgs)
         /\ \A e, i : Pending(e, i) <=> Pending(e, i)' \/ (e = Head(inbox).ev /\ i = Head(inbox).id)
         /\ Head(inbox).ev = "message" => \A i : i = Head(inbox).id => ~Pending("message", i)'
<1>1. inbox \in Seq(Events) /\ inbox' = Tail(inbox)
  BY ShapeTypes DEF Pop
<1>2. /\ \A e, i : InQueue(inbox, e, i) <=>
             InQueue(Tail(inbox), e, i) \/ (Head(inbox).ev = e /\ Head(inbox).id = i)
      /\ OnceIn(inbox) => OnceIn(Tail(inbox))
           /\ (Head(inbox).ev = "message" => ~InQueue(Tail(inbox), "message", Head(inbox).id))
      /\ Tail(inbox) \in Seq(Events) /\ Head(inbox) \in Events
  BY <1>1, QueueTail
<1>3. OnceIn(inbox)
  BY DEF Shaped, AnnouncedOnce
<1>4. /\ \A i \in 1 .. Len(inbox') : i + 1 \in 1 .. Len(inbox) /\ inbox'[i] = inbox[i + 1]
      /\ 1 \in 1 .. Len(inbox) /\ Head(inbox) = inbox[1]
  BY <1>1
<1>5. \A i \in 1 .. Len(inbox) : inbox[i].id <= Len(msgs)
  BY DEF Shaped, Refer
<1>6. \A i \in 1 .. Len(inbox') : inbox'[i].id <= Len(msgs)
  BY <1>4, <1>5
<1>7. Head(inbox).id \in 1 .. Len(msgs)
  BY <1>2, <1>4, <1>5, ShapeTypes DEF Events, Ids
<1>8. \A e, i : Pending(e, i) <=> Pending(e, i)' \/ (e = Head(inbox).ev /\ i = Head(inbox).id)
  BY <1>1, <1>2 DEF Pending
<1>9. Head(inbox).ev = "message" => \A i : i = Head(inbox).id => ~Pending("message", i)'
  BY <1>1, <1>2, <1>3 DEF Pending
<1>10. inbox' \in Seq(Events) /\ OnceIn(inbox') /\ Head(inbox) \in Events
  BY <1>1, <1>2, <1>3
<1> QED BY Zenon, <1>6, <1>7, <1>8, <1>9, <1>10

\* An event that is no message leaves what is to come.
LEMMA StepHears ==
  ASSUME Shaped, inbox # <<>>, Pop, Head(inbox).ev # "message", unsaid' = unsaid, opening' = opening
  PROVE  AnnouncedOnce' /\ Coming' = Coming
<1>1. /\ OnceIn(inbox')
      /\ \A e, i : Pending(e, i) <=> Pending(e, i)' \/ (e = Head(inbox).ev /\ i = Head(inbox).id)
  BY StepPops
<1>2. \A i : Pending("message", i)' <=> Pending("message", i)
  BY <1>1
<1>3. AnnouncedOnce'
  BY <1>1, <1>2 DEF Shaped, AnnouncedOnce
<1>4. \A i : i \in Waiting' <=> Pending("message", i)'
  BY DEF Waiting, Pending, InQueue
<1>5. Waiting' = Waiting
  BY <1>2, <1>4, WaitingIs
<1> QED BY <1>3, <1>5 DEF Coming

MsgsAlike ==
  /\ msgs' \in Seq(Stored) /\ Len(msgs') = Len(msgs)
  /\ \A j \in 1 .. Len(msgs) : msgs'[j].text = msgs[j].text /\ msgs'[j].by = msgs[j].by /\ msgs'[j].how = msgs[j].how

LEMMA MsgDeleted ==
  ASSUME Shaped, NEW id \in 1 .. Len(msgs), msgs' = [msgs EXCEPT ![id].gone = TRUE]
  PROVE  /\ MsgsAlike
         /\ \A j \in 1 .. Len(msgs) : (msgs'[j].gone <=> msgs[j].gone \/ j = id) /\ (msgs'[j].edited <=> msgs[j].edited)
<1> DEFINE m == [msgs[id] EXCEPT !.gone = TRUE]
<1>1. msgs \in Seq(Stored) /\ msgs[id] \in Stored
  BY ShapeTypes
<1>2. msgs' = [msgs EXCEPT ![id] = m]
  OBVIOUS
<1>3. /\ m \in Stored /\ m.gone = TRUE /\ m.edited = msgs[id].edited
      /\ m.text = msgs[id].text /\ m.by = msgs[id].by /\ m.how = msgs[id].how
  BY <1>1 DEF Stored
<1>4. msgs' \in Seq(Stored) /\ Len(msgs') = Len(msgs)
  BY <1>1, <1>2, <1>3
<1>5. \A j \in 1 .. Len(msgs) : msgs'[j] = IF j = id THEN m ELSE msgs[j]
  BY <1>1, <1>2
<1> HIDE DEF m
<1>6. MsgsAlike
  BY <1>3, <1>4, <1>5 DEF MsgsAlike
<1>7. ASSUME NEW j \in 1 .. Len(msgs)
      PROVE  (msgs'[j].gone <=> msgs[j].gone \/ j = id) /\ (msgs'[j].edited <=> msgs[j].edited)
  <2>1. CASE j = id
    BY <2>1, <1>3, <1>5
  <2>2. CASE j # id
    BY <2>2, <1>5
  <2> QED BY <2>1, <2>2
<1> QED BY <1>6, <1>7

LEMMA MsgEdited ==
  ASSUME Shaped, NEW id \in 1 .. Len(msgs), msgs' = [msgs EXCEPT ![id].edited = TRUE]
  PROVE  /\ MsgsAlike
         /\ \A j \in 1 .. Len(msgs) : (msgs'[j].edited <=> msgs[j].edited \/ j = id) /\ (msgs'[j].gone <=> msgs[j].gone)
<1> DEFINE m == [msgs[id] EXCEPT !.edited = TRUE]
<1>1. msgs \in Seq(Stored) /\ msgs[id] \in Stored
  BY ShapeTypes
<1>2. msgs' = [msgs EXCEPT ![id] = m]
  OBVIOUS
<1>3. /\ m \in Stored /\ m.edited = TRUE /\ m.gone = msgs[id].gone
      /\ m.text = msgs[id].text /\ m.by = msgs[id].by /\ m.how = msgs[id].how
  BY <1>1 DEF Stored
<1>4. msgs' \in Seq(Stored) /\ Len(msgs') = Len(msgs)
  BY <1>1, <1>2, <1>3
<1>5. \A j \in 1 .. Len(msgs) : msgs'[j] = IF j = id THEN m ELSE msgs[j]
  BY <1>1, <1>2
<1> HIDE DEF m
<1>6. MsgsAlike
  BY <1>3, <1>4, <1>5 DEF MsgsAlike
<1>7. ASSUME NEW j \in 1 .. Len(msgs)
      PROVE  (msgs'[j].edited <=> msgs[j].edited \/ j = id) /\ (msgs'[j].gone <=> msgs[j].gone)
  <2>1. CASE j = id
    BY <2>1, <1>3, <1>5
  <2>2. CASE j # id
    BY <2>2, <1>5
  <2> QED BY <2>1, <2>2
<1> QED BY <1>6, <1>7

LEMMA TextsSame ==
  ASSUME Shaped, MsgsAlike, UNCHANGED <<count, emitted, refused>>
  PROVE  TextsCounted' /\ TextsApart'
BY DEF Shaped, MsgsAlike, TextsCounted, TextsApart

\* A message is stored: its number is new, and it is to be announced.
Stores(words, by, how) ==
  /\ msgs' \in Seq(Stored) /\ Len(msgs') = Len(msgs) + 1
  /\ \A j \in 1 .. Len(msgs) : msgs'[j] = msgs[j]
  /\ msgs'[Len(msgs) + 1] = [text |-> words, by |-> by, how |-> how, gone |-> FALSE, edited |-> FALSE]
  /\ unsaid' = unsaid \cup {Len(msgs) + 1}

LEMMA StoreIs ==
  ASSUME Shaped, NEW words \in Ids, NEW by \in Senders, NEW how \in Ways, Store(words, by, how)
  PROVE  Stores(words, by, how)
<1> DEFINE m == [text |-> words, by |-> by, how |-> how, gone |-> FALSE, edited |-> FALSE]
<1>1. m \in Stored
  BY DEF Stored
<1>2. msgs' = Append(msgs, m) /\ unsaid' = unsaid \cup {Len(msgs) + 1}
  BY DEF Store
<1>3. msgs \in Seq(Stored)
  BY ShapeTypes
<1> HIDE DEF m
<1>4. /\ msgs' \in Seq(Stored) /\ Len(msgs') = Len(msgs) + 1 /\ msgs'[Len(msgs) + 1] = m
      /\ \A j \in 1 .. Len(msgs) : msgs'[j] = msgs[j]
  BY <1>1, <1>2, <1>3
<1> QED BY <1>2, <1>4 DEF Stores, m

LEMMA StoresKeeps ==
  ASSUME Shaped, NEW words, NEW by, NEW how, Stores(words, by, how),
         UNCHANGED <<inbox, opening, open, list, older, newer, load>>
  PROVE  /\ Refer' /\ AnnouncedOnce' /\ ClosedEmpty' /\ LoadShape' /\ OnceListed(list')
         /\ Coming' = Coming \cup {Len(msgs) + 1} /\ Len(msgs) + 1 \notin Coming
         /\ \A e, i : Pending(e, i)' <=> Pending(e, i)
<1>1. \A e, i : Pending(e, i)' <=> Pending(e, i)
  BY DEF Pending
<1>2. \A e, i : Pending(e, i) => i <= Len(msgs)
  BY DEF Pending, InQueue, Shaped, Refer
<1>3. Len(msgs) \in Nat /\ unsaid \subseteq 1 .. Len(msgs)
  BY ShapeTypes DEF Shaped, Refer
<1>4. Refer'
  <2>1. \A i \in Nat : i <= Len(msgs) => i <= Len(msgs')
    BY <1>3 DEF Stores
  <2>2. /\ \A i \in 1 .. Len(inbox) : inbox[i].id \in Nat
        /\ \A o \in opening : o.id \in Nat
        /\ \A i \in 1 .. Len(load.got) : load.got[i].id \in Nat
    <3>1. \A i \in 1 .. Len(inbox) : inbox[i] \in Events
      BY ShapeTypes
    <3>2. \A i \in 1 .. Len(load.got) : load.got[i] \in Gots
      BY ShapeTypes
    <3> QED BY <3>1, <3>2 DEF Events, Gots, Ids, Shaped, MessagesTypeOK
  <2>3. unsaid' \subseteq 1 .. Len(msgs')
    <3>1. unsaid' = unsaid \cup {Len(msgs) + 1} /\ Len(msgs') = Len(msgs) + 1
      BY DEF Stores
    <3>2. ASSUME NEW i \in unsaid' PROVE i \in 1 .. Len(msgs) + 1
      BY <3>1, <1>3
    <3> QED BY <3>1, <3>2
  <2> QED BY <2>1, <2>2, <2>3, ShapeTypes DEF Shaped, Refer
<1>5. \A o \in opening : o.id # Len(msgs) + 1
  BY <1>3 DEF Shaped, Refer
<1>6. ~Pending("message", Len(msgs) + 1)
  BY <1>2, <1>3
<1>7. Len(msgs) + 1 \notin unsaid
  BY <1>3
<1>8. AnnouncedOnce'
  BY <1>1, <1>5, <1>6 DEF AnnouncedOnce, Shaped, Stores
<1>9. Coming' = Coming \cup {Len(msgs) + 1} /\ Len(msgs) + 1 \notin Coming
  <2>1. Waiting' = Waiting
    BY DEF Waiting
  <2>2. Coming' = Coming \cup {Len(msgs) + 1}
    BY <2>1 DEF Coming, Stores
  <2> QED BY <2>2, <1>5, <1>6, <1>7, ComingIs
<1>10. ClosedEmpty' /\ LoadShape' /\ OnceListed(list')
  BY DEF Shaped, ClosedEmpty, LoadShape
<1> QED BY <1>1, <1>4, <1>8, <1>9, <1>10

LEMMA ShapeStarts == MessagesInit => Shaped
<1> SUFFICES ASSUME MessagesInit PROVE Shaped
  OBVIOUS
<1>1. Earlier \in Nat /\ MaxWritten \in Nat /\ Earlier <= MaxWritten /\ MaxOps \in Nat
  BY MessagesConstants
<1>2. msgs = [i \in 1 .. Earlier |-> [text |-> i, by |-> "peer", how |-> "cipher",
                                    gone |-> FALSE, edited |-> FALSE]]
  BY DEF MessagesInit
<1>3. msgs \in Seq(Stored) /\ Len(msgs) = Earlier /\ \A i \in 1 .. Earlier : msgs[i].text = i
  <2>1. \A i \in 1 .. Earlier : i \in Ids
    BY <1>1 DEF Ids
  <2>2. \A i \in 1 .. Earlier :
          [text |-> i, by |-> "peer", how |-> "cipher", gone |-> FALSE, edited |-> FALSE] \in Stored
    BY <2>1 DEF Stored, Senders, Ways
  <2> QED BY <1>1, <1>2, <2>2
<1>4. MessagesTypeOK
  <2>1. load \in Requests
    <3>1. load = [kind |-> "none", at |-> "none", arg |-> 0, got |-> <<>>]
      BY DEF MessagesInit, NoLoad
    <3> QED BY <3>1, <1>1 DEF Requests
  <2>2. cache \in [Ids -> 0 .. MaxWritten]
    BY <1>1 DEF MessagesInit
  <2>3. count \in 0 .. MaxWritten /\ refused \in 0 .. MaxWritten /\ ops \in 0 .. MaxOps
    BY <1>1 DEF MessagesInit
  <2>4. /\ inbox = <<>> /\ list = <<>> /\ emitted = {} /\ unsaid = {} /\ opening = {} /\ raced = {}
        /\ open = FALSE /\ older = TRUE /\ newer = FALSE /\ crossed = FALSE /\ dropped = FALSE /\ leapt = FALSE
    BY DEF MessagesInit
  <2>5. inbox \in Seq([ev : {"message", "deleted", "edited"}, id : Ids]) /\ list \in Seq(Shown)
    BY <2>4
  <2>6. Len(msgs) <= MaxWritten
    BY <1>1, <1>3
  <2> QED BY <1>3, <2>1, <2>2, <2>3, <2>4, <2>5, <2>6 DEF MessagesTypeOK
<1>5. ClosedEmpty /\ LoadShape /\ Refer /\ AnnouncedOnce /\ OnceListed(list)
  <2>1. PageSize \in Nat
    BY MessagesConstants
  <2>2. load = NoLoad /\ load.got = <<>> /\ load.kind = "none" /\ load.at = "none" /\ load.arg = 0
    BY DEF MessagesInit, NoLoad
  <2>3. LoadShape
    BY <2>1, <2>2 DEF LoadShape
  <2> QED BY <1>1, <2>2, <2>3 DEF MessagesInit, ClosedEmpty, Refer, AnnouncedOnce, OnceIn, OnceListed
<1>6. TextsCounted /\ TextsApart
  BY <1>1, <1>3, FS_EmptySet DEF MessagesInit, TextsCounted, TextsApart
<1> QED BY <1>4, <1>5, <1>6 DEF Shaped

LEMMA SendShape ==
  ASSUME Shaped, NEW how \in Ways, Send(how)
  PROVE  Shaped'
<1> USE DEF Send
<1>1. count \in Nat /\ count < MaxWritten /\ MaxWritten \in Nat /\ count + 1 \in Ids /\ Len(msgs) \in Nat
  BY ShapeTypes DEF Ids
<1>2. Bubble(count + 1, how) \in Shown /\ Bubble(count + 1, how).id = 0
  BY <1>1 DEF Bubble, Shown, Ids, Ways
<1>3. list \in Seq(Shown) /\ OnceListed(list) /\ 0 \notin IdsOf(list)
  BY ShapeTypes DEF Shaped, IdsOf
<1>4. /\ list' \in Seq(Shown) /\ OnceListed(list')
      /\ \A i \in 1 .. Len(list') : list'[i].id <= Len(msgs)
  <2>1. CASE how = "forward"
    BY <2>1, <1>3 DEF Shaped, Refer
  <2>2. CASE how # "forward"
    <3> DEFINE e == Bubble(count + 1, how)
    <3>1. list' = Append(list, e) /\ e \in Shown /\ e.id = 0
      BY <2>2, <1>2
    <3> HIDE DEF e
    <3>2. /\ list' \in Seq(Shown) /\ OnceListed(list') /\ Len(list') = Len(list) + 1 /\ Len(list) \in Nat
          /\ \A i \in 1 .. Len(list) : list'[i] = list[i]
          /\ list'[Len(list) + 1] = e
      BY <3>1, <1>3, ListAppend
    <3>3. \A i \in 1 .. Len(list') : i \in 1 .. Len(list) \/ i = Len(list) + 1
      BY <3>2
    <3> QED BY <3>1, <3>2, <3>3, <1>1 DEF Shaped, Refer
  <2> QED BY <2>1, <2>2
<1>5. MessagesTypeOK'
  <2>1. [text |-> count + 1, how |-> how] \in [text : Ids, how : Ways]
    BY <1>1
  <2> QED BY <2>1, <1>1, <1>4 DEF Shaped, MessagesTypeOK
<1>6. TextsCounted' /\ TextsApart'
  <2> DEFINE s == [text |-> count + 1, how |-> how]
  <2>1. s.text = count + 1 /\ \A p \in emitted : p.text <= count /\ p.text \in Nat
    BY DEF Shaped, MessagesTypeOK, TextsApart, Ids
  <2>2. s \notin emitted /\ \A p \in emitted : p.text # count + 1
    BY <2>1, <1>1
  <2>3. IsFiniteSet(emitted') /\ Cardinality(emitted') = Cardinality(emitted) + 1 /\ Cardinality(emitted) \in Nat
    BY <2>2, FS_AddElement, FS_CardinalityType DEF Shaped, TextsCounted
  <2>4. TextsCounted'
    BY <2>3, ShapeTypes DEF Shaped, TextsCounted
  <2>5. \A i \in 1 .. Len(msgs) : msgs[i].text <= count /\ msgs[i].text \in Nat
    BY ShapeTypes DEF Shaped, TextsApart
  <2>6. \A p \in emitted' : p \in emitted \/ p = s
    OBVIOUS
  <2> HIDE DEF s
  <2>7. TextsApart'
    BY <2>1, <2>2, <2>5, <2>6, <1>1 DEF Shaped, TextsApart
  <2> QED BY <2>4, <2>7
<1>7. AnnouncedOnce' /\ ClosedEmpty' /\ LoadShape'
  BY DEF Shaped, AnnouncedOnce, ClosedEmpty, LoadShape, Pending
<1>8. Refer'
  BY <1>4 DEF Shaped, Refer
<1> QED BY <1>4, <1>5, <1>6, <1>7, <1>8 DEF Shaped

LEMMA SaveShape ==
  ASSUME Shaped, Save
  PROVE  Shaped'
<1>1. PICK s \in emitted : /\ Store(s.text, "me", s.how) /\ emitted' = emitted \ {s}
                           /\ UNCHANGED <<count, inbox, opening, screen, cache, ops, history>>
  BY DEF Save
<1>2. s.text \in Ids /\ s.how \in Ways /\ s.text <= count
  BY DEF Shaped, MessagesTypeOK, TextsApart
<1>3. Stores(s.text, "me", s.how)
  BY <1>1, <1>2, StoreIs DEF Senders
<1>4. /\ Refer' /\ AnnouncedOnce' /\ ClosedEmpty' /\ LoadShape' /\ OnceListed(list')
  BY <1>1, <1>3, StoresKeeps DEF screen
<1>5. IsFiniteSet(emitted') /\ Cardinality(emitted') = Cardinality(emitted) - 1 /\ Cardinality(emitted') \in Nat
      /\ Cardinality(emitted) \in Nat
  BY <1>1, FS_RemoveElement, FS_CardinalityType DEF Shaped, TextsCounted
<1>6. Len(msgs) \in Nat /\ refused \in Nat /\ count \in Nat /\ count <= MaxWritten /\ MaxWritten \in Nat
      /\ Len(msgs') = Len(msgs) + 1
  BY <1>3, ShapeTypes DEF Stores
<1>7. TextsCounted' /\ Len(msgs') <= MaxWritten
  BY <1>1, <1>5, <1>6 DEF Shaped, TextsCounted, history
<1>8. TextsApart'
  <2>1. \A i \in 1 .. Len(msgs') : (i \in 1 .. Len(msgs) /\ msgs'[i] = msgs[i]) \/ (i = Len(msgs) + 1 /\ msgs'[i].text = s.text)
    BY <1>3, <1>6 DEF Stores
  <2>2. \A p \in emitted' : p \in emitted /\ p.text # s.text
    BY <1>1 DEF Shaped, TextsApart
  <2>3. count' = count /\ \A i \in 1 .. Len(msgs) : msgs[i].text # s.text
    BY <1>1 DEF Shaped, TextsApart
  <2> QED BY <2>1, <2>2, <2>3, <1>2 DEF Shaped, TextsApart
<1>9. MessagesTypeOK'
  <2>1. unsaid' \in SUBSET Ids
    BY <1>3, <1>4, <1>6, <1>7 DEF Refer, Ids
  <2> QED BY <2>1, <1>1, <1>3, <1>7 DEF Shaped, MessagesTypeOK, Stores, screen, history
<1> QED BY <1>4, <1>7, <1>8, <1>9 DEF Shaped

LEMMA SaveOtherShape ==
  ASSUME Shaped, NEW by \in {"twin", "peer"}, SaveOther(by)
  PROVE  Shaped'
<1>1. /\ count < MaxWritten /\ count' = count + 1 /\ Store(count + 1, by, "cipher")
      /\ UNCHANGED <<emitted, inbox, opening, screen, cache, ops, history>>
  BY DEF SaveOther
<1>2. count + 1 \in Ids /\ count \in Nat /\ MaxWritten \in Nat
  BY <1>1, ShapeTypes DEF Ids
<1>3. Stores(count + 1, by, "cipher")
  BY <1>1, <1>2, StoreIs DEF Senders, Ways
<1>4. /\ Refer' /\ AnnouncedOnce' /\ ClosedEmpty' /\ LoadShape' /\ OnceListed(list')
  BY <1>1, <1>3, StoresKeeps DEF screen
<1>6. Len(msgs) \in Nat /\ refused \in Nat /\ Len(msgs') = Len(msgs) + 1 /\ Cardinality(emitted) \in Nat
  BY <1>3, ShapeTypes, FS_CardinalityType DEF Stores, Shaped, TextsCounted
<1>7. TextsCounted' /\ Len(msgs') <= MaxWritten
  BY <1>1, <1>2, <1>6 DEF Shaped, TextsCounted, history
<1>8. TextsApart'
  <2>1. \A i \in 1 .. Len(msgs') :
          (i \in 1 .. Len(msgs) /\ msgs'[i] = msgs[i]) \/ (i = Len(msgs) + 1 /\ msgs'[i].text = count + 1)
    BY <1>3, <1>6 DEF Stores
  <2>2. \A p \in emitted : p.text <= count /\ p.text \in Nat
    BY DEF Shaped, TextsApart, MessagesTypeOK, Ids
  <2>3. \A i \in 1 .. Len(msgs) : msgs[i].text <= count /\ msgs[i].text \in Nat
    BY ShapeTypes DEF Shaped, TextsApart
  <2>4. emitted' = emitted /\ count' = count + 1
    BY <1>1
  <2>5. /\ \A p \in emitted' : p.text <= count'
        /\ \A i \in 1 .. Len(msgs') : msgs'[i].text <= count'
    BY <2>1, <2>2, <2>3, <2>4, <1>2
  <2>6. \A p, q \in emitted' : p.text = q.text => p = q
    BY <2>4 DEF Shaped, TextsApart
  <2>7. ASSUME NEW i \in 1 .. Len(msgs'), NEW j \in 1 .. Len(msgs'), msgs'[i].text = msgs'[j].text PROVE i = j
    <3>1. CASE i \in 1 .. Len(msgs) /\ j \in 1 .. Len(msgs)
      BY <3>1, <2>7, <1>3 DEF Stores, Shaped, TextsApart
    <3>2. CASE i \in 1 .. Len(msgs) /\ j = Len(msgs) + 1
      BY <3>2, <2>7, <2>1, <2>3, <1>2, <1>3, <1>6 DEF Stores
    <3>3. CASE j \in 1 .. Len(msgs) /\ i = Len(msgs) + 1
      BY <3>3, <2>7, <2>1, <2>3, <1>2, <1>3, <1>6 DEF Stores
    <3> QED BY <3>1, <3>2, <3>3, <2>1, <2>7
  <2>8. ASSUME NEW p \in emitted', NEW i \in 1 .. Len(msgs') PROVE p.text # msgs'[i].text
    <3>1. CASE i \in 1 .. Len(msgs) /\ msgs'[i] = msgs[i]
      BY <3>1, <2>4 DEF Shaped, TextsApart
    <3>2. CASE msgs'[i].text = count + 1
      BY <3>2, <2>2, <2>4, <1>2
    <3> QED BY <3>1, <3>2, <2>1
  <2> QED BY <2>5, <2>6, <2>7, <2>8 DEF TextsApart
<1>9. MessagesTypeOK'
  <2>1. unsaid' \in SUBSET Ids
    BY <1>2, <1>3, <1>4, <1>6, <1>7 DEF Refer, Ids
  <2> QED BY <2>1, <1>1, <1>2, <1>3, <1>7 DEF Shaped, MessagesTypeOK, Stores, screen, history
<1> QED BY <1>4, <1>7, <1>8, <1>9 DEF Shaped

LEMMA RefuseShape ==
  ASSUME Shaped, Refuse
  PROVE  Shaped'
<1>1. PICK s \in emitted :
        /\ emitted' = emitted \ {s} /\ refused' = refused + 1
        /\ UNCHANGED <<msgs, count, unsaid, inbox, opening, screen, cache, ops, dropped, crossed, raced, leapt>>
  BY DEF Refuse
<1>2. IsFiniteSet(emitted') /\ Cardinality(emitted') = Cardinality(emitted) - 1 /\ Cardinality(emitted') \in Nat
      /\ Cardinality(emitted) \in Nat
  BY <1>1, FS_RemoveElement, FS_CardinalityType DEF Shaped, TextsCounted
<1>3. Len(msgs) \in Nat /\ refused \in Nat /\ count \in Nat /\ count <= MaxWritten /\ MaxWritten \in Nat
  BY ShapeTypes
<1>4. TextsCounted' /\ refused' \in 0 .. MaxWritten
  BY <1>1, <1>2, <1>3 DEF Shaped, TextsCounted
<1>5. TextsApart'
  BY <1>1 DEF Shaped, TextsApart
<1>6. MessagesTypeOK'
  BY <1>1, <1>4 DEF Shaped, MessagesTypeOK, screen
<1>7. ClosedEmpty' /\ LoadShape' /\ Refer' /\ AnnouncedOnce' /\ OnceListed(list')
  BY <1>1 DEF Shaped, ClosedEmpty, LoadShape, Refer, AnnouncedOnce, Pending, screen
<1> QED BY <1>4, <1>5, <1>6, <1>7 DEF Shaped

LEMMA AnnounceIs ==
  ASSUME Shaped, NEW id \in unsaid, unsaid' = unsaid \ {id}, Tell("message", id), opening' = opening
  PROVE  /\ inbox' \in Seq(Events) /\ AnnouncedOnce' /\ Coming' = Coming
         /\ \A i \in 1 .. Len(inbox') : inbox'[i].id <= Len(msgs)
         /\ \A e, i : Pending(e, i)' <=> Pending(e, i) \/ (e = "message" /\ i = id)
<1> DEFINE m == [ev |-> "message", id |-> id]
<1>1. id \in 1 .. Len(msgs) /\ id \in Ids
  BY ShapeTypes DEF Shaped, Refer
<1>2. m \in Events /\ inbox \in Seq(Events) /\ inbox' = Append(inbox, m) /\ Len(inbox) \in Nat /\ m.id = id
  BY <1>1, ShapeTypes DEF Events, Tell
<1>3. ~InQueue(inbox, "message", id) /\ OnceIn(inbox)
  BY DEF Shaped, AnnouncedOnce, Pending
<1>4. /\ \A e, i : InQueue(Append(inbox, m), e, i) <=> InQueue(inbox, e, i) \/ (m.ev = e /\ m.id = i)
      /\ OnceIn(Append(inbox, m)) /\ Append(inbox, m) \in Seq(Events)
  BY <1>2, <1>3, QueueAppend
<1>5. \A e, i : Pending(e, i)' <=> Pending(e, i) \/ (e = "message" /\ i = id)
  BY <1>2, <1>4 DEF Pending
<1>6. AnnouncedOnce'
  BY <1>2, <1>4, <1>5 DEF Shaped, AnnouncedOnce
<1>7. Coming' = Coming
  <2>1. \A i : i \in Waiting' <=> Pending("message", i)'
    BY DEF Waiting, Pending, InQueue
  <2>2. Waiting' = Waiting \cup {id}
    BY <2>1, <1>5, WaitingIs
  <2> QED BY <2>2 DEF Coming
<1>8. \A i \in 1 .. Len(inbox') : inbox'[i].id <= Len(msgs)
  <2>1. \A i \in 1 .. Len(inbox') : (i \in 1 .. Len(inbox) /\ inbox'[i] = inbox[i]) \/ inbox'[i] = m
    BY <1>2
  <2> QED BY <2>1, <1>1, ShapeTypes DEF Shaped, Refer
<1>9. inbox' \in Seq(Events)
  BY <1>2, <1>4
<1> QED BY <1>5, <1>6, <1>7, <1>8, <1>9

LEMMA AnnounceShape ==
  ASSUME Shaped, Announce
  PROVE  Shaped'
<1>1. PICK id \in unsaid : /\ unsaid' = unsaid \ {id} /\ Tell("message", id)
                           /\ UNCHANGED <<msgs, count, emitted, opening, screen, cache, ops, history>>
  BY DEF Announce
<1>2. inbox' \in Seq(Events) /\ AnnouncedOnce' /\ \A i \in 1 .. Len(inbox') : inbox'[i].id <= Len(msgs)
  BY <1>1, AnnounceIs
<1>3. MessagesTypeOK'
  BY <1>1, <1>2 DEF Shaped, MessagesTypeOK, Events, screen, history
<1>4. ClosedEmpty' /\ LoadShape' /\ Refer' /\ OnceListed(list') /\ TextsCounted' /\ TextsApart'
  BY <1>1, <1>2 DEF Shaped, ClosedEmpty, LoadShape, Refer, TextsCounted, TextsApart, screen, history
<1> QED BY <1>2, <1>3, <1>4 DEF Shaped

LEMMA ListAlike ==
  ASSUME Shaped, list' \in Seq(Shown), Alike(list', list)
  PROVE  /\ OnceListed(list') /\ IdsOf(list') = IdsOf(list) /\ Bubbles(list') = Bubbles(list)
         /\ \A i \in 1 .. Len(list') : list'[i].id <= Len(msgs)
         /\ list = <<>> <=> list' = <<>>
<1>1. Len(list') = Len(list) /\ \A i \in 1 .. Len(list') : list'[i].id = list[i].id
  BY DEF Alike
<1>2. list \in Seq(Shown)
  BY ShapeTypes
<1>3. OnceListed(list') /\ \A i \in 1 .. Len(list') : list'[i].id <= Len(msgs)
  BY <1>1 DEF Shaped, OnceListed, Refer
<1>4. list = <<>> <=> list' = <<>>
  BY <1>1, <1>2
<1> QED BY <1>3, <1>4, AlikeKeeps

\* A deletion or an edit on the server, with the page's own mark.
LEMMA MarkedShape ==
  ASSUME Shaped, MsgsAlike, NEW ev \in {"deleted", "edited"}, NEW id \in 1 .. Len(msgs), Tell(ev, id),
         list' \in Seq(Shown), Alike(list', list), ops' \in 0 .. MaxOps,
         UNCHANGED <<count, emitted, unsaid, opening, open, older, newer, load, cache, history>>
  PROVE  Shaped' /\ Coming' = Coming
<1>1. Len(msgs') = Len(msgs)
  BY DEF MsgsAlike
<1>2. /\ inbox' \in Seq(Events) /\ AnnouncedOnce' /\ Coming' = Coming
      /\ \A i \in 1 .. Len(inbox') : inbox'[i].id <= Len(msgs')
  BY <1>1, StepTells
<1>3. /\ OnceListed(list') /\ \A i \in 1 .. Len(list') : list'[i].id <= Len(msgs)
      /\ list = <<>> <=> list' = <<>>
  BY ListAlike
<1>4. TextsCounted' /\ TextsApart'
  BY TextsSame DEF history
<1>5. MessagesTypeOK'
  BY <1>2 DEF Shaped, MessagesTypeOK, MsgsAlike, Events, history
<1>6. ClosedEmpty' /\ LoadShape' /\ Refer'
  BY <1>1, <1>2, <1>3 DEF Shaped, ClosedEmpty, LoadShape, Refer
<1> QED BY <1>2, <1>3, <1>4, <1>5, <1>6 DEF Shaped

LEMMA AlikeItself ==
  ASSUME Shaped
  PROVE  list \in Seq(Shown) /\ Alike(list, list)
BY ShapeTypes DEF Alike

LEMMA SpendIs ==
  ASSUME Shaped, Spend
  PROVE  ops' \in 0 .. MaxOps
BY MessagesConstants DEF Shaped, MessagesTypeOK, Spend

LEMMA DeleteShape ==
  ASSUME Shaped, NEW id \in 1 .. Len(msgs), NEW by \in Senders, Delete(by, id)
  PROVE  Shaped' /\ Coming' = Coming
<1>1. /\ Spend /\ msgs' = [msgs EXCEPT ![id].gone = TRUE] /\ Tell("deleted", id)
      /\ UNCHANGED <<count, emitted, unsaid, opening, screen, cache, history>>
  BY DEF Delete, DeleteOnServer
<1>2. MsgsAlike
  BY <1>1, MsgDeleted
<1>3. list' \in Seq(Shown) /\ Alike(list', list)
  BY <1>1, AlikeItself DEF screen
<1> QED BY <1>1, <1>2, <1>3, MarkedShape, SpendIs DEF screen

LEMMA EditShape ==
  ASSUME Shaped, NEW id \in 1 .. Len(msgs), NEW by \in Senders, Edit(by, id)
  PROVE  Shaped' /\ Coming' = Coming
<1>1. /\ Spend /\ msgs' = [msgs EXCEPT ![id].edited = TRUE] /\ Tell("edited", id)
      /\ UNCHANGED <<count, emitted, unsaid, opening, open, older, newer, load, cache, history>>
  BY DEF Edit, EditOnServer
<1>2. MsgsAlike
  BY <1>1, MsgEdited
<1>3. list' \in Seq(Shown) /\ Alike(list', list)
  <2>1. CASE by = "me"
    <3>1. id \in IdsOf(list) /\ list' = Mark(id, [Entry(id) EXCEPT !.edited = TRUE])
      BY <2>1 DEF Edit
    <3> QED BY <3>1, GoneIs
  <2>2. CASE by # "me"
    BY <2>2, AlikeItself DEF Edit
  <2> QED BY <2>1, <2>2
<1> QED BY <1>1, <1>2, <1>3, MarkedShape, SpendIs

\* A step that changes nothing but marks on the page.
LEMMA PageShape ==
  ASSUME Shaped, list' \in Seq(Shown), Alike(list', list), raced' \in SUBSET Ids, ops' \in 0 .. MaxOps,
         inbox' \in Seq(Events), \A i \in 1 .. Len(inbox') : inbox'[i].id <= Len(msgs), AnnouncedOnce',
         UNCHANGED <<server, opening, open, older, newer, load, cache, refused, dropped, crossed, leapt>>
  PROVE  Shaped'
<1>1. /\ OnceListed(list') /\ \A i \in 1 .. Len(list') : list'[i].id <= Len(msgs)
      /\ list = <<>> <=> list' = <<>>
  BY ListAlike
<1>2. MessagesTypeOK'
  BY DEF Shaped, MessagesTypeOK, Events, server
<1>3. ClosedEmpty' /\ LoadShape' /\ Refer' /\ TextsCounted' /\ TextsApart'
  BY <1>1 DEF Shaped, ClosedEmpty, LoadShape, Refer, TextsCounted, TextsApart, server
<1> QED BY <1>1, <1>2, <1>3 DEF Shaped

LEMMA DestructShape ==
  ASSUME Shaped, NEW id \in 1 .. Len(msgs), Destruct(id)
  PROVE  Shaped' /\ Coming' = Coming
<1>1. /\ Spend /\ id \in IdsOf(list) /\ list' = Mark(id, [Entry(id) EXCEPT !.gone = TRUE])
      /\ IF Own(msgs[id]) THEN DeleteOnServer(id) ELSE UNCHANGED <<msgs, inbox>>
      /\ UNCHANGED <<count, emitted, unsaid, opening, open, older, newer, load, cache, history>>
  BY DEF Destruct
<1>2. list' \in Seq(Shown) /\ Alike(list', list)
  BY <1>1, GoneIs
<1>3. CASE Own(msgs[id])
  <2>1. msgs' = [msgs EXCEPT ![id].gone = TRUE] /\ Tell("deleted", id)
    BY <1>1, <1>3 DEF DeleteOnServer
  <2>2. MsgsAlike
    BY <2>1, MsgDeleted
  <2> QED BY <1>1, <1>2, <2>1, <2>2, MarkedShape, SpendIs
<1>4. CASE ~Own(msgs[id])
  <2>1. UNCHANGED <<msgs, inbox>>
    BY <1>1, <1>4
  <2>2. AnnouncedOnce' /\ inbox' \in Seq(Events) /\ raced' \in SUBSET Ids
        /\ \A i \in 1 .. Len(inbox') : inbox'[i].id <= Len(msgs)
    BY <1>1, <2>1, ShapeTypes DEF Shaped, AnnouncedOnce, Pending, Refer, MessagesTypeOK, history
  <2>3. Shaped'
    BY <1>1, <1>2, <2>1, <2>2, PageShape, SpendIs DEF server, history
  <2>4. Coming' = Coming
    BY <1>1, <2>1 DEF Coming, Waiting
  <2> QED BY <2>3, <2>4
<1> QED BY <1>3, <1>4

LEMMA OvertakesIs ==
  ASSUME Shaped, NEW id \in 1 .. Len(msgs), Overtakes(id)
  PROVE  raced' \in SUBSET Ids /\ raced \subseteq raced'
BY ShapeTypes DEF Overtakes, Shaped, MessagesTypeOK

LEMMA HeardShape ==
  ASSUME Shaped, OnDeleted \/ OnEdited
  PROVE  Shaped' /\ Coming' = Coming /\ list' \in Seq(Shown) /\ Alike(list', list) /\ raced \subseteq raced'
<1> DEFINE id == Head(inbox).id
<1>1. /\ inbox # <<>> /\ Head(inbox).ev \in {"deleted", "edited"} /\ Pop
      /\ \/ list' = list
         \/ id \in IdsOf(list) /\ list' = Mark(id, [Entry(id) EXCEPT !.gone = TRUE])
         \/ id \in IdsOf(list) /\ list' = Mark(id, [Entry(id) EXCEPT !.edited = TRUE])
      /\ Overtakes(id)
      /\ UNCHANGED <<server, opening, open, older, newer, load, cache, ops, refused, dropped, crossed, leapt>>
  BY DEF OnDeleted, OnEdited, Event
<1>2. /\ inbox' \in Seq(Events) /\ id \in 1 .. Len(msgs)
      /\ \A i \in 1 .. Len(inbox') : inbox'[i].id <= Len(msgs)
  BY <1>1, StepPops
<1>3. AnnouncedOnce' /\ Coming' = Coming
  BY <1>1, StepHears DEF server
<1>4. list' \in Seq(Shown) /\ Alike(list', list)
  <2> HIDE DEF id
  <2>1. CASE list' = list
    BY <2>1, AlikeItself
  <2>2. CASE id \in IdsOf(list) /\ list' = Mark(id, [Entry(id) EXCEPT !.gone = TRUE])
    BY <2>2, GoneIs
  <2>3. CASE id \in IdsOf(list) /\ list' = Mark(id, [Entry(id) EXCEPT !.edited = TRUE])
    BY <2>3, GoneIs
  <2> QED BY <1>1, <2>1, <2>2, <2>3
<1>5. raced' \in SUBSET Ids /\ raced \subseteq raced'
  <2> HIDE DEF id
  <2> QED BY <1>1, <1>2, OvertakesIs
<1>6. ops' \in 0 .. MaxOps
  BY <1>1 DEF Shaped, MessagesTypeOK
<1>7. Shaped'
  BY <1>1, <1>2, <1>3, <1>4, <1>5, <1>6, PageShape
<1> QED BY <1>3, <1>4, <1>5, <1>7

LEMMA ReadIs ==
  ASSUME Shaped, NEW id \in 1 .. Len(msgs)
  PROVE  Read(id) \in 0 .. MaxWritten /\ cache[id] \in 0 .. MaxWritten
<1>1. id \in Ids /\ msgs[id].text \in Ids /\ MaxWritten \in Nat
  BY ShapeTypes
<1>2. cache[id] \in 0 .. MaxWritten
  BY <1>1 DEF Shaped, MessagesTypeOK
<1> QED BY <1>1, <1>2 DEF Read, Ids

\* What a begun message says: its bubble's text, or what is read.
Begun(id) ==
  LET at == IF Own(msgs[id]) THEN Match(list, id) ELSE 0 IN IF at # 0 THEN list[at].says ELSE Read(id)

LEMMA BegunIs ==
  ASSUME Shaped, NEW id \in 1 .. Len(msgs)
  PROVE  Begun(id) \in 0 .. MaxWritten
<1>1. list \in Seq(Shown)
  BY ShapeTypes
<1>2. Match(list, id) \in Bubbles(list) \cup {0}
  BY <1>1, MatchIs
<1>3. \A i \in Bubbles(list) : list[i] \in Shown
  BY <1>1 DEF Bubbles
<1>4. \A i \in Bubbles(list) : list[i].says \in 0 .. MaxWritten
  BY <1>3 DEF Shown
<1> QED BY <1>2, <1>4, ReadIs DEF Begun

\* A message is begun on a page that shows the conversation, or passes it by.
LEMMA BeginIs ==
  ASSUME Shaped, BeginMessage
  PROVE  LET id == Head(inbox).id IN
         /\ inbox # <<>> /\ Head(inbox).ev = "message" /\ Pop /\ id \in 1 .. Len(msgs)
         /\ open => \E o \in [id : Ids, says : 0 .. MaxWritten] :
              /\ o.id = id /\ o.says = (IF msgs[id].how = "file" THEN 0 ELSE Begun(id))
              /\ opening' = opening \cup {o}
              /\ cache' = [cache EXCEPT ![id] = IF Begun(id) = 0 THEN cache[id] ELSE Begun(id)]
         /\ ~open => UNCHANGED <<opening, cache>>
         /\ UNCHANGED <<server, screen, ops, history>>
<1> DEFINE id == Head(inbox).id
<1>1. /\ inbox # <<>> /\ Head(inbox).ev = "message" /\ Pop /\ UNCHANGED <<server, screen, ops, history>>
      /\ ~open => UNCHANGED <<opening, cache>>
  BY DEF BeginMessage, Event
<1>2. id \in 1 .. Len(msgs)
  BY <1>1, StepPops
<1>3. ASSUME open
      PROVE  \E o \in [id : Ids, says : 0 .. MaxWritten] :
              /\ o.id = id /\ o.says = (IF msgs[id].how = "file" THEN 0 ELSE Begun(id))
              /\ opening' = opening \cup {o}
              /\ cache' = [cache EXCEPT ![id] = IF Begun(id) = 0 THEN cache[id] ELSE Begun(id)]
  <2> DEFINE o == [id |-> id, says |-> IF msgs[id].how = "file" THEN 0 ELSE Begun(id)]
  <2>1. opening' = opening \cup {o} /\ Keep(id, Begun(id))
    BY <1>3 DEF BeginMessage, Begun
  <2>2. o \in [id : Ids, says : 0 .. MaxWritten]
    <3>1. Begun(id) \in 0 .. MaxWritten /\ id \in Ids /\ 0 \in 0 .. MaxWritten
      BY <1>2, BegunIs, ShapeTypes
    <3> QED BY <3>1
  <2>3. o.id = id /\ o.says = (IF msgs[id].how = "file" THEN 0 ELSE Begun(id))
    OBVIOUS
  <2>4. cache' = [cache EXCEPT ![id] = IF Begun(id) = 0 THEN cache[id] ELSE Begun(id)]
    BY <2>1 DEF Keep
  <2> HIDE DEF o
  <2> QED BY <2>1, <2>2, <2>3, <2>4
<1> QED BY <1>1, <1>2, <1>3

\* The number of the message moves from the socket to its handler.
LEMMA BeginComing ==
  ASSUME Shaped, BeginMessage
  PROVE  /\ AnnouncedOnce' /\ Coming' \subseteq Coming
         /\ open => Coming' = Coming
         /\ \A e, i : e # "message" => (Pending(e, i)' <=> Pending(e, i))
         /\ inbox' \in Seq(Events) /\ \A i \in 1 .. Len(inbox') : inbox'[i].id <= Len(msgs)
<1> DEFINE id == Head(inbox).id
<1>1. /\ inbox # <<>> /\ Head(inbox).ev = "message" /\ Pop /\ id \in 1 .. Len(msgs)
      /\ open => \E o \in [id : Ids, says : 0 .. MaxWritten] : o.id = id /\ opening' = opening \cup {o}
      /\ ~open => opening' = opening
      /\ unsaid' = unsaid
  BY BeginIs DEF server
<1>2. /\ inbox' \in Seq(Events) /\ OnceIn(inbox')
      /\ \A i \in 1 .. Len(inbox') : inbox'[i].id <= Len(msgs)
      /\ \A e, i : Pending(e, i) <=> Pending(e, i)' \/ (e = "message" /\ i = id)
      /\ \A i : i = id => ~Pending("message", i)'
  BY <1>1, StepPops
<1>3. id \notin unsaid /\ \A o \in opening : o.id # id
  BY <1>2 DEF Shaped, AnnouncedOnce
<1> HIDE DEF id
<1>4. AnnouncedOnce'
  <2>1. \A o \in opening' : o \in opening \/ o.id = id
    BY <1>1
  <2>2. \A o, p \in opening' : o.id = p.id => o = p
    BY <1>1, <1>3, <2>1 DEF Shaped, AnnouncedOnce
  <2>3. \A o \in opening' : \A i : i = o.id => i \notin unsaid /\ ~Pending("message", i)'
    BY <1>2, <1>3, <2>1 DEF Shaped, AnnouncedOnce
  <2>4. \A i \in unsaid : ~Pending("message", i)'
    BY <1>2 DEF Shaped, AnnouncedOnce
  <2> QED BY <1>1, <1>2, <2>2, <2>3, <2>4 DEF AnnouncedOnce
<1>5. \A i : i \in Waiting' <=> Pending("message", i)'
  BY DEF Waiting, Pending, InQueue
<1>6. \A i : i \in Coming' <=> i \in unsaid \/ Pending("message", i)' \/ \E o \in opening' : o.id = i
  BY <1>1, <1>5 DEF Coming
<1>7. Coming' \subseteq Coming
  <2>1. \A o \in opening' : o \in opening \/ o.id = id
    BY <1>1
  <2> QED BY <2>1, <1>2, <1>6, ComingIs
<1>8. ASSUME open, NEW i \in Coming PROVE i \in Coming'
  <2>1. PICK o : o.id = id /\ opening' = opening \cup {o}
    BY <1>1, <1>8
  <2>2. i \in unsaid \/ Pending("message", i) \/ \E p \in opening : p.id = i
    BY ComingIs
  <2>3. Pending("message", i) => Pending("message", i)' \/ i = id
    BY <1>2
  <2> QED BY <2>1, <2>2, <2>3, <1>6
<1> QED BY <1>2, <1>4, <1>7, <1>8

LEMMA BeginShape ==
  ASSUME Shaped, BeginMessage
  PROVE  Shaped'
<1> DEFINE id == Head(inbox).id
<1>1. /\ id \in 1 .. Len(msgs)
      /\ open => \E o \in [id : Ids, says : 0 .. MaxWritten] :
           /\ o.id = id /\ opening' = opening \cup {o}
           /\ cache' = [cache EXCEPT ![id] = IF Begun(id) = 0 THEN cache[id] ELSE Begun(id)]
      /\ ~open => UNCHANGED <<opening, cache>>
      /\ UNCHANGED <<server, screen, ops, history>>
  BY BeginIs
<1>2. /\ AnnouncedOnce'
      /\ inbox' \in Seq(Events) /\ \A i \in 1 .. Len(inbox') : inbox'[i].id <= Len(msgs)
  BY BeginComing
<1>3. cache' \in [Ids -> 0 .. MaxWritten]
  <2>1. Begun(id) \in 0 .. MaxWritten /\ cache[id] \in 0 .. MaxWritten /\ id \in Ids
    BY <1>1, BegunIs, ReadIs, ShapeTypes
  <2> QED BY <1>1, <2>1 DEF Shaped, MessagesTypeOK
<1>4. opening' \in SUBSET [id : Ids, says : 0 .. MaxWritten] /\ \A o \in opening' : o.id <= Len(msgs)
  <2> HIDE DEF id
  <2>1. \A o \in opening : o \in [id : Ids, says : 0 .. MaxWritten] /\ o.id <= Len(msgs)
    BY DEF Shaped, MessagesTypeOK, Refer
  <2>2. \A o \in opening' : o \in opening \/ (o \in [id : Ids, says : 0 .. MaxWritten] /\ o.id = id)
    BY <1>1
  <2> QED BY <1>1, <2>1, <2>2, ShapeTypes
<1>5. MessagesTypeOK'
  BY <1>1, <1>2, <1>3, <1>4 DEF Shaped, MessagesTypeOK, server, screen, history, Events
<1>6. ClosedEmpty' /\ LoadShape' /\ Refer' /\ OnceListed(list') /\ TextsCounted' /\ TextsApart'
  BY <1>1, <1>2, <1>4 DEF Shaped, ClosedEmpty, LoadShape, Refer, TextsCounted, TextsApart, server, screen, history
<1> QED BY <1>2, <1>5, <1>6 DEF Shaped

NewEntry(id, words) == [id |-> id, says |-> words, how |-> "stored", gone |-> FALSE, edited |-> FALSE]

EndsUnlisted(o) == (~open \/ o.id \in IdsOf(list)) /\ list' = list /\ newer' = newer /\ leapt' = leapt
EndsInPlace(o) ==
  \E at \in Bubbles(list) :
    /\ open /\ o.id \notin IdsOf(list) /\ Own(msgs[o.id]) /\ at = Match(list, o.id)
    /\ list' = [list EXCEPT ![at] = NewEntry(o.id, IF list[at].how = "file" THEN 0 ELSE list[at].says)]
    /\ newer' = newer /\ leapt' = (leapt \/ newer)
EndsLast(o) ==
  /\ open /\ o.id \notin IdsOf(list) /\ (Own(msgs[o.id]) => Bubbles(list) = {})
  /\ list' = Append(list, NewEntry(o.id, o.says))
  /\ newer' = FALSE /\ leapt' = (leapt \/ newer)

\* A message that was begun ends in one of three ways.
EndsWith(o) ==
  /\ o \in opening /\ o.id \in 1 .. Len(msgs) /\ o.id \in Ids /\ o.says \in 0 .. MaxWritten
  /\ opening' = opening \ {o}
  /\ EndsUnlisted(o) \/ EndsInPlace(o) \/ EndsLast(o)
  /\ crossed' = (crossed \/ (open /\ o.id \in IdsOf(list) /\ msgs[o.id].by = "me" /\ Bubbles(list) # {}))
  /\ raced' = IF load.at = "read" THEN raced \cup {o.id} ELSE raced
  /\ UNCHANGED <<server, inbox, open, older, load, cache, ops, refused, dropped>>
  /\ Coming' = Coming \ {o.id} /\ AnnouncedOnce'

LEMMA EndIs ==
  ASSUME Shaped, EndMessage
  PROVE  \E o \in opening : EndsWith(o)
<1> DEFINE At(o) == IF Own(msgs[o.id]) THEN Match(list, o.id) ELSE 0
<1>1. PICK o \in opening :
        /\ opening' = opening \ {o}
        /\ list' = IF ~open \/ o.id \in IdsOf(list) THEN list
                   ELSE IF At(o) # 0
                   THEN [list EXCEPT ![At(o)] = NewEntry(o.id, IF list[At(o)].how = "file" THEN 0 ELSE list[At(o)].says)]
                   ELSE Append(list, NewEntry(o.id, o.says))
        /\ newer' = (newer /\ (~open \/ o.id \in IdsOf(list) \/ At(o) # 0))
        /\ leapt' = (leapt \/ (open /\ newer /\ o.id \notin IdsOf(list)))
        /\ crossed' = (crossed \/ (open /\ o.id \in IdsOf(list) /\ msgs[o.id].by = "me" /\ Bubbles(list) # {}))
        /\ raced' = IF load.at = "read" THEN raced \cup {o.id} ELSE raced
        /\ UNCHANGED <<server, inbox, open, older, load, cache, ops, refused, dropped>>
  BY DEF EndMessage, NewEntry
<1>2. o.id \in 1 .. Len(msgs) /\ o.id \in Ids /\ o.says \in 0 .. MaxWritten
  BY DEF Shaped, MessagesTypeOK, Refer, Ids
<1>3. list \in Seq(Shown) /\ open \in BOOLEAN /\ newer \in BOOLEAN /\ leapt \in BOOLEAN
  BY DEF Shaped, MessagesTypeOK
<1>4. /\ Bubbles(list) # {} => Match(list, o.id) \in Bubbles(list) /\ Match(list, o.id) # 0
      /\ Bubbles(list) = {} => Match(list, o.id) = 0
  BY <1>3, MatchIs
<1>5. EndsUnlisted(o) \/ EndsInPlace(o) \/ EndsLast(o)
  <2>1. CASE ~open \/ o.id \in IdsOf(list)
    <3>1. list' = list /\ newer' = newer /\ leapt' = leapt
      BY <1>1, <1>3, <2>1
    <3> QED BY <2>1, <3>1 DEF EndsUnlisted
  <2>2. CASE open /\ o.id \notin IdsOf(list) /\ At(o) # 0
    <3>1. Own(msgs[o.id]) /\ At(o) = Match(list, o.id) /\ At(o) \in Bubbles(list)
      BY <2>2, <1>4
    <3>2. /\ list' = [list EXCEPT ![At(o)] = NewEntry(o.id, IF list[At(o)].how = "file" THEN 0 ELSE list[At(o)].says)]
          /\ newer' = newer /\ leapt' = (leapt \/ newer)
      BY <1>1, <1>3, <2>2
    <3> QED BY <2>2, <3>1, <3>2 DEF EndsInPlace
  <2>3. CASE open /\ o.id \notin IdsOf(list) /\ At(o) = 0
    <3>1. Own(msgs[o.id]) => Bubbles(list) = {}
      BY <2>3, <1>4
    <3>2. list' = Append(list, NewEntry(o.id, o.says)) /\ newer' = FALSE /\ leapt' = (leapt \/ newer)
      BY <1>1, <1>3, <2>3
    <3> QED BY <2>3, <3>1, <3>2 DEF EndsLast
  <2> QED BY <2>1, <2>2, <2>3
<1>6. unsaid' = unsaid /\ inbox' = inbox
  BY <1>1 DEF server
<1>7. Coming' = Coming \ {o.id}
  <2>1. Waiting' = Waiting
    BY <1>6 DEF Waiting
  <2>2. o.id \notin unsaid /\ o.id \notin Waiting /\ \A p \in opening : p.id = o.id => p = o
    BY WaitingIs DEF Shaped, AnnouncedOnce
  <2> QED BY <1>1, <1>6, <2>1, <2>2 DEF Coming
<1>8. AnnouncedOnce'
  BY <1>1, <1>6 DEF Shaped, AnnouncedOnce, Pending
<1> QED BY <1>1, <1>2, <1>5, <1>7, <1>8 DEF EndsWith

LEMMA EntryNew ==
  ASSUME Shaped, NEW id \in Ids, NEW words \in 0 .. MaxWritten
  PROVE  NewEntry(id, words) \in Shown /\ NewEntry(id, words).id = id /\ NewEntry(id, words).says = words
         /\ NewEntry(id, words).gone = FALSE /\ NewEntry(id, words).edited = FALSE /\ id # 0
         /\ NewEntry(id, words).how = "stored"
BY ShapeTypes DEF NewEntry, Shown, Ids

\* What the list holds then.
LEMMA EndListed ==
  ASSUME Shaped, NEW o \in opening, EndsWith(o)
  PROVE  /\ list' \in Seq(Shown) /\ OnceListed(list')
         /\ \A i \in 1 .. Len(list') : list'[i].id <= Len(msgs)
         /\ EndsUnlisted(o) \/ IdsOf(list') = IdsOf(list) \cup {o.id}
         /\ EndsInPlace(o) => \E at \in Bubbles(list) :
              /\ at = Match(list, o.id) /\ at \in 1 .. Len(list) /\ Len(list') = Len(list)
              /\ Bubbles(list') = Bubbles(list) \ {at}
              /\ list'[at] = NewEntry(o.id, IF list[at].how = "file" THEN 0 ELSE list[at].says)
              /\ \A i \in 1 .. Len(list) : i # at => list'[i] = list[i]
         /\ EndsLast(o) =>
              /\ Len(list') = Len(list) + 1 /\ Bubbles(list') = Bubbles(list)
              /\ list'[Len(list) + 1] = NewEntry(o.id, o.says)
              /\ \A i \in 1 .. Len(list) : list'[i] = list[i]
<1>1. list \in Seq(Shown) /\ OnceListed(list) /\ \A i \in 1 .. Len(list) : list[i].id <= Len(msgs)
  BY ShapeTypes DEF Shaped, Refer
<1>2. o.id \in 1 .. Len(msgs) /\ o.id \in Ids /\ o.says \in 0 .. MaxWritten
  BY DEF EndsWith
<1>3. CASE EndsUnlisted(o)
  BY <1>1, <1>3 DEF EndsUnlisted, EndsInPlace, EndsLast
<1>4. CASE EndsInPlace(o)
  <2>1. PICK at \in Bubbles(list) :
          /\ at = Match(list, o.id) /\ o.id \notin IdsOf(list)
          /\ list' = [list EXCEPT ![at] = NewEntry(o.id, IF list[at].how = "file" THEN 0 ELSE list[at].says)]
    BY <1>4 DEF EndsInPlace
  <2> DEFINE t == IF list[at].how = "file" THEN 0 ELSE list[at].says
             e == NewEntry(o.id, t)
  <2>2. list[at].says \in 0 .. MaxWritten /\ 0 \in 0 .. MaxWritten
    <3>1. list[at] \in Shown
      BY <1>1 DEF Bubbles
    <3> QED BY <3>1, ShapeTypes DEF Shown
  <2>3. e \in Shown /\ e.id = o.id /\ e.id # 0
    <3>1. t \in 0 .. MaxWritten
      BY <2>2
    <3> HIDE DEF t
    <3> QED BY <1>2, <3>1, EntryNew
  <2>4. list' = [list EXCEPT ![at] = e]
    BY <2>1
  <2> HIDE DEF e
  <2>5. /\ list' \in Seq(Shown) /\ Len(list') = Len(list) /\ list'[at] = e /\ at \in 1 .. Len(list)
        /\ \A i \in 1 .. Len(list) : i # at => list'[i] = list[i]
        /\ IdsOf(list') = IdsOf(list) \cup {e.id}
        /\ Bubbles(list') = Bubbles(list) \ {at}
        /\ OnceListed(list')
    <3>1. Replaced(list, at, e, [list EXCEPT ![at] = e])
      BY <1>1, <2>3, ListReplace
    <3> QED BY <3>1, <1>1, <2>1, <2>3, <2>4 DEF Replaced
  <2>6. \A i \in 1 .. Len(list') : list'[i].id <= Len(msgs)
    BY <2>3, <2>5, <1>1, <1>2
  <2>7. ~EndsLast(o)
    <3> SUFFICES ASSUME EndsLast(o) PROVE FALSE
      OBVIOUS
    <3>1. Len(list') = Len(list) + 1
      BY <1>1 DEF EndsLast
    <3> QED BY <3>1, <2>5, <1>1
  <2> QED BY <2>1, <2>3, <2>5, <2>6, <2>7 DEF e
<1>5. CASE EndsLast(o)
  <2> DEFINE e == NewEntry(o.id, o.says)
  <2>1. o.id \notin IdsOf(list) /\ list' = Append(list, e)
    BY <1>5 DEF EndsLast
  <2>2. e \in Shown /\ e.id = o.id /\ e.id # 0
    BY <1>2, EntryNew
  <2> HIDE DEF e
  <2>3. /\ list' \in Seq(Shown) /\ Len(list') = Len(list) + 1 /\ Len(list) \in Nat
        /\ \A i \in 1 .. Len(list) : list'[i] = list[i]
        /\ list'[Len(list) + 1] = e
        /\ IdsOf(list') = IdsOf(list) \cup {e.id}
        /\ Bubbles(list') = Bubbles(list)
        /\ OnceListed(list')
    <3> DEFINE r == Append(list, e)
    <3>1. /\ r \in Seq(Shown) /\ Len(r) = Len(list) + 1 /\ Len(list) \in Nat
          /\ \A i \in 1 .. Len(list) : r[i] = list[i]
          /\ r[Len(list) + 1] = e
          /\ IdsOf(r) = IdsOf(list) \cup ({e.id} \ {0})
          /\ Bubbles(r) = Bubbles(list) \cup (IF e.id = 0 THEN {Len(list) + 1} ELSE {})
          /\ OnceListed(list) /\ e.id \notin IdsOf(list) => OnceListed(r)
      BY <1>1, <2>2, ListAppend
    <3>2. list' = r
      BY <2>1
    <3> HIDE DEF r
    <3>3. /\ IdsOf(r) = IdsOf(list) \cup {e.id}
          /\ Bubbles(r) = Bubbles(list)
      BY <3>1, <2>2
    <3> QED BY <3>1, <3>2, <3>3, <1>1, <2>1, <2>2
  <2>4. \A i \in 1 .. Len(list') : i \in 1 .. Len(list) \/ i = Len(list) + 1
    BY <2>3
  <2>5. \A i \in 1 .. Len(list') : list'[i].id <= Len(msgs)
    BY <2>2, <2>3, <2>4, <1>1, <1>2
  <2>6. ~EndsInPlace(o)
    <3> SUFFICES ASSUME EndsInPlace(o) PROVE FALSE
      OBVIOUS
    <3>1. PICK at \in Bubbles(list) : list' = [list EXCEPT ![at] = NewEntry(o.id, IF list[at].how = "file" THEN 0 ELSE list[at].says)]
      BY DEF EndsInPlace
    <3>2. Len(list') = Len(list)
      BY <3>1, <1>1
    <3> QED BY <3>2, <2>3
  <2> QED BY <2>2, <2>3, <2>5, <2>6 DEF e
<1> QED BY <1>3, <1>4, <1>5 DEF EndsWith

LEMMA EndShape ==
  ASSUME Shaped, NEW o \in opening, EndsWith(o)
  PROVE  Shaped'
<1>1. /\ list' \in Seq(Shown) /\ OnceListed(list')
      /\ \A i \in 1 .. Len(list') : list'[i].id <= Len(msgs)
  BY EndListed
<1>2. /\ o.id \in Ids /\ opening' = opening \ {o} /\ AnnouncedOnce'
      /\ raced' = IF load.at = "read" THEN raced \cup {o.id} ELSE raced
      /\ UNCHANGED <<server, inbox, open, older, load, cache, ops, refused, dropped>>
      /\ crossed' \in BOOLEAN
  BY DEF EndsWith, Shaped, MessagesTypeOK
<1>3. ~open => list' = list
  BY DEF EndsWith, EndsUnlisted, EndsInPlace, EndsLast
<1>4. newer' \in BOOLEAN /\ leapt' \in BOOLEAN
  BY DEF EndsWith, EndsUnlisted, EndsInPlace, EndsLast, Shaped, MessagesTypeOK
<1>5. MessagesTypeOK'
  BY <1>1, <1>2, <1>4 DEF Shaped, MessagesTypeOK, server
<1>6. ClosedEmpty' /\ LoadShape' /\ Refer' /\ TextsCounted' /\ TextsApart'
  BY <1>1, <1>2, <1>3 DEF Shaped, ClosedEmpty, LoadShape, Refer, TextsCounted, TextsApart, server
<1> QED BY <1>1, <1>2, <1>5, <1>6 DEF Shaped


-----------------------------------------------------------------------------
(* Messages: asking and answering.                                         *)

LEMMA AskIs ==
  ASSUME Shaped, NEW kind \in Loads, NEW arg \in 0 .. Len(msgs), Ask(kind, arg), kind \in {"newer", "around"} => arg # 0
  PROVE  /\ load' \in Requests /\ LoadShape' /\ load'.arg <= Len(msgs)
         /\ load'.kind = kind /\ load'.arg = arg /\ load'.at = "sent" /\ load'.got = <<>>
<1>1. load' = [kind |-> kind, at |-> "sent", arg |-> arg, got |-> <<>>]
  BY DEF Ask
<1>2. arg \in 0 .. MaxWritten /\ arg <= Len(msgs)
  BY ShapeTypes
<1>3. load' \in Requests
  BY <1>1, <1>2 DEF Requests
<1>4. load' # NoLoad /\ load'.kind = kind /\ load'.arg = arg /\ load'.at = "sent" /\ load'.got = <<>> /\ kind # "none"
  BY <1>1 DEF NoLoad, Loads
<1>5. PageSize \in Nat
  BY MessagesConstants
<1>6. LoadShape'
  BY <1>4, <1>5 DEF LoadShape
<1> QED BY <1>2, <1>3, <1>4, <1>6

LEMMA NoLoadIs ==
  ASSUME Shaped, load' = NoLoad
  PROVE  /\ load' \in Requests /\ LoadShape' /\ load'.arg = 0 /\ load'.kind = "none"
         /\ load'.at = "none" /\ load'.got = <<>>
<1>1. load' = [kind |-> "none", at |-> "none", arg |-> 0, got |-> <<>>]
  BY DEF NoLoad
<1>2. load' \in Requests
  BY <1>1, ShapeTypes DEF Requests
<1>3. load'.kind = "none" /\ load'.arg = 0 /\ load'.at = "none" /\ load'.got = <<>>
  BY <1>1
<1>4. PageSize \in Nat
  BY MessagesConstants
<1> QED BY <1>2, <1>3, <1>4 DEF LoadShape

LEMMA OpenShape ==
  ASSUME Shaped, Open
  PROVE  Shaped' /\ list = <<>> /\ list' = <<>> /\ Coming' = Coming
<1>1. /\ Spend /\ Ask("initial", 0) /\ open' = TRUE /\ newer' = FALSE /\ ~open
      /\ UNCHANGED <<server, inbox, opening, list, older, cache, history>>
  BY DEF Open
<1>2. /\ load' \in Requests /\ LoadShape' /\ load'.arg <= Len(msgs) /\ load'.got = <<>>
  <2>1. "initial" \in Loads /\ 0 \in 0 .. Len(msgs)
    BY ShapeTypes DEF Loads
  <2> QED BY <1>1, <2>1, AskIs
<1>3. list = <<>> /\ list' = <<>>
  BY <1>1 DEF Shaped, ClosedEmpty
<1>4. MessagesTypeOK'
  BY <1>1, <1>2, SpendIs DEF Shaped, MessagesTypeOK, server, history
<1>5. ClosedEmpty' /\ Refer' /\ TextsCounted' /\ TextsApart' /\ AnnouncedOnce' /\ OnceListed(list')
  BY <1>1, <1>2 DEF Shaped, ClosedEmpty, Refer, TextsCounted, TextsApart, AnnouncedOnce, Pending, server, history
<1>6. Coming' = Coming
  BY <1>1 DEF Coming, Waiting, server
<1> QED BY <1>2, <1>3, <1>4, <1>5, <1>6 DEF Shaped

LEMMA CloseShape ==
  ASSUME Shaped, Close
  PROVE  Shaped' /\ Coming' = Coming
<1>1. /\ Spend /\ open' = FALSE /\ list' = <<>> /\ crossed' = FALSE /\ leapt' = FALSE
      /\ load' = (IF load.kind = "initial" THEN NoLoad ELSE load)
      /\ dropped' = (dropped \/ Bubbles(list) # {})
      /\ UNCHANGED <<server, inbox, opening, older, newer, cache, refused, raced>>
  BY DEF Close
<1>2. /\ load' \in Requests /\ LoadShape' /\ load'.arg <= Len(msgs) /\ load'.kind # "initial"
      /\ \A i \in 1 .. Len(load'.got) : load'.got[i].id <= Len(msgs)
  <2>1. CASE load.kind = "initial"
    <3>1. load' = NoLoad
      BY <2>1, <1>1
    <3>2. load' \in Requests /\ LoadShape' /\ load'.arg = 0 /\ load'.kind = "none" /\ load'.got = <<>>
      BY <3>1, NoLoadIs
    <3> QED BY <3>2, ShapeTypes
  <2>2. CASE load.kind # "initial"
    <3>1. load' = load
      BY <2>2, <1>1
    <3> QED BY <2>2, <3>1, ShapeTypes DEF Shaped, LoadShape, Refer
  <2> QED BY <2>1, <2>2
<1>3. dropped' \in BOOLEAN
  BY <1>1 DEF Shaped, MessagesTypeOK
<1>4. MessagesTypeOK'
  <2>1. ops' \in 0 .. MaxOps /\ list' \in Seq(Shown)
    BY <1>1, SpendIs
  <2> QED BY <2>1, <1>1, <1>2, <1>3 DEF Shaped, MessagesTypeOK, server
<1>5. ClosedEmpty' /\ Refer' /\ TextsCounted' /\ TextsApart' /\ AnnouncedOnce' /\ OnceListed(list')
  BY <1>1, <1>2 DEF Shaped, ClosedEmpty, Refer, TextsCounted, TextsApart, AnnouncedOnce, Pending, server, OnceListed
<1>6. Coming' = Coming
  BY <1>1 DEF Coming, Waiting, server
<1> QED BY <1>2, <1>4, <1>5, <1>6 DEF Shaped

LEMMA LoadIs ==
  ASSUME Shaped, NEW kind \in Loads \ {"initial"}, NEW arg \in 0 .. Len(msgs), Load(kind, arg)
  PROVE  /\ Shaped' /\ Coming' = Coming
         /\ load'.kind = kind /\ load'.arg = arg /\ load'.at = "sent" /\ load'.got = <<>>
         /\ kind = "more" => list # <<>> /\ arg = list[1].id
         /\ kind = "newer" => newer /\ list # <<>> /\ arg = list[Len(list)].id /\ arg # 0
         /\ kind = "latest" => newer
<1>1. /\ Spend /\ open /\ Ask(kind, arg)
      /\ kind = "more" => list # <<>> /\ arg = list[1].id
      /\ kind = "newer" => newer /\ list # <<>> /\ arg = list[Len(list)].id /\ arg # 0
      /\ kind = "latest" => newer
      /\ kind = "around" => arg # 0
      /\ UNCHANGED <<server, inbox, opening, open, list, older, newer, cache, history>>
  <2>1. kind \in {"more", "newer", "latest", "around"}
    BY DEF Loads
  <2>2. CASE kind = "more"
    BY <2>2 DEF Load
  <2>3. CASE kind = "newer"
    BY <2>3 DEF Load
  <2>4. CASE kind = "latest"
    BY <2>4 DEF Load
  <2>5. CASE kind = "around"
    <3>1. arg # 0
      BY <2>5 DEF Load
    <3> QED BY <2>5, <3>1 DEF Load
  <2> QED BY <2>1, <2>2, <2>3, <2>4, <2>5
<1>2. /\ load' \in Requests /\ LoadShape' /\ load'.arg <= Len(msgs)
      /\ load'.kind = kind /\ load'.arg = arg /\ load'.at = "sent" /\ load'.got = <<>>
  BY <1>1, AskIs
<1>3. MessagesTypeOK'
  BY <1>1, <1>2, SpendIs DEF Shaped, MessagesTypeOK, server, history
<1>4. ClosedEmpty' /\ Refer' /\ TextsCounted' /\ TextsApart' /\ AnnouncedOnce' /\ OnceListed(list')
  BY <1>1, <1>2 DEF Shaped, ClosedEmpty, Refer, TextsCounted, TextsApart, AnnouncedOnce, Pending, server, history
<1>5. Coming' = Coming
  BY <1>1 DEF Coming, Waiting, server
<1> QED BY <1>1, <1>2, <1>3, <1>4, <1>5 DEF Shaped

LEMMA SequenceIs ==
  ASSUME NEW n \in Nat, NEW S, NEW f, f = [i \in 1 .. n |-> f[i]], \A i \in 1 .. n : f[i] \in S
  PROVE  f \in Seq(S) /\ Len(f) = n
OBVIOUS

\* The answer: n messages from one on, as many as a page holds or there are.
Answers(from, n) ==
  /\ from \in Nat \ {0} /\ n \in 0 .. PageSize /\ from + n <= Len(msgs) + 1
  /\ load.kind \in {"initial", "latest"} => from + n = Len(msgs) + 1
  /\ load.kind = "more" => from + n = IF load.arg = 0 THEN Len(msgs) + 1 ELSE load.arg
  /\ load.kind = "around" => n # 0 /\ from + n = load.arg + 1
  /\ load.kind \in {"initial", "latest", "more"} => from = 1 \/ n = PageSize
  /\ load.kind = "newer" => from = load.arg + 1 /\ (from + n = Len(msgs) + 1 \/ n = PageSize)

LEMMA PageIs ==
  ASSUME NEW from \in Nat, NEW to \in Nat, to + 1 - from \in Nat
  PROVE  Len(Page(from, to)) = to + 1 - from /\ \A i \in 1 .. to + 1 - from : Page(from, to)[i] = from + i - 1
BY DEF Page

LEMMA UptoIs ==
  ASSUME NEW n \in Nat
  PROVE  \E from \in Nat \ {0} : /\ Upto(n) = Page(from, n) /\ n + 1 - from \in 0 .. PageSize
                                 /\ (from = 1 \/ n + 1 - from = PageSize)
                                 /\ n # 0 => n + 1 - from # 0
<1>1. PageSize \in Nat /\ PageSize # 0
  BY MessagesConstants
<1>2. CASE n > PageSize
  <2> DEFINE from == n + 1 - PageSize
  <2>1. from \in Nat \ {0} /\ n + 1 - from = PageSize /\ Upto(n) = Page(from, n)
    BY <1>1, <1>2 DEF Upto
  <2> QED BY <2>1, <1>1
<1>3. CASE ~(n > PageSize)
  <2>1. Upto(n) = Page(1, n) /\ n + 1 - 1 \in 0 .. PageSize /\ n + 1 - 1 = n
    BY <1>1, <1>3 DEF Upto
  <2> QED BY <2>1
<1> QED BY <1>2, <1>3

LEMMA AnswerIs ==
  ASSUME Shaped, Answer
  PROVE  \E from, n :
           /\ Answers(from, n) /\ load.at = "sent" /\ load'.got \in Seq(Gots) /\ Len(load'.got) = n
           /\ load' = [load EXCEPT !.at = "read", !.got = load'.got]
           /\ \A i \in 1 .. n : /\ from + i - 1 \in 1 .. Len(msgs)
                                /\ load'.got[i] = [id |-> from + i - 1, gone |-> msgs[from + i - 1].gone,
                                                   edited |-> msgs[from + i - 1].edited]
<1> DEFINE k == Len(msgs)
           page == CASE load.kind \in {"initial", "latest"} -> Upto(k)
                [] load.kind = "more" -> Upto(IF load.arg = 0 THEN k ELSE load.arg - 1)
                [] load.kind = "around" -> Upto(load.arg)
                [] load.kind = "newer" ->
                     Page(load.arg + 1, IF k > load.arg + PageSize THEN load.arg + PageSize ELSE k)
           got == [i \in 1 .. Len(page) |-> [id |-> page[i], gone |-> msgs[page[i]].gone,
                                          edited |-> msgs[page[i]].edited]]
<1>1. k \in Nat /\ PageSize \in Nat /\ PageSize # 0 /\ load.arg \in Nat /\ load.arg <= k /\ load \in Requests
  BY ShapeTypes, MessagesConstants DEF Shaped, Refer
<1>2. load.at = "sent" /\ load' = [load EXCEPT !.at = "read", !.got = got]
  BY DEF Answer
<1>3. load.kind \in Loads /\ (load.kind \in {"newer", "around"} => load.arg # 0)
  <2>1. load # NoLoad
    BY <1>2 DEF NoLoad
  <2> QED BY <2>1, <1>1 DEF Shaped, LoadShape, Requests
<1>4. \E from \in Nat \ {0}, to \in Nat :
        /\ page = Page(from, to) /\ to + 1 - from \in 0 .. PageSize /\ to <= k
        /\ Answers(from, to + 1 - from)
  <2> HIDE DEF k
  <2>1. CASE load.kind \in {"initial", "latest"}
    <3>1. PICK from \in Nat \ {0} :
           /\ Upto(k) = Page(from, k) /\ k + 1 - from \in 0 .. PageSize
           /\ (from = 1 \/ k + 1 - from = PageSize)
      BY <1>1, UptoIs
    <3>2. page = Page(from, k)
      <4>1. page = Upto(k)
        BY <2>1
      <4> HIDE DEF page
      <4> QED BY <4>1, <3>1
    <3>3. Answers(from, k + 1 - from)
      BY <2>1, <3>1, <1>1 DEF Answers, k
    <3> HIDE DEF page
    <3> QED BY <3>1, <3>2, <3>3, <1>1
  <2>2. CASE load.kind = "more"
    <3> DEFINE to == IF load.arg = 0 THEN k ELSE load.arg - 1
    <3>1. to \in Nat /\ to <= k
      BY <1>1
    <3>2. PICK from \in Nat \ {0} :
           /\ Upto(to) = Page(from, to) /\ to + 1 - from \in 0 .. PageSize
           /\ (from = 1 \/ to + 1 - from = PageSize)
      BY <3>1, UptoIs
    <3>3. page = Page(from, to)
      <4>1. page = Upto(to)
        BY <2>2
      <4> HIDE DEF page, to
      <4> QED BY <4>1, <3>2
    <3>4. Answers(from, to + 1 - from)
      BY <2>2, <3>1, <3>2, <1>1 DEF Answers, k
    <3> HIDE DEF page, to
    <3> QED BY <3>1, <3>2, <3>3, <3>4
  <2>3. CASE load.kind = "around"
    <3>1. PICK from \in Nat \ {0} :
           /\ Upto(load.arg) = Page(from, load.arg) /\ load.arg + 1 - from \in 0 .. PageSize
           /\ load.arg + 1 - from # 0
      BY <1>1, <1>3, <2>3, UptoIs
    <3>2. page = Page(from, load.arg)
      <4>1. page = Upto(load.arg)
        BY <2>3
      <4> HIDE DEF page
      <4> QED BY <4>1, <3>1
    <3>3. Answers(from, load.arg + 1 - from)
      BY <2>3, <3>1, <1>1 DEF Answers, k
    <3> HIDE DEF page
    <3> QED BY <3>1, <3>2, <3>3, <1>1
  <2>4. CASE load.kind = "newer"
    <3> DEFINE to == IF k > load.arg + PageSize THEN load.arg + PageSize ELSE k
    <3>1. page = Page(load.arg + 1, to)
      BY <2>4
    <3>2. to \in Nat /\ to <= k /\ to + 1 - (load.arg + 1) \in 0 .. PageSize
          /\ (to = k \/ to + 1 - (load.arg + 1) = PageSize)
      BY <1>1
    <3>3. Answers(load.arg + 1, to + 1 - (load.arg + 1))
      BY <2>4, <3>2, <1>1 DEF Answers, k
    <3>4. load.arg + 1 \in Nat \ {0}
      BY <1>1
    <3> HIDE DEF page, to
    <3> QED BY <3>1, <3>2, <3>3, <3>4
  <2> QED BY <1>3, <2>1, <2>2, <2>3, <2>4 DEF Loads
<1>5. PICK from \in Nat \ {0}, to \in Nat :
        /\ page = Page(from, to) /\ to + 1 - from \in 0 .. PageSize /\ to <= k
        /\ Answers(from, to + 1 - from)
  BY <1>4
<1> DEFINE n == to + 1 - from
<1>6. Len(page) = n /\ n \in Nat /\ \A i \in 1 .. n : page[i] = from + i - 1
  <2>1. n \in Nat
    BY <1>5, <1>1
  <2> HIDE DEF page
  <2> QED BY <2>1, <1>5, PageIs
<1>7. \A i \in 1 .. n : from + i - 1 \in 1 .. Len(msgs)
  BY <1>5, <1>1
<1> HIDE DEF page
<1>8. \A i \in 1 .. n : got[i] = [id |-> from + i - 1, gone |-> msgs[from + i - 1].gone,
                                                   edited |-> msgs[from + i - 1].edited]
  BY <1>6
<1>9. got \in Seq(Gots) /\ Len(got) = n
  <2>1. \A i \in 1 .. n : [id |-> from + i - 1, gone |-> msgs[from + i - 1].gone,
                                                   edited |-> msgs[from + i - 1].edited] \in Gots
    <3>1. \A i \in 1 .. Len(msgs) : i \in Ids /\ msgs[i].gone \in BOOLEAN /\ msgs[i].edited \in BOOLEAN
      BY ShapeTypes DEF Stored
    <3> QED BY <3>1, <1>7 DEF Gots
  <2>2. got = [i \in 1 .. n |-> [id |-> from + i - 1, gone |-> msgs[from + i - 1].gone,
                                                   edited |-> msgs[from + i - 1].edited]]
    BY <1>6
  <2>3. n \in Nat
    BY <1>6
  <2>4. \A i \in 1 .. n : got[i] \in Gots
    BY <1>8, <2>1
  <2>5. DOMAIN got = 1 .. n /\ got = [i \in 1 .. n |-> got[i]]
    BY <2>2
  <2> HIDE DEF got, n
  <2> QED BY <2>3, <2>4, <2>5, SequenceIs
<1>10. load'.got = got
  <2> HIDE DEF got
  <2> QED BY <1>1, <1>2 DEF Requests
<1> HIDE DEF got, k, n
<1>11. Answers(from, n)
  BY <1>5 DEF n
<1> QED BY <1>2, <1>7, <1>8, <1>9, <1>10, <1>11

LEMMA AnswerShape ==
  ASSUME Shaped, Answer
  PROVE  Shaped' /\ Coming' = Coming
<1>1. PICK from, n :
           /\ Answers(from, n) /\ load.at = "sent" /\ load'.got \in Seq(Gots) /\ Len(load'.got) = n
           /\ load' = [load EXCEPT !.at = "read", !.got = load'.got]
           /\ \A i \in 1 .. n : /\ from + i - 1 \in 1 .. Len(msgs)
                                /\ load'.got[i] = [id |-> from + i - 1, gone |-> msgs[from + i - 1].gone,
                                                   edited |-> msgs[from + i - 1].edited]
  BY AnswerIs
<1>2. /\ raced' \in SUBSET raced
      /\ UNCHANGED <<server, inbox, opening, open, list, older, newer, cache, ops, refused, dropped, crossed, leapt>>
  BY DEF Answer
<1>3. load \in Requests
  BY ShapeTypes
<1>4. load' \in Requests /\ load'.kind = load.kind /\ load'.arg = load.arg /\ load'.at = "read"
  BY <1>1, <1>3 DEF Requests, Gots
<1>5. n \in 0 .. PageSize /\ from \in Nat /\ PageSize \in Nat
  BY <1>1, MessagesConstants DEF Answers
<1>6. \A i \in 1 .. n : load'.got[i].id = from + i - 1 /\ from + i - 1 <= Len(msgs)
  <2> TAKE i \in 1 .. n
  <2>1. from + i - 1 \in 1 .. Len(msgs) /\ Len(msgs) \in Nat
    BY <1>1, ShapeTypes
  <2>2. load'.got[i] = [id |-> from + i - 1, gone |-> msgs[from + i - 1].gone,
                                                   edited |-> msgs[from + i - 1].edited]
    BY <1>1
  <2> QED BY <2>1, <2>2
<1>7. \A i \in 1 .. n : load'.got[i].id = load'.got[1].id + i - 1
  <2> TAKE i \in 1 .. n
  <2>1. 1 \in 1 .. n /\ from + 1 - 1 = from
    BY <1>5
  <2> QED BY <2>1, <1>6
<1>8. load # NoLoad /\ load' # NoLoad /\ load'.kind # "none"
  BY <1>1, <1>4 DEF NoLoad, Shaped, LoadShape
<1>9. LoadShape'
  BY <1>1, <1>4, <1>5, <1>7, <1>8 DEF Shaped, LoadShape
<1>10. Refer'
  BY <1>1, <1>2, <1>4, <1>6 DEF Shaped, Refer, server
<1>11. MessagesTypeOK'
  BY <1>2, <1>4 DEF Shaped, MessagesTypeOK, server
<1>12. ClosedEmpty' /\ TextsCounted' /\ TextsApart' /\ AnnouncedOnce' /\ OnceListed(list')
  BY <1>2, <1>4 DEF Shaped, ClosedEmpty, TextsCounted, TextsApart, AnnouncedOnce, Pending, server
<1>13. Coming' = Coming
  BY <1>2 DEF Coming, Waiting, server
<1> QED BY <1>9, <1>10, <1>11, <1>12, <1>13 DEF Shaped

-----------------------------------------------------------------------------
(* Messages: an answer arrives.                                            *)

GotList ==
  [i \in 1 .. Len(load.got) |->
     [id |-> load.got[i].id, says |-> Read(load.got[i].id), how |-> "stored",
      gone |-> load.got[i].gone, edited |-> load.got[i].edited]]

LEMMA GotListIs ==
  ASSUME Shaped
  PROVE  /\ GotList \in Seq(Shown) /\ Len(GotList) = Len(load.got) /\ Len(load.got) \in Nat
         /\ IdsOf(GotList) = IdsOf(load.got) /\ Bubbles(GotList) = {} /\ OnceListed(GotList)
         /\ \A i \in 1 .. Len(load.got) :
              /\ GotList[i].id = load.got[i].id /\ GotList[i].says = Read(load.got[i].id)
              /\ GotList[i].gone = load.got[i].gone /\ GotList[i].edited = load.got[i].edited
              /\ load.got[i].id \in 1 .. Len(msgs)
<1> DEFINE k == Len(load.got)
<1>1. k \in Nat /\ \A i \in 1 .. k : load.got[i] \in Gots
  BY ShapeTypes
<1>2. \A i \in 1 .. k : load.got[i].id \in 1 .. Len(msgs)
  BY <1>1, ShapeTypes DEF Gots, Ids, Shaped, Refer
<1>3. \A i \in 1 .. k :
        [id |-> load.got[i].id, says |-> Read(load.got[i].id), how |-> "stored",
         gone |-> load.got[i].gone, edited |-> load.got[i].edited] \in Shown
  <2> TAKE i \in 1 .. k
  <2>1. load.got[i].id \in 0 .. MaxWritten /\ Read(load.got[i].id) \in 0 .. MaxWritten
    BY <1>2, ReadIs, ShapeTypes
  <2>2. load.got[i].gone \in BOOLEAN /\ load.got[i].edited \in BOOLEAN
    BY <1>1 DEF Gots
  <2> QED BY <2>1, <2>2 DEF Shown
<1>4. \A i \in 1 .. k : GotList[i] =
        [id |-> load.got[i].id, says |-> Read(load.got[i].id), how |-> "stored",
         gone |-> load.got[i].gone, edited |-> load.got[i].edited]
  BY DEF GotList
<1>5. GotList = [i \in 1 .. k |-> GotList[i]]
  BY DEF GotList
<1>6. \A i \in 1 .. k : GotList[i] \in Shown
  BY <1>3, <1>4
<1>7. \A i \in 1 .. k :
              /\ GotList[i].id = load.got[i].id /\ GotList[i].says = Read(load.got[i].id)
              /\ GotList[i].gone = load.got[i].gone /\ GotList[i].edited = load.got[i].edited
  <2> TAKE i \in 1 .. k
  <2>1. GotList[i] = [id |-> load.got[i].id, says |-> Read(load.got[i].id), how |-> "stored",
         gone |-> load.got[i].gone, edited |-> load.got[i].edited]
    BY <1>4
  <2> QED BY <2>1
<1> HIDE DEF k
<1>8. GotList \in Seq(Shown) /\ Len(GotList) = k
  BY <1>1, <1>5, <1>6, SequenceIs
<1>9. IdsOf(GotList) = IdsOf(load.got)
  BY <1>7, <1>8 DEF IdsOf, k
<1>10. Bubbles(GotList) = {}
  <2>1. \A i \in 1 .. k : GotList[i].id # 0
    <3> TAKE i \in 1 .. k
    <3>1. GotList[i].id \in 1 .. Len(msgs) /\ Len(msgs) \in Nat
      BY <1>2, <1>7, ShapeTypes
    <3> QED BY <3>1
  <2> QED BY <2>1, <1>8 DEF Bubbles
<1>11. OnceListed(GotList)
  <2> SUFFICES ASSUME NEW i \in 1 .. k, NEW j \in 1 .. k, GotList[i].id = GotList[j].id PROVE i = j
    BY <1>8 DEF OnceListed
  <2>1. /\ load.got[i].id = load.got[1].id + i - 1
        /\ load.got[j].id = load.got[1].id + j - 1
    BY DEF Shaped, LoadShape, k
  <2>2. load.got[1].id \in Nat
    <3>1. 1 \in 1 .. k
      BY <1>1
    <3> QED BY <3>1, <1>2, ShapeTypes
  <2> QED BY <2>1, <2>2, <1>7
<1> QED BY <1>1, <1>2, <1>7, <1>8, <1>9, <1>10, <1>11 DEF k

\* Two lists, one after the other.
LEMMA JoinIs ==
  ASSUME NEW s \in Seq(Shown), NEW r \in Seq(Shown)
  PROVE  /\ s \o r \in Seq(Shown) /\ Len(s \o r) = Len(s) + Len(r) /\ Len(s) \in Nat /\ Len(r) \in Nat
         /\ \A i \in 1 .. Len(s) : (s \o r)[i] = s[i]
         /\ \A i \in 1 .. Len(r) : (s \o r)[Len(s) + i] = r[i] /\ Len(s) + i \in 1 .. Len(s \o r)
         /\ \A i \in 1 .. Len(s \o r) : i \in 1 .. Len(s) \/ (i - Len(s) \in 1 .. Len(r) /\ (s \o r)[i] = r[i - Len(s)])
<1>1. s \o r \in Seq(Shown) /\ Len(s \o r) = Len(s) + Len(r) /\ Len(s) \in Nat /\ Len(r) \in Nat
  OBVIOUS
<1>2. \A i \in 1 .. Len(s) : (s \o r)[i] = s[i]
  OBVIOUS
<1>3. \A i \in 1 .. Len(r) : (s \o r)[Len(s) + i] = r[i] /\ Len(s) + i \in 1 .. Len(s \o r)
  OBVIOUS
<1>4. \A i \in 1 .. Len(s \o r) : i \in 1 .. Len(s) \/ (i - Len(s) \in 1 .. Len(r) /\ (s \o r)[i] = r[i - Len(s)])
  OBVIOUS
<1> QED BY <1>1, <1>2, <1>3, <1>4

LEMMA JoinIds ==
  ASSUME NEW s \in Seq(Shown), NEW r \in Seq(Shown)
  PROVE  IdsOf(s \o r) = IdsOf(s) \cup IdsOf(r)
<1> DEFINE j == s \o r
<1>1. /\ Len(j) = Len(s) + Len(r) /\ Len(s) \in Nat /\ Len(r) \in Nat
      /\ \A i \in 1 .. Len(s) : j[i] = s[i]
      /\ \A i \in 1 .. Len(r) : j[Len(s) + i] = r[i] /\ Len(s) + i \in 1 .. Len(j)
      /\ \A i \in 1 .. Len(j) : i \in 1 .. Len(s) \/ (i - Len(s) \in 1 .. Len(r) /\ j[i] = r[i - Len(s)])
  BY JoinIs
<1> HIDE DEF j
<1>2. ASSUME NEW e \in IdsOf(j) PROVE e \in IdsOf(s) \cup IdsOf(r)
  <2>1. PICK i \in 1 .. Len(j) : j[i].id = e /\ e # 0
    BY DEF IdsOf
  <2>2. CASE i \in 1 .. Len(s)
    BY <2>1, <2>2, <1>1 DEF IdsOf
  <2>3. CASE i - Len(s) \in 1 .. Len(r) /\ j[i] = r[i - Len(s)]
    BY <2>1, <2>3 DEF IdsOf
  <2> QED BY <2>2, <2>3, <1>1
<1>3. ASSUME NEW e \in IdsOf(s) PROVE e \in IdsOf(j)
  <2>1. PICK i \in 1 .. Len(s) : s[i].id = e /\ e # 0
    BY DEF IdsOf
  <2>2. i \in 1 .. Len(j)
    BY <1>1
  <2> QED BY <2>1, <2>2, <1>1 DEF IdsOf
<1>4. ASSUME NEW e \in IdsOf(r) PROVE e \in IdsOf(j)
  <2>1. PICK i \in 1 .. Len(r) : r[i].id = e /\ e # 0
    BY DEF IdsOf
  <2>2. Len(s) + i \in 1 .. Len(j) /\ j[Len(s) + i] = r[i]
    BY <1>1
  <2> QED BY <2>1, <2>2 DEF IdsOf
<1>5. IdsOf(j) = IdsOf(s) \cup IdsOf(r)
  BY <1>2, <1>3, <1>4
<1> QED BY <1>5 DEF j

BubblesJoin(s, r, j) ==
  /\ Bubbles(r) = {} => Bubbles(j) = Bubbles(s)
  /\ Bubbles(s) = {} => /\ Cardinality(Bubbles(j)) <= Cardinality(Bubbles(r))
                        /\ Bubbles(j) = {} <=> Bubbles(r) = {}
  /\ \A i \in Bubbles(s) : i \in Bubbles(j) /\ j[i] = s[i]
  /\ \A i \in Bubbles(r) : Len(s) + i \in Bubbles(j) /\ j[Len(s) + i] = r[i]

\* A list without bubbles, put before or after another, adds none.
LEMMA JoinBubbles ==
  ASSUME NEW s \in Seq(Shown), NEW r \in Seq(Shown)
  PROVE  BubblesJoin(s, r, s \o r)
<1> DEFINE j == s \o r
<1>1. /\ Len(j) = Len(s) + Len(r) /\ Len(s) \in Nat /\ Len(r) \in Nat /\ j \in Seq(Shown)
      /\ \A i \in 1 .. Len(s) : j[i] = s[i]
      /\ \A i \in 1 .. Len(r) : j[Len(s) + i] = r[i] /\ Len(s) + i \in 1 .. Len(j)
      /\ \A i \in 1 .. Len(j) : i \in 1 .. Len(s) \/ (i - Len(s) \in 1 .. Len(r) /\ j[i] = r[i - Len(s)])
  BY JoinIs
<1> HIDE DEF j
<1>2. \A i \in Bubbles(s) : i \in Bubbles(j) /\ j[i] = s[i]
  <2> TAKE i \in Bubbles(s)
  <2>1. i \in 1 .. Len(s) /\ s[i].id = 0 /\ i \in 1 .. Len(j)
    BY <1>1 DEF Bubbles
  <2> QED BY <2>1, <1>1 DEF Bubbles
<1>3. \A i \in Bubbles(r) : Len(s) + i \in Bubbles(j) /\ j[Len(s) + i] = r[i]
  BY <1>1 DEF Bubbles
<1>4. \A i \in Bubbles(j) : i \in Bubbles(s) \/ (i - Len(s) \in Bubbles(r) /\ i \in Nat)
  <2> TAKE i \in Bubbles(j)
  <2>1. i \in 1 .. Len(j) /\ j[i].id = 0
    BY DEF Bubbles
  <2> QED BY <2>1, <1>1 DEF Bubbles
<1>5. ASSUME Bubbles(r) = {} PROVE Bubbles(j) = Bubbles(s)
  BY <1>5, <1>2, <1>4
<1>6. ASSUME Bubbles(s) = {} PROVE Cardinality(Bubbles(j)) <= Cardinality(Bubbles(r)) /\ (Bubbles(j) = {} <=> Bubbles(r) = {})
  <2> DEFINE f == [i \in Bubbles(j) |-> i - Len(s)]
  <2>1. f \in Injection(Bubbles(j), Bubbles(r))
    <3>1. \A i \in Bubbles(j) : i \in Nat /\ i - Len(s) \in Bubbles(r)
      BY <1>4, <1>6
    <3>2. f \in [Bubbles(j) -> Bubbles(r)]
      BY <3>1
    <3>3. \A a, b \in Bubbles(j) : f[a] = f[b] => a = b
      BY <3>1, <1>1
    <3> HIDE DEF f
    <3> QED BY <3>2, <3>3 DEF Injection, IsInjective
  <2>2. IsFiniteSet(Bubbles(r))
    BY BubblesFinite
  <2>3. Cardinality(Bubbles(j)) <= Cardinality(Bubbles(r))
    BY <2>1, <2>2, FS_Injection
  <2> QED BY <2>3, <1>3, <1>4, <1>6
<1> QED BY <1>2, <1>3, <1>5, <1>6 DEF j, BubblesJoin

ArrivesAside == ~open /\ UNCHANGED <<list, newer, leapt, crossed, dropped>>
ArrivesAnew ==
  /\ open /\ load.kind \in {"initial", "latest", "around"} /\ list' = GotList
  /\ newer' = (load.kind = "around") /\ leapt' = FALSE /\ crossed' = FALSE
  /\ dropped' = (dropped \/ Bubbles(list) # {})
ArrivesBefore ==
  open /\ load.kind = "more" /\ list' = Dedup(GotList \o list) /\ UNCHANGED <<newer, leapt, crossed, dropped>>
ArrivesAfter ==
  /\ open /\ load.kind = "newer" /\ list' = Dedup(list \o GotList)
  /\ newer' = (newer /\ Len(load.got) >= PageSize) /\ UNCHANGED <<leapt, crossed, dropped>>

LEMMA ArriveIs ==
  ASSUME Shaped, Arrive
  PROVE  /\ load.at = "read" /\ load' = NoLoad /\ older' \in BOOLEAN
         /\ cache' = [i \in Ids |-> IF i \in IdsOf(load.got) /\ Read(i) # 0 THEN Read(i) ELSE cache[i]]
         /\ UNCHANGED <<server, inbox, opening, open, ops, refused, raced>>
         /\ ArrivesAside \/ ArrivesAnew \/ ArrivesBefore \/ ArrivesAfter
<1> DEFINE full == Len(load.got) >= PageSize
<1>1. /\ load.at = "read" /\ load' = NoLoad
      /\ cache' = [i \in Ids |-> IF i \in IdsOf(load.got) /\ Read(i) # 0 THEN Read(i) ELSE cache[i]]
      /\ UNCHANGED <<server, inbox, opening, open, ops, refused, raced>>
  BY DEF Arrive
<1>2. load.kind \in {"initial", "latest", "around", "more", "newer"}
  <2>1. load # NoLoad
    BY <1>1 DEF NoLoad
  <2> QED BY <2>1, ShapeTypes DEF Shaped, LoadShape, Requests, Loads
<1>3. open \in BOOLEAN /\ older \in BOOLEAN
  BY DEF Shaped, MessagesTypeOK
<1>4. CASE ~open
  <2>1. /\ UNCHANGED <<leapt, crossed, dropped>>
        /\ UNCHANGED <<list, older, newer>>
    BY <1>2, <1>4 DEF Arrive
  <2> QED BY <2>1, <1>1, <1>3, <1>4 DEF ArrivesAside
<1>5. CASE open /\ load.kind \in {"initial", "latest"}
  <2>1. list' = GotList /\ newer' = FALSE /\ older' = full
        /\ leapt' = FALSE /\ crossed' = FALSE /\ dropped' = (dropped \/ Bubbles(list) # {})
    BY <1>5 DEF Arrive, GotList
  <2>2. newer' = (load.kind = "around")
    BY <2>1, <1>5
  <2>3. older' \in BOOLEAN
    BY <2>1
  <2> QED BY <2>1, <2>2, <2>3, <1>1, <1>5 DEF ArrivesAnew
<1>6. CASE open /\ load.kind = "around"
  <2>1. list' = GotList /\ newer' = TRUE /\ older' = TRUE
        /\ leapt' = FALSE /\ crossed' = FALSE /\ dropped' = (dropped \/ Bubbles(list) # {})
    BY <1>6 DEF Arrive, GotList
  <2> QED BY <2>1, <1>1, <1>6 DEF ArrivesAnew
<1>7. CASE open /\ load.kind = "more"
  <2>1. list' = Dedup(GotList \o list) /\ older' = (older /\ full) /\ newer' = newer
        /\ UNCHANGED <<leapt, crossed, dropped>>
    BY <1>7 DEF Arrive, GotList
  <2> QED BY <2>1, <1>1, <1>7 DEF ArrivesBefore
<1>8. CASE open /\ load.kind = "newer"
  <2>1. list' = Dedup(list \o GotList) /\ older' = older /\ newer' = (newer /\ full)
        /\ UNCHANGED <<leapt, crossed, dropped>>
    BY <1>8 DEF Arrive, GotList
  <2> QED BY <2>1, <1>1, <1>3, <1>8 DEF ArrivesAfter
<1> QED BY <1>2, <1>4, <1>5, <1>6, <1>7, <1>8

\* What the list holds then.
LEMMA ArriveListed ==
  ASSUME Shaped, Arrive
  PROVE  /\ list' \in Seq(Shown) /\ OnceListed(list')
         /\ \A i \in 1 .. Len(list') : list'[i].id <= Len(msgs)
         /\ ArrivesBefore \/ ArrivesAfter =>
              /\ IdsOf(list') = IdsOf(list) \cup IdsOf(load.got)
              /\ Cardinality(Bubbles(list')) <= Cardinality(Bubbles(list))
              /\ \A i \in Bubbles(list) : list[i].how = "cipher" => \E j \in Bubbles(list') : list'[j] = list[i]
              /\ \A j \in 1 .. Len(list') : \/ \E i \in 1 .. Len(list) : list'[j] = list[i]
                                            \/ \E i \in 1 .. Len(load.got) : list'[j] = GotList[i]
<1>1. list \in Seq(Shown) /\ OnceListed(list) /\ \A i \in 1 .. Len(list) : list[i].id <= Len(msgs)
  BY ShapeTypes DEF Shaped, Refer
<1>2. /\ GotList \in Seq(Shown) /\ Len(GotList) = Len(load.got) /\ Len(load.got) \in Nat
      /\ IdsOf(GotList) = IdsOf(load.got) /\ Bubbles(GotList) = {} /\ OnceListed(GotList)
      /\ \A i \in 1 .. Len(load.got) : GotList[i].id = load.got[i].id /\ load.got[i].id \in 1 .. Len(msgs)
  BY GotListIs
<1>3. \A i \in 1 .. Len(load.got) : GotList[i].id <= Len(msgs)
  <2> TAKE i \in 1 .. Len(load.got)
  <2>1. GotList[i].id \in 1 .. Len(msgs) /\ Len(msgs) \in Nat
    BY <1>2, ShapeTypes
  <2> QED BY <2>1
<1>4. CASE ArrivesBefore \/ ArrivesAfter
  <2>1. PICK s \in Seq(Shown) :
          /\ list' = Dedup(s) /\ IdsOf(s) = IdsOf(list) \cup IdsOf(load.got)
          /\ Cardinality(Bubbles(s)) <= Cardinality(Bubbles(list))
          /\ \A i \in Bubbles(list) : \E j \in Bubbles(s) : s[j] = list[i]
          /\ \A j \in 1 .. Len(s) : \/ \E i \in 1 .. Len(list) : s[j] = list[i]
                                    \/ \E i \in 1 .. Len(load.got) : s[j] = GotList[i]
    <3>1. Cardinality(Bubbles(list)) \in Nat
      BY <1>1, BubblesFinite
    <3>2. CASE ArrivesBefore
      <4> DEFINE s == GotList \o list
      <4>1. /\ s \in Seq(Shown)
            /\ \A j \in 1 .. Len(s) : \/ \E i \in 1 .. Len(list) : s[j] = list[i]
                                      \/ \E i \in 1 .. Len(load.got) : s[j] = GotList[i]
        BY <1>1, <1>2, JoinIs
      <4>2. IdsOf(s) = IdsOf(list) \cup IdsOf(load.got)
        BY <1>1, <1>2, JoinIds
      <4>3. /\ Cardinality(Bubbles(s)) <= Cardinality(Bubbles(list))
            /\ \A i \in Bubbles(list) : \E j \in Bubbles(s) : s[j] = list[i]
        <5>1. BubblesJoin(GotList, list, s)
          BY <1>1, <1>2, JoinBubbles
        <5> HIDE DEF s
        <5> QED BY <5>1, <1>2 DEF BubblesJoin
      <4>4. list' = Dedup(s)
        BY <3>2 DEF ArrivesBefore
      <4> HIDE DEF s
      <4> QED BY <4>1, <4>2, <4>3, <4>4
    <3>3. CASE ArrivesAfter
      <4> DEFINE s == list \o GotList
      <4>1. /\ s \in Seq(Shown)
            /\ \A j \in 1 .. Len(s) : \/ \E i \in 1 .. Len(list) : s[j] = list[i]
                                      \/ \E i \in 1 .. Len(load.got) : s[j] = GotList[i]
        BY <1>1, <1>2, JoinIs
      <4>2. IdsOf(s) = IdsOf(list) \cup IdsOf(load.got)
        BY <1>1, <1>2, JoinIds
      <4>3. /\ Bubbles(s) = Bubbles(list)
            /\ \A i \in Bubbles(list) : \E j \in Bubbles(s) : s[j] = list[i]
        <5>1. BubblesJoin(list, GotList, s)
          BY <1>1, <1>2, JoinBubbles
        <5> HIDE DEF s
        <5> QED BY <5>1, <1>2 DEF BubblesJoin
      <4>4. list' = Dedup(s)
        BY <3>3 DEF ArrivesAfter
      <4> HIDE DEF s
      <4> QED BY <4>1, <4>2, <4>3, <4>4, <3>1
    <3> QED BY <1>4, <3>2, <3>3
  <2>2. list' \in Seq(Shown)
    BY <2>1, DedupIs
  <2>3. OnceListed(list')
    BY <2>1, DedupOnce
  <2>4. IdsOf(list') = IdsOf(list) \cup IdsOf(load.got)
    BY <2>1, DedupIds
  <2>5. /\ Cardinality(Bubbles(list')) <= Cardinality(Bubbles(s))
        /\ \A i \in Bubbles(s) : s[i].how = "cipher" => \E j \in Bubbles(list') : list'[j] = s[i]
        /\ \A j \in 1 .. Len(list') : \E i \in 1 .. Len(s) : list'[j] = s[i]
    BY <2>1, DedupBubbles
  <2>6. Cardinality(Bubbles(list')) <= Cardinality(Bubbles(list))
    <3>1. Cardinality(Bubbles(list')) \in Nat /\ Cardinality(Bubbles(list)) \in Nat /\ Cardinality(Bubbles(s)) \in Nat
      BY <1>1, <2>1, <2>2, BubblesFinite
    <3> QED BY <3>1, <2>1, <2>5
  <2>7. /\ \A i \in Bubbles(list) : list[i].how = "cipher" => \E j \in Bubbles(list') : list'[j] = list[i]
        /\ \A j \in 1 .. Len(list') : \/ \E i \in 1 .. Len(list) : list'[j] = list[i]
                                      \/ \E i \in 1 .. Len(load.got) : list'[j] = GotList[i]
    BY <2>1, <2>5
  <2>8. \A i \in 1 .. Len(list') : list'[i].id <= Len(msgs)
    BY <2>7, <1>1, <1>3
  <2> QED BY <2>2, <2>3, <2>4, <2>6, <2>7, <2>8
<1>5. CASE ArrivesAside
  BY <1>1, <1>5 DEF ArrivesAside, ArrivesBefore, ArrivesAfter
<1>6. CASE ArrivesAnew
  <2>1. list' = GotList /\ ~ArrivesBefore /\ ~ArrivesAfter
    BY <1>6 DEF ArrivesAnew, ArrivesBefore, ArrivesAfter
  <2> QED BY <2>1, <1>2, <1>3
<1> QED BY <1>4, <1>5, <1>6, ArriveIs

LEMMA ArriveShape ==
  ASSUME Shaped, Arrive
  PROVE  Shaped' /\ Coming' = Coming
<1>1. /\ load.at = "read" /\ load' = NoLoad /\ older' \in BOOLEAN
      /\ cache' = [i \in Ids |-> IF i \in IdsOf(load.got) /\ Read(i) # 0 THEN Read(i) ELSE cache[i]]
      /\ UNCHANGED <<server, inbox, opening, open, ops, refused, raced>>
      /\ ArrivesAside \/ ArrivesAnew \/ ArrivesBefore \/ ArrivesAfter
  BY ArriveIs
<1>2. /\ list' \in Seq(Shown) /\ OnceListed(list')
      /\ \A i \in 1 .. Len(list') : list'[i].id <= Len(msgs)
  BY ArriveListed
<1>3. /\ load' \in Requests /\ LoadShape' /\ load'.arg = 0 /\ load'.kind = "none"
      /\ load'.at = "none" /\ load'.got = <<>>
  BY <1>1, NoLoadIs
<1>4. newer' \in BOOLEAN /\ leapt' \in BOOLEAN /\ crossed' \in BOOLEAN /\ dropped' \in BOOLEAN
  BY <1>1 DEF ArrivesAside, ArrivesAnew, ArrivesBefore, ArrivesAfter, Shaped, MessagesTypeOK
<1>5. ~open => list' = <<>>
  BY <1>1 DEF ArrivesAside, ArrivesAnew, ArrivesBefore, ArrivesAfter, Shaped, ClosedEmpty
<1>6. cache' \in [Ids -> 0 .. MaxWritten]
  <2>1. \A i \in Ids : cache[i] \in 0 .. MaxWritten
    BY DEF Shaped, MessagesTypeOK
  <2>2. \A i \in Ids : i \in IdsOf(load.got) => i \in 1 .. Len(msgs)
    BY GotListIs DEF IdsOf
  <2>3. \A i \in 1 .. Len(msgs) : Read(i) \in 0 .. MaxWritten
    BY ReadIs
  <2>4. \A i \in Ids : (IF i \in IdsOf(load.got) /\ Read(i) # 0 THEN Read(i) ELSE cache[i]) \in 0 .. MaxWritten
    BY <2>1, <2>2, <2>3
  <2> QED BY <1>1, <2>4
<1>7. MessagesTypeOK'
  BY <1>1, <1>2, <1>3, <1>4, <1>6 DEF Shaped, MessagesTypeOK, server
<1>8. Refer'
  BY <1>1, <1>2, <1>3, ShapeTypes DEF Shaped, Refer, server
<1>9. ClosedEmpty' /\ TextsCounted' /\ TextsApart' /\ AnnouncedOnce'
  BY <1>1, <1>3, <1>5 DEF Shaped, ClosedEmpty, TextsCounted, TextsApart, AnnouncedOnce, Pending, server
<1>10. Coming' = Coming
  BY <1>1 DEF Coming, Waiting, server
<1> QED BY <1>2, <1>3, <1>7, <1>8, <1>9, <1>10 DEF Shaped

LEMMA ShapeKept ==
  ASSUME Shaped, [MessagesNext]_messagesVars
  PROVE  Shaped'
<1>1. ASSUME NEW how \in Ways, Send(how) PROVE Shaped'
  BY <1>1, SendShape
<1>2. ASSUME Save PROVE Shaped'
  BY <1>2, SaveShape
<1>3. ASSUME Refuse PROVE Shaped'
  BY <1>3, RefuseShape
<1>4. ASSUME Announce PROVE Shaped'
  BY <1>4, AnnounceShape
<1>5. ASSUME NEW by \in {"twin", "peer"}, SaveOther(by) PROVE Shaped'
  BY <1>5, SaveOtherShape
<1>6. ASSUME NEW id \in 1 .. Len(msgs), NEW by \in {"me", "twin", "peer"}, Delete(by, id) \/ Edit(by, id)
      PROVE  Shaped'
  BY <1>6, DeleteShape, EditShape DEF Senders
<1>7. ASSUME NEW id \in 1 .. Len(msgs), Destruct(id) PROVE Shaped'
  BY <1>7, DestructShape
<1>8. ASSUME BeginMessage PROVE Shaped'
  BY <1>8, BeginShape
<1>9. ASSUME EndMessage PROVE Shaped'
  BY <1>9, EndIs, EndShape
<1>10. ASSUME OnDeleted \/ OnEdited PROVE Shaped'
  BY <1>10, HeardShape
<1>11. ASSUME Open PROVE Shaped'
  BY <1>11, OpenShape
<1>12. ASSUME Close PROVE Shaped'
  BY <1>12, CloseShape
<1>13. ASSUME NEW kind \in Loads \ {"initial"}, NEW arg \in 0 .. Len(msgs), Load(kind, arg) PROVE Shaped'
  BY <1>13, LoadIs
<1>14. ASSUME Answer PROVE Shaped'
  BY <1>14, AnswerShape
<1>15. ASSUME Arrive PROVE Shaped'
  BY <1>15, ArriveShape
<1>16. ASSUME UNCHANGED messagesVars PROVE Shaped'
  <2>1. MessagesTypeOK' /\ ClosedEmpty' /\ LoadShape' /\ Refer'
    BY <1>16 DEF messagesVars, Shaped, MessagesTypeOK, ClosedEmpty, LoadShape, Refer
  <2>2. TextsCounted' /\ TextsApart' /\ AnnouncedOnce' /\ OnceListed(list')
    BY <1>16 DEF messagesVars, Shaped, TextsCounted, TextsApart, AnnouncedOnce, Pending
  <2> QED BY <2>1, <2>2 DEF Shaped
<1> QED BY <1>1, <1>2, <1>3, <1>4, <1>5, <1>6, <1>7, <1>8, <1>9, <1>10, <1>11, <1>12, <1>13, <1>14,
           <1>15, <1>16 DEF MessagesNext

LEMMA SaveIs ==
  ASSUME Shaped, Save
  PROVE  \E s \in emitted :
           /\ Stores(s.text, "me", s.how) /\ emitted' = emitted \ {s}
           /\ UNCHANGED <<count, inbox, opening, screen, cache, ops, history>>
           /\ Coming' = Coming \cup {Len(msgs) + 1} /\ Len(msgs) + 1 \notin Coming
           /\ \A e, i : Pending(e, i)' <=> Pending(e, i)
<1>1. PICK s \in emitted : /\ Store(s.text, "me", s.how) /\ emitted' = emitted \ {s}
                           /\ UNCHANGED <<count, inbox, opening, screen, cache, ops, history>>
  BY DEF Save
<1>2. Stores(s.text, "me", s.how)
  BY <1>1, StoreIs DEF Senders, Shaped, MessagesTypeOK
<1>3. /\ Coming' = Coming \cup {Len(msgs) + 1} /\ Len(msgs) + 1 \notin Coming
      /\ \A e, i : Pending(e, i)' <=> Pending(e, i)
  BY <1>1, <1>2, StoresKeeps DEF screen
<1> QED BY <1>1, <1>2, <1>3

LEMMA SaveOtherIs ==
  ASSUME Shaped, NEW by \in {"twin", "peer"}, SaveOther(by)
  PROVE  /\ Stores(count + 1, by, "cipher")
         /\ UNCHANGED <<emitted, inbox, opening, screen, cache, ops, history>>
         /\ Coming' = Coming \cup {Len(msgs) + 1} /\ Len(msgs) + 1 \notin Coming
         /\ \A e, i : Pending(e, i)' <=> Pending(e, i)
<1>1. /\ count < MaxWritten /\ Store(count + 1, by, "cipher")
      /\ UNCHANGED <<emitted, inbox, opening, screen, cache, ops, history>>
  BY DEF SaveOther
<1>2. Stores(count + 1, by, "cipher")
  <2>1. count + 1 \in Ids
    BY <1>1, ShapeTypes DEF Ids
  <2> QED BY <1>1, <2>1, StoreIs DEF Senders, Ways
<1>3. /\ Coming' = Coming \cup {Len(msgs) + 1} /\ Len(msgs) + 1 \notin Coming
      /\ \A e, i : Pending(e, i)' <=> Pending(e, i)
  BY <1>1, <1>2, StoresKeeps DEF screen
<1> QED BY <1>1, <1>2, <1>3

\* Deleting and editing on the server, and the page's own mark.
Marked(id) == (\E by \in Senders : Delete(by, id) \/ Edit(by, id)) \/ Destruct(id)

LEMMA MarkedIs ==
  ASSUME Shaped, NEW id \in 1 .. Len(msgs), Marked(id)
  PROVE  /\ MsgsAlike \/ msgs' = msgs
         /\ list' \in Seq(Shown) /\ Alike(list', list) /\ Coming' = Coming
         /\ UNCHANGED <<count, emitted, unsaid, opening, open, older, newer, load, cache, history>>
<1>1. CASE \E by \in Senders : Delete(by, id)
  <2>1. PICK by \in Senders : Delete(by, id)
    BY <1>1
  <2>2. msgs' = [msgs EXCEPT ![id].gone = TRUE] /\ UNCHANGED <<count, emitted, unsaid, opening, screen, cache, history>>
    BY <2>1 DEF Delete, DeleteOnServer
  <2>3. list' \in Seq(Shown) /\ Alike(list', list)
    BY <2>2, AlikeItself DEF screen
  <2>4. MsgsAlike
    BY <2>2, MsgDeleted
  <2> QED BY <2>1, <2>2, <2>3, <2>4, DeleteShape DEF screen
<1>2. CASE \E by \in Senders : Edit(by, id)
  <2>1. PICK by \in Senders : Edit(by, id)
    BY <1>2
  <2>2. /\ msgs' = [msgs EXCEPT ![id].edited = TRUE]
        /\ UNCHANGED <<count, emitted, unsaid, opening, open, older, newer, load, cache, history>>
        /\ list' = list \/ (id \in IdsOf(list) /\ list' = Mark(id, [Entry(id) EXCEPT !.edited = TRUE]))
    BY <2>1 DEF Edit, EditOnServer
  <2>3. list' \in Seq(Shown) /\ Alike(list', list)
    <3>1. CASE list' = list
      BY <3>1, AlikeItself
    <3>2. CASE id \in IdsOf(list) /\ list' = Mark(id, [Entry(id) EXCEPT !.edited = TRUE])
      BY <3>2, GoneIs
    <3> QED BY <2>2, <3>1, <3>2
  <2>4. MsgsAlike
    BY <2>2, MsgEdited
  <2> QED BY <2>1, <2>2, <2>3, <2>4, EditShape
<1>3. CASE Destruct(id)
  <2>1. /\ id \in IdsOf(list) /\ list' = Mark(id, [Entry(id) EXCEPT !.gone = TRUE])
        /\ msgs' = msgs \/ msgs' = [msgs EXCEPT ![id].gone = TRUE]
        /\ UNCHANGED <<count, emitted, unsaid, opening, open, older, newer, load, cache, history>>
    BY <1>3 DEF Destruct, DeleteOnServer
  <2>2. list' \in Seq(Shown) /\ Alike(list', list)
    BY <2>1, GoneIs
  <2>3. MsgsAlike \/ msgs' = msgs
    BY <2>1, MsgDeleted
  <2> QED BY <1>3, <2>1, <2>2, <2>3, DestructShape
<1> QED BY <1>1, <1>2, <1>3 DEF Marked

-----------------------------------------------------------------------------
(* Messages: a bubble has a message it stands for.                         *)

Owed == {id \in Coming : msgs[id].by = "me"}
GhostsFew == crossed \/ Cardinality(Bubbles(list)) <= Cardinality(emitted) + Cardinality(Owed) + refused

LEMMA OwedFinite ==
  ASSUME Shaped
  PROVE  /\ Coming \subseteq 1 .. Len(msgs) /\ Owed \subseteq Coming
         /\ IsFiniteSet(Owed) /\ Cardinality(Owed) \in Nat
         /\ IsFiniteSet(emitted) /\ Cardinality(emitted) \in Nat /\ refused \in Nat
         /\ Cardinality(Bubbles(list)) \in Nat /\ IsFiniteSet(Bubbles(list))
<1>1. Coming \subseteq 1 .. Len(msgs)
  <2>1. \A i \in 1 .. Len(inbox) : inbox[i].id \in 1 .. Len(msgs)
    <3>1. \A i \in 1 .. Len(inbox) : inbox[i] \in Events
      BY ShapeTypes
    <3> QED BY <3>1, ShapeTypes DEF Events, Ids, Shaped, Refer
  <2>2. \A o \in opening : o.id \in 1 .. Len(msgs)
    BY ShapeTypes DEF Shaped, MessagesTypeOK, Refer, Ids
  <2>3. \A id : Pending("message", id) => id \in 1 .. Len(msgs)
    BY <2>1 DEF Pending, InQueue
  <2> QED BY <2>2, <2>3, ComingIs DEF Shaped, Refer
<1>2. IsFiniteSet(Owed)
  <2>1. IsFiniteSet(1 .. Len(msgs))
    BY ShapeTypes, FS_Interval
  <2> QED BY <2>1, <1>1, FS_Subset DEF Owed
<1>3. IsFiniteSet(emitted)
  BY DEF Shaped, TextsCounted
<1> QED BY <1>1, <1>2, <1>3, FS_CardinalityType, ShapeTypes, BubblesFinite DEF Owed

LEMMA NoBubblesFew ==
  ASSUME Shaped, Bubbles(list) = {}
  PROVE  GhostsFew
<1>1. Cardinality(Bubbles(list)) = 0
  BY FS_EmptySet
<1> QED BY <1>1, OwedFinite DEF GhostsFew

\* A step that leaves who wrote what, what is to come and how many bubbles there are.
LEMMA GhostsSame ==
  ASSUME Shaped, GhostsFew, Coming' = Coming, \A id \in 1 .. Len(msgs) : msgs'[id].by = msgs[id].by,
         Bubbles(list') = Bubbles(list), UNCHANGED <<emitted, refused, crossed>>
  PROVE  GhostsFew'
<1>1. Owed' = Owed
  BY OwedFinite DEF Owed
<1> QED BY <1>1 DEF GhostsFew

LEMMA GhostsSend ==
  ASSUME Shaped, GhostsFew, NEW how \in Ways, Send(how)
  PROVE  GhostsFew'
<1> DEFINE s == [text |-> count + 1, how |-> how]
<1>1. /\ emitted' = emitted \cup {s} /\ UNCHANGED <<msgs, unsaid, inbox, opening, refused, crossed>>
      /\ list' = IF how = "forward" THEN list ELSE Append(list, Bubble(count + 1, how))
  BY DEF Send
<1>2. s \notin emitted
  <2>1. count \in Nat /\ \A p \in emitted : p.text <= count
    BY ShapeTypes DEF Shaped, TextsApart
  <2>2. s.text = count + 1
    OBVIOUS
  <2> HIDE DEF s
  <2> QED BY <2>1, <2>2
<1>3. Cardinality(emitted') = Cardinality(emitted) + 1
  BY <1>1, <1>2, OwedFinite, FS_AddElement
<1>4. Owed' = Owed
  BY <1>1 DEF Owed, Coming, Waiting
<1>5. Cardinality(Bubbles(list')) <= Cardinality(Bubbles(list)) + 1
  <2>1. CASE how = "forward"
    BY <2>1, <1>1, OwedFinite
  <2>2. CASE how # "forward"
    <3> DEFINE e == Bubble(count + 1, how)
    <3>1. e \in Shown /\ e.id = 0
      <4>1. count + 1 \in 0 .. MaxWritten /\ 0 \in 0 .. MaxWritten
        BY ShapeTypes DEF Send
      <4> QED BY <4>1 DEF Bubble, Shown, Ways
    <3>2. list' = Append(list, e)
      BY <2>2, <1>1
    <3> HIDE DEF e
    <3>3. Bubbles(list') = Bubbles(list) \cup {Len(list) + 1} /\ Len(list) + 1 \notin Bubbles(list)
      BY <3>1, <3>2, ListAppend, ShapeTypes
    <3>4. Cardinality(Bubbles(list')) = Cardinality(Bubbles(list)) + 1
      BY <3>3, OwedFinite, FS_AddElement
    <3> QED BY <3>4, OwedFinite
  <2> QED BY <2>1, <2>2
<1>6. Cardinality(Bubbles(list')) \in Nat
  BY <1>1, SendShape, BubblesFinite DEF Shaped, MessagesTypeOK
<1> QED BY <1>1, <1>3, <1>4, <1>5, <1>6, OwedFinite DEF GhostsFew

LEMMA GhostsSave ==
  ASSUME Shaped, GhostsFew, Save
  PROVE  GhostsFew'
<1>1. PICK s \in emitted :
           /\ Stores(s.text, "me", s.how) /\ emitted' = emitted \ {s}
           /\ UNCHANGED <<count, inbox, opening, screen, cache, ops, history>>
           /\ Coming' = Coming \cup {Len(msgs) + 1} /\ Len(msgs) + 1 \notin Coming
  BY SaveIs
<1>2. Stores(s.text, "me", s.how)
  BY <1>1
<1>3. Coming' = Coming \cup {Len(msgs) + 1} /\ Len(msgs) + 1 \notin Coming
  BY <1>1
<1>4. Owed' = Owed \cup {Len(msgs) + 1} /\ Len(msgs) + 1 \notin Owed
  <2>1. \A id \in Coming : msgs'[id] = msgs[id]
    BY <1>2, OwedFinite DEF Stores
  <2>2. msgs'[Len(msgs) + 1].by = "me"
    BY <1>2 DEF Stores
  <2> QED BY <2>1, <2>2, <1>3 DEF Owed
<1>5. Cardinality(Owed') = Cardinality(Owed) + 1 /\ Cardinality(emitted') = Cardinality(emitted) - 1
  BY <1>1, <1>4, OwedFinite, FS_AddElement, FS_RemoveElement
<1> QED BY <1>1, <1>5, OwedFinite DEF GhostsFew, screen, history

LEMMA GhostsSaveOther ==
  ASSUME Shaped, GhostsFew, NEW by \in {"twin", "peer"}, SaveOther(by)
  PROVE  GhostsFew'
<1>1. UNCHANGED <<emitted, inbox, opening, screen, cache, ops, history>>
  BY SaveOtherIs
<1>2. Stores(count + 1, by, "cipher")
  BY SaveOtherIs
<1>3. Coming' = Coming \cup {Len(msgs) + 1} /\ Len(msgs) + 1 \notin Coming
  BY SaveOtherIs
<1>4. Owed' = Owed
  <2>1. \A id \in Coming : msgs'[id] = msgs[id]
    BY <1>2, OwedFinite DEF Stores
  <2>2. msgs'[Len(msgs) + 1].by # "me"
    BY <1>2 DEF Stores
  <2> QED BY <2>1, <2>2, <1>3 DEF Owed
<1> QED BY <1>1, <1>4 DEF GhostsFew, screen, history

LEMMA GhostsEnd ==
  ASSUME Shaped, GhostsFew, NEW o \in opening, EndsWith(o)
  PROVE  GhostsFew'
<1>1. /\ o.id \in 1 .. Len(msgs) /\ Coming' = Coming \ {o.id}
      /\ crossed' = (crossed \/ (open /\ o.id \in IdsOf(list) /\ msgs[o.id].by = "me" /\ Bubbles(list) # {}))
      /\ UNCHANGED <<msgs, emitted, open, refused>>
  BY DEF EndsWith, server
<1>2. Owed' = Owed \ {o.id}
  BY <1>1 DEF Owed
<1>3. Shaped' /\ Cardinality(Owed') \in Nat /\ Cardinality(Owed) <= Cardinality(Owed') + 1
      /\ (msgs[o.id].by # "me" => Owed' = Owed)
  <2>1. Shaped'
    BY EndShape
  <2>2. o.id \in Owed => Cardinality(Owed') = Cardinality(Owed) - 1
    BY <1>2, OwedFinite, FS_RemoveElement
  <2>3. o.id \notin Owed => Owed' = Owed
    BY <1>2
  <2>4. msgs[o.id].by # "me" => o.id \notin Owed
    BY DEF Owed
  <2>5. IsFiniteSet(Owed')
    BY <1>2, OwedFinite, FS_Subset
  <2> QED BY <2>1, <2>2, <2>3, <2>4, <2>5, OwedFinite, FS_CardinalityType
<1>4. ASSUME Bubbles(list') = {} PROVE GhostsFew'
  <2>1. Cardinality(Bubbles(list')) = 0
    BY <1>4, FS_EmptySet
  <2> QED BY <2>1, <1>1, <1>3, OwedFinite DEF GhostsFew
<1>5. CASE EndsUnlisted(o)
  <2>1. list' = list /\ (~open \/ o.id \in IdsOf(list))
    BY <1>5 DEF EndsUnlisted
  <2>2. CASE ~open
    <3>1. Bubbles(list') = {}
      BY <2>1, <2>2 DEF Shaped, ClosedEmpty, Bubbles
    <3> QED BY <3>1, <1>4
  <2>3. CASE open /\ msgs[o.id].by = "me" /\ Bubbles(list) # {}
    BY <2>1, <2>3, <1>1 DEF GhostsFew
  <2>4. CASE Bubbles(list) = {}
    BY <2>1, <2>4, <1>4
  <2>5. CASE msgs[o.id].by # "me"
    BY <2>1, <2>5, <1>1, <1>3 DEF GhostsFew
  <2> QED BY <2>2, <2>3, <2>4, <2>5
<1>6. CASE EndsInPlace(o)
  <2>1. PICK at \in Bubbles(list) : Bubbles(list') = Bubbles(list) \ {at}
    BY <1>6, EndListed
  <2>2. Cardinality(Bubbles(list')) = Cardinality(Bubbles(list)) - 1
    BY <2>1, OwedFinite, FS_RemoveElement
  <2>3. crossed => crossed'
    BY <1>1
  <2>4. UNCHANGED <<emitted, refused>>
    BY <1>1
  <2>5. ASSUME ~crossed PROVE Cardinality(Bubbles(list')) <= Cardinality(emitted') + Cardinality(Owed') + refused'
    <3>1. Cardinality(Bubbles(list)) <= Cardinality(emitted) + Cardinality(Owed) + refused
      BY <2>5 DEF GhostsFew
    <3> QED BY <2>2, <2>4, <3>1, <1>3, OwedFinite
  <2> QED BY <2>3, <2>5 DEF GhostsFew
<1>7. CASE EndsLast(o)
  <2>1. Bubbles(list') = Bubbles(list) /\ (Own(msgs[o.id]) => Bubbles(list) = {})
    BY <1>7, EndListed DEF EndsLast
  <2>2. CASE Bubbles(list) = {}
    BY <2>1, <2>2, <1>4
  <2>3. CASE ~Own(msgs[o.id])
    BY <2>1, <2>3, <1>1, <1>3 DEF GhostsFew, Own
  <2> QED BY <2>1, <2>2, <2>3
<1> QED BY <1>5, <1>6, <1>7 DEF EndsWith

LEMMA GhostsArrive ==
  ASSUME Shaped, GhostsFew, Arrive
  PROVE  GhostsFew'
<1>1. /\ UNCHANGED <<server, inbox, opening, open, ops, refused, raced>>
      /\ ArrivesAside \/ ArrivesAnew \/ ArrivesBefore \/ ArrivesAfter
  BY ArriveIs
<1>2. Shaped' /\ Coming' = Coming
  BY ArriveShape
<1>3. Owed' = Owed
  BY <1>1, <1>2 DEF Owed, server
<1>4. CASE ArrivesAside
  BY <1>1, <1>3, <1>4 DEF ArrivesAside, GhostsFew, server
<1>5. CASE ArrivesAnew
  <2>1. Bubbles(list') = {}
    BY <1>5, GotListIs DEF ArrivesAnew
  <2>2. Cardinality(Bubbles(list')) = 0
    BY <2>1, FS_EmptySet
  <2> QED BY <2>2, <1>1, <1>3, OwedFinite DEF GhostsFew, server
<1>6. CASE ArrivesBefore \/ ArrivesAfter
  <2>1. Cardinality(Bubbles(list')) <= Cardinality(Bubbles(list)) /\ list' \in Seq(Shown)
    BY <1>6, ArriveListed
  <2>2. Cardinality(Bubbles(list')) \in Nat
    BY <2>1, BubblesFinite
  <2>3. crossed' = crossed
    BY <1>6 DEF ArrivesBefore, ArrivesAfter
  <2> QED BY <2>1, <2>2, <2>3, <1>1, <1>3, OwedFinite DEF GhostsFew, server
<1> QED BY <1>1, <1>4, <1>5, <1>6

LEMMA GhostsKept ==
  ASSUME Shaped, GhostsFew, [MessagesNext]_messagesVars
  PROVE  GhostsFew'
<1>1. ASSUME NEW how \in Ways, Send(how) PROVE GhostsFew'
  BY <1>1, GhostsSend
<1>2. ASSUME Save PROVE GhostsFew'
  BY <1>2, GhostsSave
<1>3. ASSUME Refuse PROVE GhostsFew'
  <2>1. PICK s \in emitted :
        /\ emitted' = emitted \ {s} /\ refused' = refused + 1
        /\ UNCHANGED <<msgs, count, unsaid, inbox, opening, screen, cache, ops, dropped, crossed, raced, leapt>>
    BY <1>3 DEF Refuse
  <2>2. Cardinality(emitted') = Cardinality(emitted) - 1
    BY <2>1, OwedFinite, FS_RemoveElement
  <2>3. Owed' = Owed
    BY <2>1 DEF Owed, Coming, Waiting
  <2> QED BY <2>1, <2>2, <2>3, OwedFinite DEF GhostsFew, screen
<1>4. ASSUME Announce PROVE GhostsFew'
  <2>1. PICK id \in unsaid : /\ unsaid' = unsaid \ {id} /\ Tell("message", id)
                           /\ UNCHANGED <<msgs, count, emitted, opening, screen, cache, ops, history>>
    BY <1>4 DEF Announce
  <2>2. Coming' = Coming
    BY <2>1, AnnounceIs
  <2> QED BY <2>1, <2>2, GhostsSame DEF screen, history
<1>5. ASSUME NEW by \in {"twin", "peer"}, SaveOther(by) PROVE GhostsFew'
  BY <1>5, GhostsSaveOther
<1>6. ASSUME NEW id \in 1 .. Len(msgs), Marked(id) PROVE GhostsFew'
  <2>1. /\ MsgsAlike \/ msgs' = msgs
        /\ list' \in Seq(Shown) /\ Alike(list', list) /\ Coming' = Coming
        /\ UNCHANGED <<emitted, refused, crossed>>
    BY <1>6, MarkedIs DEF history
  <2>2. Bubbles(list') = Bubbles(list) /\ \A i \in 1 .. Len(msgs) : msgs'[i].by = msgs[i].by
    BY <2>1, ListAlike DEF MsgsAlike
  <2> QED BY <2>1, <2>2, GhostsSame
<1>7. ASSUME BeginMessage PROVE GhostsFew'
  <2>1. UNCHANGED <<server, screen, history>> /\ Shaped'
    BY <1>7, BeginShape DEF BeginMessage
  <2>2. CASE open
    <3>1. Coming' = Coming
      BY <1>7, <2>2, BeginComing
    <3> QED BY <2>1, <3>1, GhostsSame DEF server, screen, history
  <2>3. CASE ~open
    <3>1. Bubbles(list) = {} /\ list' = list
      BY <2>1, <2>3 DEF Shaped, ClosedEmpty, Bubbles, screen
    <3>2. Coming' \subseteq Coming
      BY <1>7, BeginComing
    <3>3. Owed' \subseteq Owed
      BY <3>2, <2>1 DEF Owed, server
    <3>4. Cardinality(Owed') \in Nat /\ Cardinality(Bubbles(list')) = 0
      BY <3>1, <3>3, OwedFinite, FS_Subset, FS_CardinalityType, FS_EmptySet
    <3> QED BY <2>1, <3>4, OwedFinite DEF GhostsFew, server, history
  <2>4. open \in BOOLEAN
    BY DEF Shaped, MessagesTypeOK
  <2> QED BY <2>2, <2>3, <2>4
<1>8. ASSUME EndMessage PROVE GhostsFew'
  BY <1>8, EndIs, GhostsEnd
<1>9. ASSUME OnDeleted \/ OnEdited PROVE GhostsFew'
  <2>1. Coming' = Coming /\ list' \in Seq(Shown) /\ Alike(list', list)
    BY <1>9, HeardShape
  <2>2. Bubbles(list') = Bubbles(list) /\ UNCHANGED <<server, refused, crossed>>
    BY <1>9, <2>1, ListAlike DEF OnDeleted, OnEdited
  <2> QED BY <2>1, <2>2, GhostsSame DEF server
<1>10. ASSUME Open PROVE GhostsFew'
  BY <1>10, OpenShape, GhostsSame DEF Open, server, history
<1>11. ASSUME Close PROVE GhostsFew'
  <2>1. list' = <<>> /\ UNCHANGED <<server, refused>> /\ Coming' = Coming
    BY <1>11, CloseShape DEF Close
  <2>2. Cardinality(Bubbles(list')) = 0
    <3>1. Bubbles(list') = {}
      BY <2>1 DEF Bubbles
    <3> QED BY <3>1, FS_EmptySet
  <2>3. Owed' = Owed
    BY <2>1 DEF Owed, server
  <2> QED BY <2>1, <2>2, <2>3, OwedFinite DEF GhostsFew, server
<1>12. ASSUME NEW kind \in Loads \ {"initial"}, NEW arg \in 0 .. Len(msgs), Load(kind, arg) PROVE GhostsFew'
  BY <1>12, LoadIs, GhostsSame DEF Load, server, history
<1>13. ASSUME Answer PROVE GhostsFew'
  BY <1>13, AnswerShape, GhostsSame DEF Answer, server
<1>14. ASSUME Arrive PROVE GhostsFew'
  BY <1>14, GhostsArrive
<1>15. ASSUME UNCHANGED messagesVars PROVE GhostsFew'
  BY <1>15 DEF messagesVars, GhostsFew, Owed, Coming, Waiting
<1>16. ASSUME NEW id \in 1 .. Len(msgs), NEW by \in {"me", "twin", "peer"}, Delete(by, id) \/ Edit(by, id)
       PROVE GhostsFew'
  BY <1>6, <1>16 DEF Marked, Senders
<1>17. ASSUME NEW id \in 1 .. Len(msgs), Destruct(id) PROVE GhostsFew'
  BY <1>6, <1>17 DEF Marked
<1> QED BY <1>1, <1>2, <1>3, <1>4, <1>5, <1>16, <1>17, <1>7, <1>8, <1>9, <1>10, <1>11, <1>12, <1>13,
           <1>14, <1>15 DEF MessagesNext

-----------------------------------------------------------------------------
(* Messages: what a list and the cache say of the user's own messages.     *)

MsgsKept ==
  /\ Len(msgs') \in Nat /\ Len(msgs) <= Len(msgs') /\ (dropped => dropped')
  /\ \A j \in 1 .. Len(msgs) : msgs'[j].text = msgs[j].text /\ msgs'[j].by = msgs[j].by /\ msgs'[j].how = msgs[j].how

LEMMA KeptAlike ==
  ASSUME Shaped, MsgsAlike \/ msgs' = msgs, dropped => dropped'
  PROVE  MsgsKept
BY ShapeTypes DEF MsgsAlike, MsgsKept

LEMMA KeptStores ==
  ASSUME Shaped, NEW words, NEW by, NEW how, Stores(words, by, how), dropped' = dropped
  PROVE  MsgsKept
BY ShapeTypes DEF Stores, MsgsKept

Bubbled(s, words) == \E i \in Bubbles(s) : s[i].how = "cipher" /\ s[i].says = words
PlainSoFar ==
  ~dropped /\ \A i \in 1 .. Len(msgs) : msgs[i].by = "peer" \/ (msgs[i].by = "me" /\ msgs[i].how = "cipher")
\* While nothing but plain texts was sent from this device, each has its bubble
\* until it is listed, and nothing says what another message says.
OwnSays ==
  /\ \A s \in emitted : s.how = "cipher" => Bubbled(list, s.text)
  /\ \A id \in Coming : FromMe(id) => Bubbled(list, msgs[id].text)
  /\ \A i \in 1 .. Len(list) : list[i].id # 0 => list[i].says \in {0, msgs[list[i].id].text}
  /\ \A id \in 1 .. Len(msgs) : cache[id] \in {0, msgs[id].text}
  /\ \A o \in opening : o.says \in {0, msgs[o.id].text}
OwnRight ==
  /\ PlainSoFar => OwnSays
  /\ \A id \in Ids : id > Len(msgs) => cache[id] = 0

LEMMA PlainBack ==
  ASSUME Shaped, MsgsKept, PlainSoFar'
  PROVE  PlainSoFar
<1>1. \A j \in 1 .. Len(msgs) : j \in 1 .. Len(msgs')
  BY ShapeTypes DEF MsgsKept
<1> QED BY <1>1 DEF PlainSoFar, MsgsKept

LEMMA BubbledAlike ==
  ASSUME NEW s, NEW r, Alike(s, r), NEW words
  PROVE  Bubbled(s, words) <=> Bubbled(r, words)
BY AlikeKeeps DEF Alike, Bubbled, Bubbles

\* A step that writes nothing, and changes no more on the page than marks.
LEMMA OwnSame ==
  ASSUME Shaped, OwnRight, MsgsAlike \/ msgs' = msgs, dropped' = dropped, Alike(list', list),
         Coming' \subseteq Coming, emitted' \subseteq emitted, opening' \subseteq opening, cache' = cache
  PROVE  OwnRight'
<1>1. MsgsKept /\ Len(msgs') = Len(msgs)
  BY KeptAlike DEF MsgsAlike
<1>2. \A id \in Ids : id > Len(msgs') => cache'[id] = 0
  BY <1>1 DEF OwnRight
<1>3. ASSUME PlainSoFar' PROVE OwnSays'
  <2>1. OwnSays
    BY <1>1, <1>3, PlainBack DEF OwnRight
  <2>2. \A j \in 1 .. Len(msgs) : msgs'[j].text = msgs[j].text /\ msgs'[j].by = msgs[j].by
    BY <1>1 DEF MsgsKept
  <2>3. \A words : Bubbled(list', words) <=> Bubbled(list, words)
    BY BubbledAlike
  <2>4. \A s \in emitted' : s.how = "cipher" => Bubbled(list', s.text)
    BY <2>1, <2>3 DEF OwnSays
  <2>5. \A id \in Coming' : msgs'[id].by = "me" => Bubbled(list', msgs'[id].text)
    BY <2>1, <2>2, <2>3, OwedFinite DEF OwnSays, FromMe
  <2>6. \A i \in 1 .. Len(list') : list'[i].id # 0 => list'[i].says \in {0, msgs'[list'[i].id].text}
    <3> TAKE i \in 1 .. Len(list')
    <3>1. i \in 1 .. Len(list) /\ list'[i].id = list[i].id /\ list'[i].says = list[i].says
      BY DEF Alike
    <3>2. list[i].id # 0 => list[i].id \in 1 .. Len(msgs)
      BY <3>1, ShapeTypes DEF Shaped, Refer
    <3> QED BY <3>1, <3>2, <2>1, <2>2 DEF OwnSays
  <2>7. \A id \in 1 .. Len(msgs') : cache'[id] \in {0, msgs'[id].text}
    BY <1>1, <2>1, <2>2 DEF OwnSays
  <2>8. \A o \in opening' : o.says \in {0, msgs'[o.id].text}
    <3> TAKE o \in opening'
    <3>1. o \in opening /\ o.id \in 1 .. Len(msgs)
      BY ShapeTypes DEF Shaped, MessagesTypeOK, Refer, Ids
    <3> QED BY <3>1, <2>1, <2>2 DEF OwnSays
  <2> QED BY <2>4, <2>5, <2>6, <2>7, <2>8 DEF OwnSays, FromMe
<1> QED BY <1>2, <1>3 DEF OwnRight

LEMMA BubbledAppend ==
  ASSUME NEW s \in Seq(Shown), NEW e \in Shown, NEW words
  PROVE  /\ Bubbled(s, words) => Bubbled(Append(s, e), words)
         /\ e.id = 0 /\ e.how = "cipher" => Bubbled(Append(s, e), e.says)
<1> DEFINE r == Append(s, e)
<1>1. /\ \A i \in 1 .. Len(s) : r[i] = s[i]
      /\ r[Len(s) + 1] = e
      /\ Bubbles(r) = Bubbles(s) \cup (IF e.id = 0 THEN {Len(s) + 1} ELSE {})
  BY ListAppend
<1> HIDE DEF r
<1>2. Bubbled(s, words) => Bubbled(r, words)
  <2> SUFFICES ASSUME NEW i \in Bubbles(s), s[i].how = "cipher" /\ s[i].says = words PROVE Bubbled(r, words)
    BY DEF Bubbled
  <2>1. i \in Bubbles(r) /\ i \in 1 .. Len(s)
    BY <1>1 DEF Bubbles
  <2> QED BY <2>1, <1>1 DEF Bubbled
<1>3. e.id = 0 /\ e.how = "cipher" => Bubbled(r, e.says)
  BY <1>1 DEF Bubbled
<1> QED BY <1>2, <1>3 DEF r

LEMMA OwnSend ==
  ASSUME Shaped, OwnRight, NEW how \in Ways, Send(how)
  PROVE  OwnRight'
<1> DEFINE e == Bubble(count + 1, how)
           s == [text |-> count + 1, how |-> how]
<1>1. /\ emitted' = emitted \cup {s} /\ UNCHANGED <<msgs, unsaid, inbox, opening, cache, dropped>>
      /\ list' = IF how = "forward" THEN list ELSE Append(list, e)
  BY DEF Send
<1>2. list \in Seq(Shown) /\ Len(list) \in Nat
  BY ShapeTypes
<1>3. e \in Shown /\ e.id = 0 /\ e.how = how /\ e.says = count + 1
  <2>1. count + 1 \in 0 .. MaxWritten /\ 0 \in 0 .. MaxWritten
    BY ShapeTypes DEF Send
  <2> QED BY <2>1 DEF Bubble, Shown, Ways
<1>4. s.text = count + 1 /\ s.how = how
  OBVIOUS
<1> HIDE DEF e, s
<1>5. Coming' = Coming
  BY <1>1 DEF Coming, Waiting
<1>6. ASSUME PlainSoFar' PROVE OwnSays'
  <2>1. OwnSays
    BY <1>1, <1>6 DEF PlainSoFar, OwnRight
  <2>2. \A words : Bubbled(list, words) => Bubbled(list', words)
    BY <1>1, <1>2, <1>3, BubbledAppend
  <2>3. how = "cipher" => Bubbled(list', count + 1)
    BY <1>1, <1>2, <1>3, BubbledAppend
  <2>4. \A p \in emitted' : p.how = "cipher" => Bubbled(list', p.text)
    BY <1>1, <1>4, <2>1, <2>2, <2>3 DEF OwnSays
  <2>5. \A i \in 1 .. Len(list') : (i \in 1 .. Len(list) /\ list'[i] = list[i]) \/ list'[i].id = 0
    <3>1. CASE how = "forward"
      BY <3>1, <1>1
    <3>2. CASE how # "forward"
      <4>1. /\ Len(list') = Len(list) + 1 /\ \A i \in 1 .. Len(list) : list'[i] = list[i]
            /\ list'[Len(list) + 1] = e
        BY <3>2, <1>1, <1>2, <1>3, ListAppend
      <4> QED BY <4>1, <1>2, <1>3
    <3> QED BY <3>1, <3>2
  <2>6. \A i \in 1 .. Len(list') : list'[i].id # 0 => list'[i].says \in {0, msgs[list'[i].id].text}
    BY <2>1, <2>5 DEF OwnSays
  <2>7. \A id \in Coming : FromMe(id) => Bubbled(list', msgs[id].text)
    BY <2>1, <2>2 DEF OwnSays
  <2> QED BY <1>1, <1>5, <2>1, <2>4, <2>6, <2>7 DEF OwnSays, FromMe
<1> QED BY <1>1, <1>6 DEF OwnRight

\* A message is stored.
LEMMA OwnStores ==
  ASSUME Shaped, Shaped', OwnRight, NEW words \in Ids, NEW by \in Senders, NEW how \in Ways, Stores(words, by, how),
         Coming' = Coming \cup {Len(msgs) + 1}, emitted' \subseteq emitted,
         UNCHANGED <<opening, list, cache, dropped>>,
         by = "me" /\ how = "cipher" => \E s \in emitted : s.how = "cipher" /\ s.text = words
  PROVE  OwnRight'
<1> DEFINE n == Len(msgs) + 1
<1>1. /\ n \in Nat /\ Len(msgs') = n /\ msgs'[n].by = by /\ msgs'[n].text = words /\ msgs'[n].how = how
      /\ \A j \in 1 .. Len(msgs) : msgs'[j] = msgs[j]
      /\ \A j \in 1 .. Len(msgs') : j \in 1 .. Len(msgs) \/ j = n
      /\ n \in 1 .. Len(msgs')
  BY ShapeTypes DEF Stores
<1>2. MsgsKept
  BY KeptStores
<1>3. \A id \in Ids : id > Len(msgs') => cache'[id] = 0
  <2>1. \A id \in Ids : id > n => id > Len(msgs)
    BY ShapeTypes DEF Ids
  <2> QED BY <1>1, <2>1 DEF OwnRight
<1>4. n \in Ids => cache[n] = 0
  BY ShapeTypes DEF OwnRight
<1>5. n \in Ids
  <2>1. Len(msgs') <= MaxWritten
    BY DEF Shaped, MessagesTypeOK
  <2> QED BY <2>1, <1>1, ShapeTypes DEF Ids
<1> HIDE DEF n
<1>6. ASSUME PlainSoFar' PROVE OwnSays'
  <2>1. OwnSays
    BY <1>2, <1>6, PlainBack DEF OwnRight
  <2>2. \A s \in emitted' : s.how = "cipher" => Bubbled(list', s.text)
    BY <2>1 DEF OwnSays
  <2>3. by # "me" \/ Bubbled(list, words)
    <3>1. by = "me" => how = "cipher"
      BY <1>1, <1>6 DEF PlainSoFar
    <3> QED BY <3>1, <2>1 DEF OwnSays
  <2>4. \A id \in Coming' : msgs'[id].by = "me" => Bubbled(list', msgs'[id].text)
    <3>1. \A id \in Coming : id \in 1 .. Len(msgs)
      BY OwedFinite
    <3>2. \A id \in Coming' : id \in Coming \/ id = n
      BY DEF n
    <3> QED BY <3>1, <3>2, <2>1, <2>3, <1>1 DEF OwnSays, FromMe
  <2>5. \A i \in 1 .. Len(list') : list'[i].id # 0 => list'[i].says \in {0, msgs'[list'[i].id].text}
    <3> TAKE i \in 1 .. Len(list')
    <3>1. list[i].id # 0 => list[i].id \in 1 .. Len(msgs)
      BY ShapeTypes DEF Shaped, Refer
    <3> QED BY <3>1, <2>1, <1>1 DEF OwnSays
  <2>6. \A id \in 1 .. Len(msgs') : cache'[id] \in {0, msgs'[id].text}
    BY <2>1, <1>1, <1>4, <1>5 DEF OwnSays
  <2>7. \A o \in opening' : o.says \in {0, msgs'[o.id].text}
    <3> TAKE o \in opening'
    <3>1. o \in opening /\ o.id \in 1 .. Len(msgs)
      BY ShapeTypes DEF Shaped, MessagesTypeOK, Refer, Ids
    <3> QED BY <3>1, <2>1, <1>1 DEF OwnSays
  <2> QED BY <2>2, <2>4, <2>5, <2>6, <2>7 DEF OwnSays, FromMe
<1> QED BY <1>3, <1>6 DEF OwnRight

LEMMA OwnSave ==
  ASSUME Shaped, OwnRight, Save
  PROVE  OwnRight'
<1>1. PICK s \in emitted :
           /\ Stores(s.text, "me", s.how) /\ emitted' = emitted \ {s}
           /\ UNCHANGED <<count, inbox, opening, screen, cache, ops, history>>
           /\ Coming' = Coming \cup {Len(msgs) + 1}
  BY SaveIs
<1>2. s.text \in Ids /\ s.how \in Ways
  BY DEF Shaped, MessagesTypeOK
<1>3. Shaped'
  BY SaveShape
<1>4. emitted' \subseteq emitted /\ UNCHANGED <<opening, list, cache, dropped>>
  BY <1>1 DEF screen, history
<1> QED BY <1>1, <1>2, <1>3, <1>4, OwnStores DEF Senders

LEMMA OwnSaveOther ==
  ASSUME Shaped, OwnRight, NEW by \in {"twin", "peer"}, SaveOther(by)
  PROVE  OwnRight'
<1>1. /\ Stores(count + 1, by, "cipher")
      /\ UNCHANGED <<emitted, inbox, opening, screen, cache, ops, history>>
      /\ Coming' = Coming \cup {Len(msgs) + 1}
  BY SaveOtherIs
<1>2. count + 1 \in Ids /\ by \in Senders /\ by # "me" /\ "cipher" \in Ways
  BY ShapeTypes DEF Ids, Senders, Ways, SaveOther
<1>3. Shaped'
  BY SaveOtherShape
<1>4. emitted' \subseteq emitted /\ UNCHANGED <<opening, list, cache, dropped>>
  BY <1>1 DEF screen, history
<1> QED BY <1>1, <1>2, <1>3, <1>4, OwnStores

\* What is read of a message is its text, or nothing.
LEMMA ReadRight ==
  ASSUME Shaped, OwnSays, NEW id \in 1 .. Len(msgs)
  PROVE  Read(id) \in {0, msgs[id].text}
BY DEF Read, OwnSays

LEMMA EchoRight ==
  ASSUME Shaped, OwnSays, PlainSoFar, NEW id \in Coming, Own(msgs[id])
  PROVE  /\ FromMe(id) /\ Match(list, id) \in Bubbles(list) /\ Match(list, id) # 0
         /\ list[Match(list, id)].how = "cipher" /\ list[Match(list, id)].says = msgs[id].text
<1>1. id \in 1 .. Len(msgs) /\ msgs[id].by = "me" /\ msgs[id].how = "cipher"
  BY OwedFinite DEF PlainSoFar, Own
<1>2. PICK i \in Bubbles(list) : list[i].how = "cipher" /\ list[i].says = msgs[id].text
  BY <1>1 DEF OwnSays, FromMe, Bubbled
<1> QED BY <1>1, <1>2, MatchIs, ShapeTypes DEF FromMe

LEMMA OwnBegin ==
  ASSUME Shaped, OwnRight, BeginMessage
  PROVE  OwnRight'
<1> DEFINE id == Head(inbox).id
<1>1. /\ inbox # <<>> /\ Head(inbox).ev = "message" /\ Pop /\ id \in 1 .. Len(msgs)
      /\ open => \E o \in [id : Ids, says : 0 .. MaxWritten] :
           /\ o.id = id /\ o.says = (IF msgs[id].how = "file" THEN 0 ELSE Begun(id))
           /\ opening' = opening \cup {o}
           /\ cache' = [cache EXCEPT ![id] = IF Begun(id) = 0 THEN cache[id] ELSE Begun(id)]
      /\ ~open => UNCHANGED <<opening, cache>>
      /\ UNCHANGED <<server, screen, ops, history>>
  BY BeginIs
<1>2. Coming' \subseteq Coming
  BY BeginComing
<1>3. UNCHANGED <<msgs, emitted, list, dropped>>
  BY <1>1 DEF server, screen, history
<1>4. CASE ~open
  BY <1>1, <1>2, <1>3, <1>4, OwnSame, AlikeItself
<1>5. CASE open
  <2>1. PICK o \in [id : Ids, says : 0 .. MaxWritten] :
           /\ o.id = id /\ o.says = (IF msgs[id].how = "file" THEN 0 ELSE Begun(id))
           /\ opening' = opening \cup {o}
           /\ cache' = [cache EXCEPT ![id] = IF Begun(id) = 0 THEN cache[id] ELSE Begun(id)]
    BY <1>1, <1>5
  <2>2. id \in Coming
    <3>1. Pending("message", id)
      BY <1>1, StepPops
    <3> QED BY <3>1, ComingIs
  <2>3. cache \in [Ids -> 0 .. MaxWritten] /\ \A j \in 1 .. Len(msgs) : j \in Ids
    BY ShapeTypes DEF Shaped, MessagesTypeOK
  <2> HIDE DEF id
  <2>4. \A j \in Ids : cache'[j] = IF j = id THEN (IF Begun(id) = 0 THEN cache[id] ELSE Begun(id)) ELSE cache[j]
    BY <2>1, <2>3
  <2>5. \A j \in Ids : j > Len(msgs) => cache'[j] = 0
    <3>1. \A j \in Ids : j > Len(msgs) => j # id
      BY <1>1, ShapeTypes
    <3> QED BY <3>1, <2>4 DEF OwnRight
  <2>6. ASSUME PlainSoFar' PROVE OwnSays'
    <3>1. OwnSays /\ PlainSoFar
      BY <1>3, <2>6 DEF PlainSoFar, OwnRight
    <3>2. Begun(id) \in {0, msgs[id].text}
      <4>1. CASE Own(msgs[id]) /\ Match(list, id) # 0
        BY <4>1, <2>2, <3>1, EchoRight DEF Begun
      <4>2. CASE ~(Own(msgs[id]) /\ Match(list, id) # 0)
        <5>1. Begun(id) = Read(id)
          BY <4>2 DEF Begun
        <5> QED BY <5>1, <1>1, <3>1, ReadRight
      <4> QED BY <4>1, <4>2
    <3>3. \A j \in 1 .. Len(msgs) : cache'[j] \in {0, msgs[j].text}
      BY <3>1, <3>2, <2>3, <2>4 DEF OwnSays
    <3>4. \A p \in opening' : p.says \in {0, msgs[p.id].text}
      BY <3>1, <3>2, <2>1 DEF OwnSays
    <3>5. \A j \in Coming' : msgs[j].by = "me" => Bubbled(list, msgs[j].text)
      BY <3>1, <1>2 DEF OwnSays, FromMe
    <3> QED BY <3>1, <3>3, <3>4, <3>5, <1>3 DEF OwnSays, FromMe
  <2> QED BY <2>5, <2>6, <1>3 DEF OwnRight
<1>6. open \in BOOLEAN
  BY DEF Shaped, MessagesTypeOK
<1> QED BY <1>4, <1>5, <1>6

LEMMA OwnEnd ==
  ASSUME Shaped, OwnRight, NEW o \in opening, EndsWith(o)
  PROVE  OwnRight'
<1>1. /\ o.id \in 1 .. Len(msgs) /\ opening' = opening \ {o} /\ Coming' = Coming \ {o.id}
      /\ UNCHANGED <<msgs, emitted, cache, dropped>>
  BY DEF EndsWith, server
<1>2. CASE EndsUnlisted(o)
  <2>1. Alike(list', list)
    BY <1>2, AlikeItself DEF EndsUnlisted
  <2> QED BY <2>1, <1>1, OwnSame
<1>3. CASE EndsInPlace(o) \/ EndsLast(o)
  <2>1. ASSUME PlainSoFar' PROVE OwnSays'
    <3>1. OwnSays /\ PlainSoFar
      BY <1>1, <2>1 DEF PlainSoFar, OwnRight
    <3>2. o.id \in Coming /\ o.says \in {0, msgs[o.id].text}
      BY <3>1, ComingIs DEF OwnSays
    <3>3. \A i \in 1 .. Len(list') :
            list'[i].id # 0 => list'[i].says \in {0, msgs[list'[i].id].text}
      <4>1. CASE EndsInPlace(o)
        <5>1. PICK at \in Bubbles(list) :
              /\ at = Match(list, o.id) /\ at \in 1 .. Len(list) /\ Len(list') = Len(list)
              /\ list'[at] = NewEntry(o.id, IF list[at].how = "file" THEN 0 ELSE list[at].says)
              /\ \A i \in 1 .. Len(list) : i # at => list'[i] = list[i]
          BY <4>1, EndListed
        <5>2. list[at].how = "cipher" /\ list[at].says = msgs[o.id].text
          BY <4>1, <5>1, <3>1, <3>2, EchoRight DEF EndsInPlace
        <5>3. list'[at].id = o.id /\ list'[at].says = msgs[o.id].text
          BY <5>1, <5>2 DEF NewEntry
        <5> QED BY <5>1, <5>3, <3>1 DEF OwnSays
      <4>2. CASE EndsLast(o)
        <5>1. /\ Len(list') = Len(list) + 1 /\ list'[Len(list) + 1] = NewEntry(o.id, o.says)
              /\ \A i \in 1 .. Len(list) : list'[i] = list[i]
          BY <4>2, EndListed
        <5>2. list'[Len(list) + 1].id = o.id /\ list'[Len(list) + 1].says = o.says
          BY <5>1 DEF NewEntry
        <5>3. \A i \in 1 .. Len(list') : i \in 1 .. Len(list) \/ i = Len(list) + 1
          BY <5>1, ShapeTypes
        <5> QED BY <5>1, <5>2, <5>3, <3>1, <3>2 DEF OwnSays
      <4> QED BY <1>3, <4>1, <4>2
    <3>4. ASSUME NEW words, words # msgs[o.id].text \/ ~FromMe(o.id), Bubbled(list, words) PROVE Bubbled(list', words)
      <4>1. PICK i \in Bubbles(list) : list[i].how = "cipher" /\ list[i].says = words
        BY <3>4 DEF Bubbled
      <4>2. CASE EndsInPlace(o)
        <5>1. PICK at \in Bubbles(list) :
              /\ at = Match(list, o.id) /\ at \in 1 .. Len(list) /\ Len(list') = Len(list)
              /\ Bubbles(list') = Bubbles(list) \ {at}
              /\ \A j \in 1 .. Len(list) : j # at => list'[j] = list[j]
          BY <4>2, EndListed
        <5>2. list[at].says = msgs[o.id].text /\ FromMe(o.id)
          BY <4>2, <5>1, <3>1, <3>2, EchoRight DEF EndsInPlace
        <5>3. i # at /\ i \in 1 .. Len(list)
          BY <3>4, <4>1, <5>2 DEF Bubbles
        <5> QED BY <4>1, <5>1, <5>3 DEF Bubbled
      <4>3. CASE EndsLast(o)
        <5>1. Bubbles(list') = Bubbles(list) /\ \A j \in 1 .. Len(list) : list'[j] = list[j]
          BY <4>3, EndListed
        <5>2. i \in 1 .. Len(list)
          BY DEF Bubbles
        <5> QED BY <4>1, <5>1, <5>2 DEF Bubbled
      <4> QED BY <1>3, <4>2, <4>3
    <3>5. \A s \in emitted : s.how = "cipher" => Bubbled(list', s.text)
      <4> TAKE s \in emitted
      <4>1. s.text # msgs[o.id].text
        BY <1>1 DEF Shaped, TextsApart
      <4> QED BY <4>1, <3>1, <3>4 DEF OwnSays
    <3>6. \A id \in Coming' : msgs[id].by = "me" => Bubbled(list', msgs[id].text)
      <4> TAKE id \in Coming'
      <4>1. id \in Coming /\ id # o.id /\ id \in 1 .. Len(msgs)
        BY <1>1, OwedFinite
      <4>2. msgs[id].text # msgs[o.id].text
        BY <4>1, <1>1 DEF Shaped, TextsApart
      <4> QED BY <4>1, <4>2, <3>1, <3>4 DEF OwnSays, FromMe
    <3> QED BY <3>1, <3>3, <3>5, <3>6, <1>1 DEF OwnSays, FromMe
  <2> QED BY <2>1, <1>1 DEF OwnRight
<1> QED BY <1>2, <1>3 DEF EndsWith

LEMMA OwnArrive ==
  ASSUME Shaped, OwnRight, Arrive
  PROVE  OwnRight'
<1>1. /\ cache' = [i \in Ids |-> IF i \in IdsOf(load.got) /\ Read(i) # 0 THEN Read(i) ELSE cache[i]]
      /\ UNCHANGED <<msgs, emitted, opening>>
      /\ ArrivesAside \/ ArrivesAnew \/ ArrivesBefore \/ ArrivesAfter
  BY ArriveIs DEF server
<1>2. Coming' = Coming
  BY ArriveShape
<1>3. \A i \in IdsOf(load.got) : i \in 1 .. Len(msgs)
  BY GotListIs DEF IdsOf
<1>4. \A i \in Ids : i > Len(msgs) => cache'[i] = 0
  <2>1. \A i \in Ids : i > Len(msgs) => i \notin IdsOf(load.got)
    BY <1>3, ShapeTypes
  <2> QED BY <1>1, <2>1 DEF OwnRight
<1>5. ASSUME PlainSoFar' PROVE OwnSays'
  <2>1. dropped => dropped'
    BY <1>1 DEF ArrivesAside, ArrivesAnew, ArrivesBefore, ArrivesAfter
  <2>2. OwnSays /\ PlainSoFar
    BY <1>1, <1>5, <2>1 DEF PlainSoFar, OwnRight
  <2>3. \A i \in 1 .. Len(msgs) : cache'[i] \in {0, msgs[i].text}
    <3>1. \A i \in 1 .. Len(msgs) : i \in Ids
      BY ShapeTypes
    <3> QED BY <3>1, <1>1, <2>2, ReadRight DEF OwnSays
  <2>4. \A words : Bubbled(list, words) => Bubbled(list', words)
    <3> TAKE words
    <3>1. CASE ArrivesAside
      BY <3>1 DEF ArrivesAside
    <3>2. CASE ArrivesAnew
      BY <3>2, <1>5 DEF ArrivesAnew, PlainSoFar, Bubbled
    <3>3. CASE ArrivesBefore \/ ArrivesAfter
      <4>1. \A i \in Bubbles(list) : list[i].how = "cipher" => \E j \in Bubbles(list') : list'[j] = list[i]
        BY <3>3, ArriveListed
      <4> QED BY <4>1 DEF Bubbled
    <3> QED BY <1>1, <3>1, <3>2, <3>3
  <2>5. \A i \in 1 .. Len(load.got) : GotList[i].says \in {0, msgs[GotList[i].id].text}
    <3> TAKE i \in 1 .. Len(load.got)
    <3>1. GotList[i].id = load.got[i].id /\ GotList[i].says = Read(load.got[i].id) /\ load.got[i].id \in 1 .. Len(msgs)
      BY GotListIs
    <3> QED BY <3>1, <2>2, ReadRight
  <2>6. \A i \in 1 .. Len(list') : list'[i].id # 0 => list'[i].says \in {0, msgs[list'[i].id].text}
    <3>1. CASE ArrivesAside
      BY <3>1, <2>2 DEF ArrivesAside, OwnSays
    <3>2. CASE ArrivesAnew
      <4>1. list' = GotList /\ Len(GotList) = Len(load.got)
        BY <3>2, GotListIs DEF ArrivesAnew
      <4> QED BY <4>1, <2>5
    <3>3. CASE ArrivesBefore \/ ArrivesAfter
      <4>1. \A j \in 1 .. Len(list') : \/ \E i \in 1 .. Len(list) : list'[j] = list[i]
                                       \/ \E i \in 1 .. Len(load.got) : list'[j] = GotList[i]
        BY <3>3, ArriveListed
      <4> QED BY <4>1, <2>2, <2>5 DEF OwnSays
    <3> QED BY <1>1, <3>1, <3>2, <3>3
  <2> QED BY <2>2, <2>3, <2>4, <2>6, <1>1, <1>2 DEF OwnSays, FromMe
<1> QED BY <1>1, <1>4, <1>5 DEF OwnRight

LEMMA OwnKept ==
  ASSUME Shaped, OwnRight, [MessagesNext]_messagesVars
  PROVE  OwnRight'
<1>1. ASSUME NEW how \in Ways, Send(how) PROVE OwnRight'
  BY <1>1, OwnSend
<1>2. ASSUME Save PROVE OwnRight'
  BY <1>2, OwnSave
<1>3. ASSUME Refuse PROVE OwnRight'
  <2>1. emitted' \subseteq emitted /\ UNCHANGED <<msgs, unsaid, inbox, opening, list, cache, dropped>>
    BY <1>3 DEF Refuse, screen
  <2>2. Coming' = Coming
    BY <2>1 DEF Coming, Waiting
  <2> QED BY <2>1, <2>2, OwnSame, AlikeItself
<1>4. ASSUME Announce PROVE OwnRight'
  <2>1. PICK id \in unsaid : /\ unsaid' = unsaid \ {id} /\ Tell("message", id)
                           /\ UNCHANGED <<msgs, count, emitted, opening, screen, cache, ops, history>>
    BY <1>4 DEF Announce
  <2>2. Coming' = Coming
    BY <2>1, AnnounceIs
  <2> QED BY <2>1, <2>2, OwnSame, AlikeItself DEF screen, history
<1>5. ASSUME NEW by \in {"twin", "peer"}, SaveOther(by) PROVE OwnRight'
  BY <1>5, OwnSaveOther
<1>6. ASSUME NEW id \in 1 .. Len(msgs), Marked(id) PROVE OwnRight'
  <2>1. /\ MsgsAlike \/ msgs' = msgs
        /\ Alike(list', list) /\ Coming' = Coming
        /\ UNCHANGED <<emitted, opening, cache, dropped>>
    BY <1>6, MarkedIs DEF history
  <2> QED BY <2>1, OwnSame
<1>7. ASSUME BeginMessage PROVE OwnRight'
  BY <1>7, OwnBegin
<1>8. ASSUME EndMessage PROVE OwnRight'
  BY <1>8, EndIs, OwnEnd
<1>9. ASSUME OnDeleted \/ OnEdited PROVE OwnRight'
  <2>1. Coming' = Coming /\ Alike(list', list)
    BY <1>9, HeardShape
  <2>2. UNCHANGED <<msgs, emitted, opening, cache, dropped>>
    BY <1>9 DEF OnDeleted, OnEdited, server
  <2> QED BY <2>1, <2>2, OwnSame
<1>10. ASSUME Open PROVE OwnRight'
  <2>1. Coming' = Coming /\ UNCHANGED <<msgs, emitted, opening, list, cache, dropped>>
    BY <1>10, OpenShape DEF Open, server, history
  <2> QED BY <2>1, OwnSame, AlikeItself
<1>11. ASSUME Close PROVE OwnRight'
  <2>1. /\ list' = <<>> /\ UNCHANGED <<msgs, emitted, opening, cache>> /\ Coming' = Coming
        /\ dropped' = (dropped \/ Bubbles(list) # {})
    BY <1>11, CloseShape DEF Close, server
  <2>2. ASSUME PlainSoFar' PROVE OwnSays'
    <3>1. OwnSays /\ Bubbles(list) = {}
      BY <2>1, <2>2 DEF PlainSoFar, OwnRight
    <3>2. \A words : ~Bubbled(list, words)
      BY <3>1 DEF Bubbled
    <3>3. Len(list') = 0
      BY <2>1
    <3> QED BY <3>1, <3>2, <3>3, <2>1 DEF OwnSays, FromMe
  <2> QED BY <2>1, <2>2 DEF OwnRight
<1>12. ASSUME NEW kind \in Loads \ {"initial"}, NEW arg \in 0 .. Len(msgs), Load(kind, arg) PROVE OwnRight'
  <2>1. Coming' = Coming /\ UNCHANGED <<msgs, emitted, opening, list, cache, dropped>>
    BY <1>12, LoadIs DEF Load, server, history
  <2> QED BY <2>1, OwnSame, AlikeItself
<1>13. ASSUME Answer PROVE OwnRight'
  <2>1. Coming' = Coming /\ UNCHANGED <<msgs, emitted, opening, list, cache, dropped>>
    BY <1>13, AnswerShape DEF Answer, server
  <2> QED BY <2>1, OwnSame, AlikeItself
<1>14. ASSUME Arrive PROVE OwnRight'
  BY <1>14, OwnArrive
<1>15. ASSUME UNCHANGED messagesVars PROVE OwnRight'
  <2>1. Coming' = Coming /\ UNCHANGED <<msgs, emitted, opening, list, cache, dropped>>
    BY <1>15 DEF messagesVars, Coming, Waiting
  <2> QED BY <2>1, OwnSame, AlikeItself
<1>16. ASSUME NEW id \in 1 .. Len(msgs), NEW by \in {"me", "twin", "peer"}, Delete(by, id) \/ Edit(by, id)
       PROVE OwnRight'
  BY <1>6, <1>16 DEF Marked, Senders
<1>17. ASSUME NEW id \in 1 .. Len(msgs), Destruct(id) PROVE OwnRight'
  BY <1>6, <1>17 DEF Marked
<1> QED BY <1>1, <1>2, <1>3, <1>4, <1>5, <1>16, <1>17, <1>7, <1>8, <1>9, <1>10, <1>11, <1>12, <1>13,
           <1>14, <1>15 DEF MessagesNext

-----------------------------------------------------------------------------
(* Messages: what a list knows of deletions and edits.                     *)

\* A deletion or an edit is shown, or its event is on the way, or it was overtaken.
KnownIn(m, q, r, id, gone, edited) ==
  /\ m[id].gone => gone \/ InQueue(q, "deleted", id) \/ id \in r
  /\ m[id].edited => edited \/ InQueue(q, "edited", id) \/ id \in r
KnowsIn(m, q, r, s) ==
  \A i \in 1 .. Len(s) : s[i].id # 0 => KnownIn(m, q, r, s[i].id, s[i].gone, s[i].edited)
Renewing == load.at = "read" /\ load.kind \in {"initial", "latest"}
FlagsKnown ==
  /\ Renewing \/ KnowsIn(msgs, inbox, raced, list)
  /\ KnowsIn(msgs, inbox, raced, load.got)
  /\ \A id \in Coming : KnownIn(msgs, inbox, raced, id, FALSE, FALSE)

\* A step that deletes and edits nothing, and takes no event of that kind.
Quiet ==
  /\ \A j \in 1 .. Len(msgs) : (msgs'[j].gone => msgs[j].gone) /\ (msgs'[j].edited => msgs[j].edited)
  /\ \A ev \in {"deleted", "edited"} : \A i : InQueue(inbox, ev, i) => InQueue(inbox', ev, i)
  /\ raced \subseteq raced'

Refers(s) == \A i \in 1 .. Len(s) : s[i].id # 0 => s[i].id \in 1 .. Len(msgs)

LEMMA RefersIs ==
  ASSUME Shaped
  PROVE  /\ Refers(list) /\ Refers(load.got)
         /\ \A i \in 1 .. Len(list) : list[i].gone \in BOOLEAN /\ list[i].edited \in BOOLEAN
         /\ \A i \in 1 .. Len(load.got) : load.got[i].gone \in BOOLEAN /\ load.got[i].edited \in BOOLEAN
<1>1. Refers(list)
  BY ShapeTypes DEF Shaped, Refer, Refers
<1>2. Refers(load.got)
  BY GotListIs DEF Refers
<1>3. \A i \in 1 .. Len(list) : list[i] \in Shown
  BY ShapeTypes
<1>4. \A i \in 1 .. Len(load.got) : load.got[i] \in Gots
  BY ShapeTypes
<1> QED BY <1>1, <1>2, <1>3, <1>4 DEF Shown, Gots

LEMMA KnownQuiet ==
  ASSUME Quiet, NEW id \in 1 .. Len(msgs), NEW gone, NEW edited, KnownIn(msgs, inbox, raced, id, gone, edited)
  PROVE  KnownIn(msgs', inbox', raced', id, gone, edited)
<1>1. /\ msgs'[id].gone => msgs[id].gone
      /\ msgs'[id].edited => msgs[id].edited
      /\ InQueue(inbox, "deleted", id) => InQueue(inbox', "deleted", id)
      /\ InQueue(inbox, "edited", id) => InQueue(inbox', "edited", id)
      /\ id \in raced => id \in raced'
  BY DEF Quiet
<1> QED BY Zenon, <1>1 DEF KnownIn

LEMMA KnowsQuiet ==
  ASSUME Quiet, NEW s, KnowsIn(msgs, inbox, raced, s), Refers(s)
  PROVE  KnowsIn(msgs', inbox', raced', s)
BY KnownQuiet DEF KnowsIn, Refers

LEMMA FlagsQuiet ==
  ASSUME Shaped, FlagsKnown, Quiet,
         \/ Renewing' \/ KnowsIn(msgs', inbox', raced', list')
         \/ list' = list /\ (Renewing => Renewing'),
         load'.got = load.got \/ load'.got = <<>>,
         \A id \in Coming' : id \in Coming \/ KnownIn(msgs', inbox', raced', id, FALSE, FALSE)
  PROVE  FlagsKnown'
<1>1. Renewing' \/ KnowsIn(msgs', inbox', raced', list')
  BY RefersIs, KnowsQuiet DEF FlagsKnown
<1>2. KnowsIn(msgs', inbox', raced', load'.got)
  <2>1. CASE load'.got = load.got
    BY <2>1, RefersIs, KnowsQuiet DEF FlagsKnown
  <2>2. CASE load'.got = <<>>
    BY <2>2 DEF KnowsIn
  <2> QED BY <2>1, <2>2
<1>3. \A id \in Coming' : KnownIn(msgs', inbox', raced', id, FALSE, FALSE)
  BY OwedFinite, KnownQuiet DEF FlagsKnown
<1> QED BY <1>1, <1>2, <1>3 DEF FlagsKnown

LEMMA QuietSame ==
  ASSUME UNCHANGED <<msgs, inbox>>, raced \subseteq raced'
  PROVE  Quiet
BY DEF Quiet

LEMMA FlagsSend ==
  ASSUME Shaped, FlagsKnown, NEW how \in Ways, Send(how)
  PROVE  FlagsKnown'
<1>1. /\ UNCHANGED <<msgs, unsaid, inbox, opening, load, raced>>
      /\ list' = IF how = "forward" THEN list ELSE Append(list, Bubble(count + 1, how))
  BY DEF Send
<1>2. Quiet /\ Coming' = Coming
  BY <1>1, QuietSame DEF Coming, Waiting
<1>3. CASE how = "forward"
  BY <1>1, <1>2, <1>3, FlagsQuiet DEF Renewing
<1>4. CASE how # "forward"
  <2>1. Renewing' \/ KnowsIn(msgs', inbox', raced', list')
    <3> SUFFICES ASSUME KnowsIn(msgs, inbox, raced, list) PROVE KnowsIn(msgs', inbox', raced', list')
      BY <1>1 DEF FlagsKnown, Renewing
    <3>1. list \in Seq(Shown) /\ Len(list) \in Nat
      BY ShapeTypes
    <3> DEFINE e == Bubble(count + 1, how)
    <3>2. list' = Append(list, e) /\ e.id = 0
      BY <1>1, <1>4 DEF Bubble
    <3> HIDE DEF e
    <3>3. \A i \in 1 .. Len(list') : (i \in 1 .. Len(list) /\ list'[i] = list[i]) \/ list'[i].id = 0
      BY <3>1, <3>2
    <3> QED BY <3>3, <1>1 DEF KnowsIn
  <2> QED BY <2>1, <1>1, <1>2 DEF FlagsKnown
<1> QED BY <1>3, <1>4

\* A message is stored, neither deleted nor edited.
LEMMA FlagsStores ==
  ASSUME Shaped, FlagsKnown, NEW words, NEW by, NEW how, Stores(words, by, how),
         Coming' = Coming \cup {Len(msgs) + 1}, UNCHANGED <<inbox, list, load, raced>>
  PROVE  FlagsKnown'
<1>1. /\ \A j \in 1 .. Len(msgs) : msgs'[j] = msgs[j]
      /\ msgs'[Len(msgs) + 1] = [text |-> words, by |-> by, how |-> how, gone |-> FALSE, edited |-> FALSE]
  BY DEF Stores
<1>2. Quiet
  BY <1>1 DEF Quiet
<1>3. msgs'[Len(msgs) + 1].gone = FALSE /\ msgs'[Len(msgs) + 1].edited = FALSE
  BY <1>1
<1>4. KnownIn(msgs', inbox', raced', Len(msgs) + 1, FALSE, FALSE)
  BY <1>3 DEF KnownIn
<1> QED BY <1>2, <1>4, FlagsQuiet DEF Renewing

LEMMA FlagsEnd ==
  ASSUME Shaped, FlagsKnown, NEW o \in opening, EndsWith(o)
  PROVE  FlagsKnown'
<1>1. /\ o.id \in 1 .. Len(msgs) /\ Coming' = Coming \ {o.id} /\ raced \subseteq raced'
      /\ UNCHANGED <<msgs, inbox, load>>
  BY DEF EndsWith, server
<1>2. Quiet
  BY <1>1, QuietSame
<1>3. CASE EndsUnlisted(o)
  BY <1>1, <1>2, <1>3, FlagsQuiet DEF EndsUnlisted, Renewing
<1>4. CASE EndsInPlace(o) \/ EndsLast(o)
  <2>1. KnownIn(msgs', inbox', raced', o.id, FALSE, FALSE)
    <3>1. o.id \in Coming
      BY ComingIs
    <3> QED BY <3>1, <1>1, <1>2, KnownQuiet DEF FlagsKnown
  <2>2. \A words : /\ NewEntry(o.id, words).id = o.id
                   /\ NewEntry(o.id, words).gone = FALSE /\ NewEntry(o.id, words).edited = FALSE
    BY DEF NewEntry
  <2>3. Len(list) \in Nat
    BY ShapeTypes
  <2>4. \A i \in 1 .. Len(list') :
          \/ i \in 1 .. Len(list) /\ list'[i] = list[i]
          \/ list'[i].id = o.id /\ list'[i].gone = FALSE /\ list'[i].edited = FALSE
    <3>1. CASE EndsInPlace(o)
      <4>1. PICK at \in Bubbles(list) :
              /\ at \in 1 .. Len(list) /\ Len(list') = Len(list)
              /\ list'[at] = NewEntry(o.id, IF list[at].how = "file" THEN 0 ELSE list[at].says)
              /\ \A i \in 1 .. Len(list) : i # at => list'[i] = list[i]
        BY <3>1, EndListed
      <4> QED BY <4>1, <2>2
    <3>2. CASE EndsLast(o)
      <4>1. /\ Len(list') = Len(list) + 1 /\ list'[Len(list) + 1] = NewEntry(o.id, o.says)
            /\ \A i \in 1 .. Len(list) : list'[i] = list[i]
        BY <3>2, EndListed
      <4>2. \A i \in 1 .. Len(list') : i \in 1 .. Len(list) \/ i = Len(list) + 1
        BY <4>1, <2>3
      <4> QED BY <4>1, <4>2, <2>2
    <3> QED BY <1>4, <3>1, <3>2
  <2>5. Renewing' \/ KnowsIn(msgs', inbox', raced', list')
    <3> SUFFICES ASSUME KnowsIn(msgs, inbox, raced, list) PROVE KnowsIn(msgs', inbox', raced', list')
      BY <1>1 DEF FlagsKnown, Renewing
    <3>1. KnowsIn(msgs', inbox', raced', list)
      BY <1>2, RefersIs, KnowsQuiet
    <3> QED BY <3>1, <2>1, <2>4 DEF KnowsIn
  <2>6. KnowsIn(msgs', inbox', raced', load'.got)
    BY <1>1, <1>2, RefersIs, KnowsQuiet DEF FlagsKnown
  <2>7. \A id \in Coming' : KnownIn(msgs', inbox', raced', id, FALSE, FALSE)
    BY <1>1, <1>2, OwedFinite, KnownQuiet DEF FlagsKnown
  <2> QED BY <2>5, <2>6, <2>7 DEF FlagsKnown
<1> QED BY <1>3, <1>4 DEF EndsWith

LEMMA FlagsArrive ==
  ASSUME Shaped, FlagsKnown, Arrive
  PROVE  FlagsKnown'
<1>1. /\ load.at = "read" /\ load' = NoLoad /\ UNCHANGED <<msgs, inbox, raced, open>>
      /\ ArrivesAside \/ ArrivesAnew \/ ArrivesBefore \/ ArrivesAfter
  BY ArriveIs DEF server
<1>2. Coming' = Coming /\ Quiet /\ load'.got = <<>>
  BY <1>1, ArriveShape, QuietSame DEF NoLoad
<1>3. \A i \in 1 .. Len(load.got) : KnownIn(msgs, inbox, raced, GotList[i].id, GotList[i].gone, GotList[i].edited)
  <2> TAKE i \in 1 .. Len(load.got)
  <2>1. /\ GotList[i].id = load.got[i].id /\ load.got[i].id \in 1 .. Len(msgs)
        /\ GotList[i].gone = load.got[i].gone /\ GotList[i].edited = load.got[i].edited
    BY GotListIs
  <2>2. load.got[i].id # 0
    BY <2>1, ShapeTypes
  <2> QED BY <2>1, <2>2 DEF FlagsKnown, KnowsIn
<1>4. KnowsIn(msgs, inbox, raced, list')
  <2>1. CASE ArrivesAside
    <3>1. list' = <<>>
      BY <2>1 DEF ArrivesAside, Shaped, ClosedEmpty
    <3> QED BY <3>1 DEF KnowsIn
  <2>2. CASE ArrivesAnew
    <3>1. list' = GotList /\ Len(GotList) = Len(load.got)
      BY <2>2, GotListIs DEF ArrivesAnew
    <3> QED BY <3>1, <1>3 DEF KnowsIn
  <2>3. CASE ArrivesBefore \/ ArrivesAfter
    <3>1. \A j \in 1 .. Len(list') : \/ \E i \in 1 .. Len(list) : list'[j] = list[i]
                                     \/ \E i \in 1 .. Len(load.got) : list'[j] = GotList[i]
      BY <2>3, ArriveListed
    <3>2. KnowsIn(msgs, inbox, raced, list)
      BY <2>3 DEF FlagsKnown, Renewing, ArrivesBefore, ArrivesAfter
    <3> QED BY <3>1, <3>2, <1>3 DEF KnowsIn
  <2> QED BY <1>1, <2>1, <2>2, <2>3
<1> QED BY <1>1, <1>2, <1>4, FlagsQuiet

\* The answer has each message as the server has it.
LEMMA FlagsAnswer ==
  ASSUME Shaped, FlagsKnown, Answer
  PROVE  FlagsKnown'
<1>1. PICK from, n :
           /\ load.at = "sent" /\ load'.got \in Seq(Gots) /\ Len(load'.got) = n
           /\ load' = [load EXCEPT !.at = "read", !.got = load'.got]
           /\ \A i \in 1 .. n : /\ from + i - 1 \in 1 .. Len(msgs)
                                /\ load'.got[i] = [id |-> from + i - 1, gone |-> msgs[from + i - 1].gone,
                                                   edited |-> msgs[from + i - 1].edited]
  BY AnswerIs
<1>2. /\ UNCHANGED <<msgs, inbox, list>> /\ Coming' = Coming
      /\ raced' = IF load.kind \in {"initial", "latest"} THEN raced \cap Coming ELSE raced
  BY AnswerShape DEF Answer, server
<1>3. load'.kind = load.kind /\ load'.at = "read"
  BY <1>1, ShapeTypes DEF Requests
<1>4. KnowsIn(msgs', inbox', raced', load'.got)
  <2> SUFFICES ASSUME NEW i \in 1 .. n
               PROVE  KnownIn(msgs, inbox', raced', load'.got[i].id, load'.got[i].gone, load'.got[i].edited)
    BY <1>1, <1>2 DEF KnowsIn
  <2>1. /\ load'.got[i].id = from + i - 1 /\ load'.got[i].gone = msgs[from + i - 1].gone
        /\ load'.got[i].edited = msgs[from + i - 1].edited
    <3>1. load'.got[i] = [id |-> from + i - 1, gone |-> msgs[from + i - 1].gone,
                          edited |-> msgs[from + i - 1].edited]
      BY <1>1
    <3> QED BY <3>1
  <2> QED BY <2>1 DEF KnownIn
<1>5. Renewing' \/ KnowsIn(msgs', inbox', raced', list')
  <2>1. CASE load.kind \in {"initial", "latest"}
    BY <2>1, <1>3 DEF Renewing
  <2>2. CASE load.kind \notin {"initial", "latest"}
    BY <2>2, <1>2 DEF FlagsKnown, Renewing
  <2> QED BY <2>1, <2>2
<1>6. \A id \in Coming' : KnownIn(msgs', inbox', raced', id, FALSE, FALSE)
  <2> TAKE id \in Coming'
  <2>1. KnownIn(msgs, inbox, raced, id, FALSE, FALSE) /\ (id \in raced => id \in raced')
    BY <1>2 DEF FlagsKnown
  <2> QED BY <2>1, <1>2 DEF KnownIn
<1> QED BY <1>4, <1>5, <1>6 DEF FlagsKnown

\* What is shown, with marks added.
Marks(s, r) ==
  /\ Len(s) = Len(r)
  /\ \A i \in 1 .. Len(s) : s[i].id = r[i].id /\ (r[i].gone => s[i].gone) /\ (r[i].edited => s[i].edited)

LEMMA MarksIs ==
  ASSUME Shaped
  PROVE  /\ Marks(list, list)
         /\ \A id \in IdsOf(list) : /\ Marks(Mark(id, [Entry(id) EXCEPT !.gone = TRUE]), list)
                                    /\ Marks(Mark(id, [Entry(id) EXCEPT !.edited = TRUE]), list)
<1>1. Marks(list, list)
  BY DEF Marks
<1>2. ASSUME NEW id \in IdsOf(list), NEW s,
             \/ s = Mark(id, [Entry(id) EXCEPT !.gone = TRUE])
             \/ s = Mark(id, [Entry(id) EXCEPT !.edited = TRUE])
      PROVE  Marks(s, list)
  <2> DEFINE f == Mark(id, [Entry(id) EXCEPT !.gone = TRUE])
             g == Mark(id, [Entry(id) EXCEPT !.edited = TRUE])
  <2>1. /\ Alike(f, list) /\ Alike(g, list)
        /\ \A i \in 1 .. Len(list) : /\ f[i].gone = (list[i].gone \/ list[i].id = id)
                                     /\ f[i].edited = list[i].edited
                                     /\ g[i].gone = list[i].gone
                                     /\ g[i].edited = (list[i].edited \/ list[i].id = id)
    BY GoneIs
  <2>2. s = f \/ s = g
    BY <1>2
  <2> HIDE DEF f, g
  <2>3. Alike(s, list)
    BY <2>2, <2>1
  <2>4. \A i \in 1 .. Len(list) : list[i].gone \in BOOLEAN /\ list[i].edited \in BOOLEAN
    BY RefersIs
  <2>5. \A i \in 1 .. Len(list) : (list[i].gone => s[i].gone) /\ (list[i].edited => s[i].edited)
    BY <2>2, <2>1, <2>4
  <2> QED BY <2>3, <2>5 DEF Marks, Alike
<1> QED BY <1>1, <1>2

LEMMA KnowsMarks ==
  ASSUME NEW m, NEW q, NEW r, NEW s, NEW t, KnowsIn(m, q, r, s), Marks(t, s)
  PROVE  KnowsIn(m, q, r, t)
<1> SUFFICES ASSUME NEW i \in 1 .. Len(t), t[i].id # 0 PROVE KnownIn(m, q, r, t[i].id, t[i].gone, t[i].edited)
  BY DEF KnowsIn
<1>1. i \in 1 .. Len(s) /\ t[i].id = s[i].id /\ (s[i].gone => t[i].gone) /\ (s[i].edited => t[i].edited)
  BY DEF Marks
<1>2. KnownIn(m, q, r, t[i].id, s[i].gone, s[i].edited)
  BY <1>1 DEF KnowsIn
<1> QED BY <1>1, <1>2 DEF KnownIn

\* A deletion or an edit is announced as it is made.
LEMMA FlagsTold ==
  ASSUME Shaped, FlagsKnown, NEW ev \in {"deleted", "edited"}, NEW id \in 1 .. Len(msgs), Tell(ev, id), MsgsAlike,
         \A j \in 1 .. Len(msgs) : /\ msgs'[j].gone => msgs[j].gone \/ (ev = "deleted" /\ j = id)
                                   /\ msgs'[j].edited => msgs[j].edited \/ (ev = "edited" /\ j = id),
         Marks(list', list), UNCHANGED <<unsaid, opening, load, raced>>
  PROVE  FlagsKnown'
<1>1. \A e, i : Pending(e, i)' <=> Pending(e, i) \/ (e = ev /\ i = id)
  BY StepTells DEF MsgsAlike
<1>2. Coming' = Coming
  BY StepTells DEF MsgsAlike
<1>3. \A e, i : InQueue(inbox', e, i) <=> InQueue(inbox, e, i) \/ (e = ev /\ i = id)
  BY <1>1 DEF Pending
<1>4. \A j \in 1 .. Len(msgs) : \A gone, edited :
        KnownIn(msgs, inbox, raced, j, gone, edited) => KnownIn(msgs', inbox', raced', j, gone, edited)
  BY <1>3 DEF KnownIn
<1>5. \A s : KnowsIn(msgs, inbox, raced, s) /\ Refers(s) => KnowsIn(msgs', inbox', raced', s)
  BY <1>4 DEF KnowsIn, Refers
<1>6. Renewing' \/ KnowsIn(msgs', inbox', raced', list')
  BY <1>5, RefersIs, KnowsMarks DEF FlagsKnown, Renewing
<1>7. KnowsIn(msgs', inbox', raced', load'.got)
  BY <1>5, RefersIs DEF FlagsKnown
<1>8. \A j \in Coming' : KnownIn(msgs', inbox', raced', j, FALSE, FALSE)
  BY <1>2, <1>4, OwedFinite DEF FlagsKnown
<1> QED BY <1>6, <1>7, <1>8 DEF FlagsKnown

LEMMA FlagsMarked ==
  ASSUME Shaped, FlagsKnown, NEW id \in 1 .. Len(msgs), Marked(id)
  PROVE  FlagsKnown'
<1>1. Coming' = Coming /\ UNCHANGED <<unsaid, opening, load, raced>>
  BY MarkedIs DEF history
<1>2. CASE \E by \in Senders : Delete(by, id)
  <2>1. /\ msgs' = [msgs EXCEPT ![id].gone = TRUE] /\ Tell("deleted", id) /\ list' = list
    BY <1>2 DEF Delete, DeleteOnServer, screen
  <2> QED BY <2>1, <1>1, MsgDeleted, MarksIs, FlagsTold
<1>3. CASE \E by \in Senders : Edit(by, id)
  <2>1. /\ msgs' = [msgs EXCEPT ![id].edited = TRUE] /\ Tell("edited", id)
        /\ list' = list \/ (id \in IdsOf(list) /\ list' = Mark(id, [Entry(id) EXCEPT !.edited = TRUE]))
    BY <1>3 DEF Edit, EditOnServer
  <2>2. Marks(list', list)
    BY <2>1, MarksIs
  <2> QED BY <2>1, <2>2, <1>1, MsgEdited, FlagsTold
<1>4. CASE Destruct(id)
  <2>1. /\ id \in IdsOf(list) /\ list' = Mark(id, [Entry(id) EXCEPT !.gone = TRUE])
        /\ IF Own(msgs[id]) THEN DeleteOnServer(id) ELSE UNCHANGED <<msgs, inbox>>
    BY <1>4 DEF Destruct
  <2>2. Marks(list', list)
    BY <2>1, MarksIs
  <2>3. CASE Own(msgs[id])
    <3>1. msgs' = [msgs EXCEPT ![id].gone = TRUE] /\ Tell("deleted", id)
      BY <2>1, <2>3 DEF DeleteOnServer
    <3> QED BY <3>1, <2>2, <1>1, MsgDeleted, FlagsTold
  <2>4. CASE ~Own(msgs[id])
    <3>1. UNCHANGED <<msgs, inbox>>
      BY <2>1, <2>4
    <3>2. Quiet
      BY <3>1, <1>1, QuietSame
    <3>3. Renewing' \/ KnowsIn(msgs', inbox', raced', list')
      BY <3>1, <2>2, <1>1, KnowsMarks DEF FlagsKnown, Renewing
    <3> QED BY <3>2, <3>3, <1>1, FlagsQuiet
  <2> QED BY <2>3, <2>4
<1> QED BY <1>2, <1>3, <1>4 DEF Marked

LEMMA FlagsDeleted ==
  ASSUME Shaped, FlagsKnown, OnDeleted
  PROVE  FlagsKnown'
<1> DEFINE id == Head(inbox).id
<1>1. /\ inbox # <<>> /\ Head(inbox).ev = "deleted" /\ Pop /\ Overtakes(id)
      /\ list' = IF id \in IdsOf(list) THEN Mark(id, [Entry(id) EXCEPT !.gone = TRUE]) ELSE list
      /\ UNCHANGED <<msgs, load>>
  BY DEF OnDeleted, Event, server
<1>2. Coming' = Coming /\ id \in 1 .. Len(msgs)
  BY <1>1, HeardShape, StepPops
<1> HIDE DEF id
<1>3. \A j : /\ InQueue(inbox, "edited", j) => InQueue(inbox', "edited", j)
             /\ InQueue(inbox, "deleted", j) => InQueue(inbox', "deleted", j) \/ j = id
  <2>1. \A e, j : Pending(e, j) <=> Pending(e, j)' \/ (e = Head(inbox).ev /\ j = id)
    BY <1>1, StepPops DEF id
  <2> QED BY <2>1, <1>1 DEF Pending
<1>4. /\ raced \subseteq raced'
      /\ load.at = "read" \/ id \in Coming => id \in raced'
  BY <1>1 DEF Overtakes
<1>5. \A j, gone, edited :
        KnownIn(msgs, inbox, raced, j, gone, edited) /\ (j = id => gone \/ j \in raced')
          => KnownIn(msgs', inbox', raced', j, gone, edited)
  BY <1>1, <1>3, <1>4 DEF KnownIn
<1>6. Renewing' \/ KnowsIn(msgs', inbox', raced', list')
  <2> SUFFICES ASSUME KnowsIn(msgs, inbox, raced, list) PROVE KnowsIn(msgs', inbox', raced', list')
    BY <1>1 DEF FlagsKnown, Renewing
  <2>1. Marks(list', list)
    BY <1>1, MarksIs DEF Marks
  <2>2. KnowsIn(msgs, inbox, raced, list')
    BY <2>1, KnowsMarks
  <2>3. \A i \in 1 .. Len(list') : list'[i].id = id /\ id # 0 => list'[i].gone
    <3>1. CASE id \in IdsOf(list)
      <4>1. list' = Mark(id, [Entry(id) EXCEPT !.gone = TRUE])
        BY <1>1, <3>1
      <4>2. \A i \in 1 .. Len(list) : list'[i].gone = (list[i].gone \/ list[i].id = id)
        BY <3>1, <4>1, GoneIs
      <4> QED BY <4>2, <2>1 DEF Marks
    <3>2. CASE id \notin IdsOf(list)
      BY <3>2, <2>1 DEF Marks, IdsOf
    <3> QED BY <3>1, <3>2
  <2>4. id # 0
    BY <1>2, ShapeTypes
  <2> QED BY <2>2, <2>3, <2>4, <1>5 DEF KnowsIn
<1>7. KnowsIn(msgs', inbox', raced', load'.got)
  <2>1. CASE load.at = "read"
    <3>1. \A i \in 1 .. Len(load.got) : load.got[i].id # 0 =>
            KnownIn(msgs, inbox, raced, load.got[i].id, load.got[i].gone, load.got[i].edited)
      BY DEF FlagsKnown, KnowsIn
    <3> QED BY <2>1, <3>1, <1>1, <1>4, <1>5 DEF KnowsIn
  <2>2. CASE load.at # "read"
    <3>1. load'.got = <<>>
      BY <2>2, <1>1 DEF Shaped, LoadShape
    <3> QED BY <3>1 DEF KnowsIn
  <2> QED BY <2>1, <2>2
<1>8. \A j \in Coming' : KnownIn(msgs', inbox', raced', j, FALSE, FALSE)
  BY <1>2, <1>4, <1>5 DEF FlagsKnown
<1> QED BY <1>6, <1>7, <1>8 DEF FlagsKnown

LEMMA FlagsEdited ==
  ASSUME Shaped, FlagsKnown, OnEdited
  PROVE  FlagsKnown'
<1> DEFINE id == Head(inbox).id
<1>1. /\ inbox # <<>> /\ Head(inbox).ev = "edited" /\ Pop /\ Overtakes(id)
      /\ list' = IF id \in IdsOf(list) THEN Mark(id, [Entry(id) EXCEPT !.edited = TRUE]) ELSE list
      /\ UNCHANGED <<msgs, load>>
  BY DEF OnEdited, Event, server
<1>2. Coming' = Coming /\ id \in 1 .. Len(msgs)
  BY <1>1, HeardShape, StepPops
<1> HIDE DEF id
<1>3. \A j : /\ InQueue(inbox, "deleted", j) => InQueue(inbox', "deleted", j)
             /\ InQueue(inbox, "edited", j) => InQueue(inbox', "edited", j) \/ j = id
  <2>1. \A e, j : Pending(e, j) <=> Pending(e, j)' \/ (e = Head(inbox).ev /\ j = id)
    BY <1>1, StepPops DEF id
  <2> QED BY <2>1, <1>1 DEF Pending
<1>4. /\ raced \subseteq raced'
      /\ load.at = "read" \/ id \in Coming => id \in raced'
  BY <1>1 DEF Overtakes
<1>5. \A j, gone, edited :
        KnownIn(msgs, inbox, raced, j, gone, edited) /\ (j = id => edited \/ j \in raced')
          => KnownIn(msgs', inbox', raced', j, gone, edited)
  BY <1>1, <1>3, <1>4 DEF KnownIn
<1>6. Renewing' \/ KnowsIn(msgs', inbox', raced', list')
  <2> SUFFICES ASSUME KnowsIn(msgs, inbox, raced, list) PROVE KnowsIn(msgs', inbox', raced', list')
    BY <1>1 DEF FlagsKnown, Renewing
  <2>1. Marks(list', list)
    BY <1>1, MarksIs DEF Marks
  <2>2. KnowsIn(msgs, inbox, raced, list')
    BY <2>1, KnowsMarks
  <2>3. \A i \in 1 .. Len(list') : list'[i].id = id /\ id # 0 => list'[i].edited
    <3>1. CASE id \in IdsOf(list)
      <4>1. list' = Mark(id, [Entry(id) EXCEPT !.edited = TRUE])
        BY <1>1, <3>1
      <4>2. \A i \in 1 .. Len(list) : list'[i].edited = (list[i].edited \/ list[i].id = id)
        BY <3>1, <4>1, GoneIs
      <4> QED BY <4>2, <2>1 DEF Marks
    <3>2. CASE id \notin IdsOf(list)
      BY <3>2, <2>1 DEF Marks, IdsOf
    <3> QED BY <3>1, <3>2
  <2>4. id # 0
    BY <1>2, ShapeTypes
  <2> QED BY <2>2, <2>3, <2>4, <1>5 DEF KnowsIn
<1>7. KnowsIn(msgs', inbox', raced', load'.got)
  <2>1. CASE load.at = "read"
    <3>1. \A i \in 1 .. Len(load.got) : load.got[i].id # 0 =>
            KnownIn(msgs, inbox, raced, load.got[i].id, load.got[i].gone, load.got[i].edited)
      BY DEF FlagsKnown, KnowsIn
    <3> QED BY <2>1, <3>1, <1>1, <1>4, <1>5 DEF KnowsIn
  <2>2. CASE load.at # "read"
    <3>1. load'.got = <<>>
      BY <2>2, <1>1 DEF Shaped, LoadShape
    <3> QED BY <3>1 DEF KnowsIn
  <2> QED BY <2>1, <2>2
<1>8. \A j \in Coming' : KnownIn(msgs', inbox', raced', j, FALSE, FALSE)
  BY <1>2, <1>4, <1>5 DEF FlagsKnown
<1> QED BY <1>6, <1>7, <1>8 DEF FlagsKnown

LEMMA FlagsKept ==
  ASSUME Shaped, FlagsKnown, [MessagesNext]_messagesVars
  PROVE  FlagsKnown'
<1>1. ASSUME NEW how \in Ways, Send(how) PROVE FlagsKnown'
  BY <1>1, FlagsSend
<1>2. ASSUME Save PROVE FlagsKnown'
  <2>1. PICK s \in emitted :
           /\ Stores(s.text, "me", s.how) /\ Coming' = Coming \cup {Len(msgs) + 1}
           /\ UNCHANGED <<count, inbox, opening, screen, cache, ops, history>>
    BY <1>2, SaveIs
  <2> QED BY <2>1, FlagsStores DEF screen, history
<1>3. ASSUME Refuse PROVE FlagsKnown'
  <2>1. UNCHANGED <<msgs, unsaid, inbox, opening, list, load, raced>>
    BY <1>3 DEF Refuse, screen
  <2> QED BY <2>1, QuietSame, FlagsQuiet DEF Coming, Waiting, Renewing
<1>4. ASSUME Announce PROVE FlagsKnown'
  <2>1. PICK id \in unsaid : /\ unsaid' = unsaid \ {id} /\ Tell("message", id)
                           /\ UNCHANGED <<msgs, count, emitted, opening, screen, cache, ops, history>>
    BY <1>4 DEF Announce
  <2>2. Coming' = Coming /\ \A e, i : Pending(e, i)' <=> Pending(e, i) \/ (e = "message" /\ i = id)
    BY <2>1, AnnounceIs
  <2>3. Quiet
    BY <2>1, <2>2 DEF Quiet, Pending, history
  <2> QED BY <2>1, <2>2, <2>3, FlagsQuiet DEF screen, Renewing
<1>5. ASSUME NEW by \in {"twin", "peer"}, SaveOther(by) PROVE FlagsKnown'
  BY <1>5, SaveOtherIs, FlagsStores DEF screen, history
<1>6. ASSUME NEW id \in 1 .. Len(msgs), Marked(id) PROVE FlagsKnown'
  BY <1>6, FlagsMarked
<1>7. ASSUME BeginMessage PROVE FlagsKnown'
  <2>1. UNCHANGED <<server, screen, history>>
    BY <1>7 DEF BeginMessage
  <2>2. Coming' \subseteq Coming /\ \A e, i : e # "message" => (Pending(e, i)' <=> Pending(e, i))
    BY <1>7, BeginComing
  <2>3. Quiet
    BY <2>1, <2>2 DEF Quiet, Pending, history, server
  <2> QED BY <2>1, <2>2, <2>3, FlagsQuiet DEF screen, Renewing
<1>8. ASSUME EndMessage PROVE FlagsKnown'
  BY <1>8, EndIs, FlagsEnd
<1>9. ASSUME OnDeleted \/ OnEdited PROVE FlagsKnown'
  BY <1>9, FlagsDeleted, FlagsEdited
<1>10. ASSUME Open PROVE FlagsKnown'
  <2>1. UNCHANGED <<msgs, inbox, list, raced>> /\ Coming' = Coming /\ load'.got = <<>> /\ ~Renewing
    <3>1. UNCHANGED <<msgs, inbox, list, raced>> /\ Ask("initial", 0) /\ load = NoLoad
      BY <1>10 DEF Open, server, history
    <3> QED BY <3>1, <1>10, OpenShape DEF Ask, NoLoad, Renewing
  <2> QED BY <2>1, QuietSame, FlagsQuiet
<1>11. ASSUME Close PROVE FlagsKnown'
  <2>1. UNCHANGED <<msgs, inbox, raced>> /\ Coming' = Coming /\ list' = <<>>
        /\ (load' = load \/ load' = NoLoad)
    BY <1>11, CloseShape DEF Close, server
  <2>2. KnowsIn(msgs', inbox', raced', list')
    BY <2>1 DEF KnowsIn
  <2>3. Quiet
    BY <2>1, QuietSame
  <2>4. load'.got = load.got \/ load'.got = <<>>
    BY <2>1 DEF NoLoad
  <2> QED BY <2>1, <2>2, <2>3, <2>4, FlagsQuiet
<1>12. ASSUME NEW kind \in Loads \ {"initial"}, NEW arg \in 0 .. Len(msgs), Load(kind, arg) PROVE FlagsKnown'
  <2>1. UNCHANGED <<msgs, inbox, list, raced>> /\ Coming' = Coming /\ load'.got = <<>> /\ load = NoLoad
    BY <1>12, LoadIs DEF Load, server, history
  <2>2. ~Renewing
    BY <2>1 DEF Renewing, NoLoad
  <2> QED BY <2>1, <2>2, QuietSame, FlagsQuiet
<1>13. ASSUME Answer PROVE FlagsKnown'
  BY <1>13, FlagsAnswer
<1>14. ASSUME Arrive PROVE FlagsKnown'
  BY <1>14, FlagsArrive
<1>15. ASSUME UNCHANGED messagesVars PROVE FlagsKnown'
  <2>1. UNCHANGED <<msgs, unsaid, inbox, opening, list, load, raced>>
    BY <1>15 DEF messagesVars
  <2> QED BY <2>1, QuietSame, FlagsQuiet DEF Coming, Waiting, Renewing
<1>16. ASSUME NEW id \in 1 .. Len(msgs), NEW by \in {"me", "twin", "peer"}, Delete(by, id) \/ Edit(by, id)
       PROVE FlagsKnown'
  BY <1>6, <1>16 DEF Marked, Senders
<1>17. ASSUME NEW id \in 1 .. Len(msgs), Destruct(id) PROVE FlagsKnown'
  BY <1>6, <1>17 DEF Marked
<1> QED BY <1>1, <1>2, <1>3, <1>4, <1>5, <1>16, <1>17, <1>7, <1>8, <1>9, <1>10, <1>11, <1>12, <1>13,
           <1>14, <1>15 DEF MessagesNext

-----------------------------------------------------------------------------
(* Messages: which stretch of the conversation a list holds.               *)

\* What a list need not have yet: what is to be announced, or was overtaken.
Excused == raced \cup Coming
Beyond(n, x, k, S) == \A id \in 1 .. n : id > k => id \in S \cup x
FromFirst(n, x, s) ==
  Beyond(n, x, 0, IdsOf(s)) \/ (s # <<>> /\ s[1].id # 0 /\ Beyond(n, x, s[1].id, IdsOf(s)))
Stretch(s) ==
  \A e \in IdsOf(s) : e <= s[Len(s)].id /\ \A id \in e .. s[Len(s)].id : id \in IdsOf(s)

\* A list that has the latest has all from its first; one that has not holds a
\* stretch without holes; and each request fits the list it was made for.
Joined == load.kind # "initial" /\ ~newer /\ ~leapt => FromFirst(Len(msgs), Excused, list)
Gap == newer /\ ~leapt => list # <<>> /\ Bubbles(list) = {} /\ Stretch(list)
MoreFits ==
  load.kind = "more" =>
    /\ list # <<>>
    /\ load.arg # 0 => /\ list[1].id = load.arg
                       /\ load.got # <<>> => load.got[Len(load.got)].id = load.arg - 1
    /\ load.arg = 0 => leapt \/ (~newer /\ Beyond(Len(msgs), Excused, 0, IdsOf(list)))
NewerFits ==
  load.kind = "newer" =>
    /\ leapt \/ (newer /\ list # <<>> /\ list[Len(list)].id = load.arg)
    /\ load.got # <<>> => load.got[1].id = load.arg + 1
    /\ load.at = "read" /\ Len(load.got) < PageSize
         => Beyond(Len(msgs), Excused, load.arg, IdsOf(load.got))
RenewFits ==
  /\ load.kind = "around" /\ load.at = "read" => load.got # <<>>
  /\ load.kind = "latest" => newer \/ leapt
  /\ Renewing => FromFirst(Len(msgs), Excused, load.got)
Whole == open => Joined /\ Gap /\ MoreFits /\ NewerFits /\ RenewFits

LEMMA BeyondGrows ==
  ASSUME NEW n, NEW m, NEW x, NEW y, NEW k, NEW S, NEW T, Beyond(n, x, k, S), S \subseteq T,
         \A id \in 1 .. m : id \in 1 .. n \/ id \in y, \A id \in x : id \in y \/ id \in T
  PROVE  Beyond(m, y, k, T)
BY DEF Beyond

LEMMA StretchAlike ==
  ASSUME NEW s \in Seq(Shown), NEW r, Alike(r, s), s # <<>>, Stretch(s)
  PROVE  r # <<>> /\ Stretch(r) /\ r[1].id = s[1].id /\ r[Len(r)].id = s[Len(s)].id
<1>1. Len(s) \in 1 .. Len(s) /\ 1 \in 1 .. Len(s) /\ Len(r) = Len(s)
  BY DEF Alike
<1>2. r[1].id = s[1].id /\ r[Len(r)].id = s[Len(s)].id
  BY <1>1 DEF Alike
<1>3. IdsOf(r) = IdsOf(s)
  BY AlikeKeeps
<1>4. r # <<>>
  <2>1. Len(<<>>) = 0 /\ Len(r) # 0
    BY <1>1
  <2> QED BY <2>1
<1> QED BY <1>2, <1>3, <1>4 DEF Stretch

\* A list that only grew, with what is no longer excused, and was not joined to
\* anything it is not next to.
Grew ==
  /\ list # <<>> => list' # <<>> /\ (list[1].id # 0 => list'[1].id = list[1].id)
  /\ IdsOf(list) \subseteq IdsOf(list')
  /\ newer' => newer
  /\ leapt => leapt'
  /\ newer /\ ~leapt' => newer' /\ Alike(list', list)
  /\ \A id \in 1 .. Len(msgs') : id \in 1 .. Len(msgs) \/ id \in Excused'
  /\ \A id \in Excused : id \in Excused' \/ id \in IdsOf(list')
  /\ load.at = "read" => Excused \subseteq Excused'

LEMMA WholeGrows ==
  ASSUME Shaped, Whole, Grew, open' => open, load' = load
  PROVE  Whole'
<1> SUFFICES ASSUME open, open' PROVE Joined' /\ Gap' /\ MoreFits' /\ NewerFits' /\ RenewFits'
  BY DEF Whole
<1> DEFINE n == Len(msgs)  m == Len(msgs')  x == Excused  y == Excused'
<1>1. Joined /\ Gap /\ MoreFits /\ NewerFits /\ RenewFits
  BY DEF Whole
<1>2. list \in Seq(Shown) /\ newer \in BOOLEAN /\ leapt \in BOOLEAN
  BY ShapeTypes DEF Shaped, MessagesTypeOK
<1>3. \A k : Beyond(n, x, k, IdsOf(list)) => Beyond(m, y, k, IdsOf(list'))
  BY BeyondGrows DEF Grew
<1>4. load.at = "read" => \A k, S : Beyond(n, x, k, S) => Beyond(m, y, k, S)
  BY BeyondGrows DEF Grew
<1>5. FromFirst(n, x, list) => FromFirst(m, y, list')
  BY <1>3 DEF FromFirst, Grew
<1>6. load.at = "read" => (FromFirst(n, x, load.got) => FromFirst(m, y, load.got))
  BY <1>4 DEF FromFirst
<1> HIDE DEF n, m, x, y
<1>7. Joined'
  <2>1. ASSUME load.kind # "initial", ~newer', ~leapt' PROVE FromFirst(m, y, list')
    BY <2>1, <1>1, <1>2, <1>5 DEF Joined, Grew, n, x
  <2> QED BY <2>1 DEF Joined, m, y
<1>8. newer' /\ ~leapt' => list # <<>> /\ list' # <<>> /\ Bubbles(list') = {} /\ Stretch(list')
                            /\ list'[Len(list')].id = list[Len(list)].id
  <2> SUFFICES ASSUME newer', ~leapt' PROVE list # <<>> /\ list' # <<>> /\ Bubbles(list') = {} /\ Stretch(list')
                            /\ list'[Len(list')].id = list[Len(list)].id
    OBVIOUS
  <2>1. newer /\ ~leapt /\ Alike(list', list)
    BY DEF Grew
  <2>2. list # <<>> /\ Bubbles(list) = {} /\ Stretch(list)
    BY <1>1, <2>1 DEF Gap
  <2> QED BY <2>1, <2>2, <1>2, StretchAlike, AlikeKeeps
<1>9. Gap'
  BY <1>8 DEF Gap
<1>10. MoreFits'
  <2> SUFFICES ASSUME load.kind = "more" PROVE MoreFits'
    BY DEF MoreFits
  <2>1. list # <<>> /\ list' # <<>>
    BY <1>1 DEF MoreFits, Grew
  <2>2. load.arg # 0 => list'[1].id = load.arg
    BY <1>1, <2>1 DEF MoreFits, Grew
  <2>3. load.arg = 0 => leapt' \/ (~newer' /\ Beyond(m, y, 0, IdsOf(list')))
    BY <1>1, <1>3 DEF MoreFits, Grew, n, x
  <2> QED BY <1>1, <2>1, <2>2, <2>3 DEF MoreFits, m, y
<1>11. NewerFits'
  <2> SUFFICES ASSUME load.kind = "newer" PROVE NewerFits'
    BY DEF NewerFits
  <2>1. leapt' \/ (newer' /\ list' # <<>> /\ list'[Len(list')].id = load.arg)
    <3> SUFFICES ASSUME ~leapt' PROVE newer' /\ list' # <<>> /\ list'[Len(list')].id = load.arg
      OBVIOUS
    <3>1. newer /\ list # <<>> /\ list[Len(list)].id = load.arg
      BY <1>1 DEF NewerFits, Grew
    <3>2. newer'
      BY <3>1 DEF Grew
    <3> QED BY <3>1, <3>2, <1>8
  <2>2. load.at = "read" /\ Len(load.got) < PageSize => Beyond(m, y, load.arg, IdsOf(load.got))
    BY <1>1, <1>4 DEF NewerFits, n, x
  <2> QED BY <1>1, <2>1, <2>2 DEF NewerFits, m, y
<1>12. RenewFits'
  <2>1. load.kind = "latest" => newer' \/ leapt'
    BY <1>1, <1>2 DEF RenewFits, Grew
  <2>2. Renewing' <=> Renewing
    BY DEF Renewing
  <2>3. Renewing => FromFirst(m, y, load.got)
    BY <1>1, <1>6 DEF RenewFits, Renewing, n, x
  <2> QED BY <1>1, <2>1, <2>2, <2>3 DEF RenewFits, m, y
<1> QED BY <1>7, <1>9, <1>10, <1>11, <1>12

\* A step that changes no more on the page than marks.
LEMMA WholeAlike ==
  ASSUME Shaped, Whole, Alike(list', list), UNCHANGED <<newer, leapt, load>>, open' => open,
         \A id \in 1 .. Len(msgs') : id \in 1 .. Len(msgs) \/ id \in Excused',
         Excused \subseteq Excused'
  PROVE  Whole'
<1>1. list \in Seq(Shown) /\ newer \in BOOLEAN
  BY ShapeTypes DEF Shaped, MessagesTypeOK
<1>2. list # <<>> => list' # <<>> /\ list'[1].id = list[1].id
  <2> SUFFICES ASSUME list # <<>> PROVE list' # <<>> /\ list'[1].id = list[1].id
    OBVIOUS
  <2>1. 1 \in 1 .. Len(list) /\ Len(list') # 0 /\ Len(<<>>) = 0 /\ Len(list') = Len(list)
    BY <1>1 DEF Alike
  <2>2. list'[1].id = list[1].id
    BY <2>1 DEF Alike
  <2> QED BY <2>1, <2>2
<1>3. IdsOf(list') = IdsOf(list)
  BY AlikeKeeps
<1>4. Grew
  BY <1>2, <1>3 DEF Grew
<1> QED BY <1>4, WholeGrows

LEMMA WholeSend ==
  ASSUME Shaped, Whole, NEW how \in Ways, Send(how)
  PROVE  Whole'
<1>1. /\ open /\ UNCHANGED <<msgs, unsaid, inbox, opening, open, newer, load, raced>>
      /\ list' = IF how = "forward" THEN list ELSE Append(list, Bubble(count + 1, how))
      /\ leapt' = (leapt \/ (newer /\ how # "forward"))
  BY DEF Send
<1>2. Excused' = Excused
  BY <1>1 DEF Excused, Coming, Waiting
<1>3. list \in Seq(Shown) /\ newer \in BOOLEAN
  BY ShapeTypes DEF Shaped, MessagesTypeOK
<1>4. CASE how = "forward"
  <2>1. list' = list /\ leapt' = leapt
    BY <1>1, <1>4 DEF Shaped, MessagesTypeOK
  <2>2. Alike(list', list)
    BY <2>1 DEF Alike
  <2> QED BY <1>1, <1>2, <2>1, <2>2, WholeAlike
<1>5. CASE how # "forward"
  <2> DEFINE e == Bubble(count + 1, how)
  <2>1. e \in Shown /\ e.id = 0
    <3>1. count' \in 0 .. MaxWritten /\ count' = count + 1
      BY SendShape DEF Shaped, MessagesTypeOK, Send
    <3>2. 0 \in 0 .. MaxWritten
      BY ShapeTypes
    <3> QED BY <3>1, <3>2 DEF Bubble, Shown
  <2> HIDE DEF e
  <2>2. list' = Append(list, e)
    BY <1>1, <1>5 DEF e
  <2> DEFINE r == Append(list, e)
  <2>3. /\ IdsOf(r) = IdsOf(list) \cup ({e.id} \ {0}) /\ Len(r) = Len(list) + 1 /\ Len(list) \in Nat
        /\ \A i \in 1 .. Len(list) : r[i] = list[i]
    BY <2>1, <1>3, ListAppend
  <2> HIDE DEF r
  <2>4. list' = r
    BY <2>2 DEF r
  <2>5. IdsOf(list') = IdsOf(list) /\ Len(list') = Len(list) + 1 /\ Len(list) \in Nat
        /\ \A i \in 1 .. Len(list) : list'[i] = list[i]
    BY <2>3, <2>4, <2>1
  <2>6. list # <<>> => list' # <<>> /\ list'[1] = list[1]
    BY <2>2, <2>5, <1>3
  <2>7. Grew
    BY <1>1, <1>2, <1>5, <2>5, <2>6 DEF Grew
  <2> QED BY <2>7, <1>1, WholeGrows
<1> QED BY <1>4, <1>5

LEMMA WholeStores ==
  ASSUME Shaped, Whole, NEW words, NEW by, NEW how, Stores(words, by, how),
         Coming' = Coming \cup {Len(msgs) + 1}, UNCHANGED <<open, list, newer, load, leapt, raced>>
  PROVE  Whole'
<1>1. Len(msgs') = Len(msgs) + 1 /\ Len(msgs) \in Nat
  BY ShapeTypes DEF Stores
<1>2. Excused' = Excused \cup {Len(msgs) + 1}
  BY DEF Excused
<1>3. \A id \in 1 .. Len(msgs') : id \in 1 .. Len(msgs) \/ id \in Excused'
  BY <1>1, <1>2
<1>4. Alike(list', list)
  BY DEF Alike
<1> QED BY <1>2, <1>3, <1>4, WholeAlike

LEMMA WholeEnd ==
  ASSUME Shaped, Whole, NEW o \in opening, EndsWith(o)
  PROVE  Whole'
<1> SUFFICES ASSUME open PROVE Whole'
  BY DEF EndsWith, Whole
<1>1. /\ o.id \in 1 .. Len(msgs) /\ o.id # 0 /\ Coming' = Coming \ {o.id} /\ UNCHANGED <<msgs, open, load>>
      /\ raced' = IF load.at = "read" THEN raced \cup {o.id} ELSE raced
  BY ShapeTypes DEF EndsWith, server
<1>2. /\ \A id \in Excused : id \in Excused' \/ id = o.id
      /\ load.at = "read" => Excused \subseteq Excused'
  BY <1>1 DEF Excused
<1>3. list \in Seq(Shown) /\ Len(list) \in Nat /\ newer \in BOOLEAN /\ leapt \in BOOLEAN
  BY ShapeTypes DEF Shaped, MessagesTypeOK
<1>4. CASE EndsUnlisted(o)
  <2>1. o.id \in IdsOf(list) /\ list' = list /\ newer' = newer /\ leapt' = leapt
    BY <1>4 DEF EndsUnlisted
  <2>2. Alike(list', list)
    BY <2>1 DEF Alike
  <2>3. Grew
    BY <2>1, <2>2, <1>1, <1>2 DEF Grew
  <2> QED BY <2>3, <1>1, WholeGrows
<1>5. CASE EndsInPlace(o)
  <2>1. PICK at \in Bubbles(list) :
           /\ at \in 1 .. Len(list) /\ Len(list') = Len(list)
           /\ \A i \in 1 .. Len(list) : i # at => list'[i] = list[i]
    BY <1>5, EndListed
  <2>2. IdsOf(list') = IdsOf(list) \cup {o.id}
    <3>1. ~EndsUnlisted(o)
      BY <1>5 DEF EndsInPlace, EndsUnlisted
    <3> QED BY <3>1, EndListed
  <2>3. list' # <<>> /\ (list[1].id # 0 => list'[1] = list[1])
    <3>1. list[at].id = 0 /\ 1 \in 1 .. Len(list) /\ Len(<<>>) = 0
      BY <2>1, <1>3 DEF Bubbles
    <3>2. list' # <<>>
      BY <3>1, <2>1, <1>3
    <3> QED BY <3>1, <3>2, <2>1
  <2>4. newer' = newer /\ leapt' = (leapt \/ newer)
    BY <1>5 DEF EndsInPlace
  <2>5. Grew
    BY <2>2, <2>3, <2>4, <1>1, <1>2 DEF Grew
  <2> QED BY <2>5, <1>1, WholeGrows
<1>6. CASE EndsLast(o)
  <2>1. Len(list') = Len(list) + 1 /\ \A i \in 1 .. Len(list) : list'[i] = list[i]
    BY <1>6, EndListed
  <2>2. IdsOf(list') = IdsOf(list) \cup {o.id}
    <3>1. ~EndsUnlisted(o)
      BY <1>6 DEF EndsLast, EndsUnlisted
    <3> QED BY <3>1, EndListed
  <2>3. list # <<>> => list' # <<>> /\ list'[1] = list[1]
    <3>1. Len(<<>>) = 0 /\ Len(list') # 0
      BY <2>1, <1>3
    <3>2. list # <<>> => 1 \in 1 .. Len(list)
      BY <1>3
    <3> QED BY <3>1, <3>2, <2>1
  <2>4. newer' = FALSE /\ leapt' = (leapt \/ newer)
    BY <1>6 DEF EndsLast
  <2>5. Grew
    BY <2>2, <2>3, <2>4, <1>1, <1>2 DEF Grew
  <2> QED BY <2>5, <1>1, WholeGrows
<1> QED BY <1>4, <1>5, <1>6 DEF EndsWith

\* The conversation is opened, and later closed.
LEMMA WholeOpens ==
  ASSUME Shaped, Open
  PROVE  Whole'
<1>1. /\ Shaped' /\ newer' = FALSE /\ Ask("initial", 0)
  BY OpenShape DEF Open
<1>2. load'.kind = "initial" /\ load'.at = "sent"
  BY <1>1, ShapeTypes, AskIs DEF Loads
<1> QED BY <1>1, <1>2 DEF Whole, Joined, Gap, MoreFits, NewerFits, RenewFits, Renewing

\* A request is made for the list as it is.
LEMMA WholeLoad ==
  ASSUME Shaped, Whole, NEW kind \in Loads \ {"initial"}, NEW arg \in 0 .. Len(msgs), Load(kind, arg)
  PROVE  Whole'
<1>1. /\ Coming' = Coming /\ UNCHANGED <<msgs, raced, open, list, newer, leapt>> /\ open /\ load = NoLoad
      /\ load'.kind = kind /\ load'.arg = arg /\ load'.at = "sent" /\ load'.got = <<>>
      /\ kind = "more" => list # <<>> /\ arg = list[1].id
      /\ kind = "newer" => newer /\ list # <<>> /\ arg = list[Len(list)].id /\ arg # 0
      /\ kind = "latest" => newer
  BY LoadIs DEF Load, server, history
<1>2. Excused' = Excused /\ list \in Seq(Shown)
  BY <1>1, ShapeTypes DEF Excused
<1>3. Joined /\ Gap
  BY <1>1 DEF Whole
<1>4. load.kind = "none"
  BY <1>1 DEF NoLoad
<1>5. Joined'
  BY <1>1, <1>2, <1>3, <1>4 DEF Joined
<1>6. Gap'
  BY <1>1, <1>3 DEF Gap
<1>7. MoreFits'
  <2> SUFFICES ASSUME kind = "more" PROVE MoreFits'
    BY <1>1 DEF MoreFits
  <2>1. list # <<>> /\ arg = list[1].id
    BY <1>1
  <2>2. ASSUME arg = 0, ~leapt PROVE ~newer /\ Beyond(Len(msgs), Excused, 0, IdsOf(list))
    <3>1. 1 \in Bubbles(list)
      <4>1. Len(list) \in Nat /\ Len(list) # 0
        BY <2>1, <1>2
      <4>2. 1 \in 1 .. Len(list)
        BY <4>1
      <4>3. list[1].id = 0
        BY <2>1, <2>2
      <4> QED BY <4>2, <4>3 DEF Bubbles
    <3>2. ~newer
      BY <3>1, <2>2, <1>3 DEF Gap
    <3>3. FromFirst(Len(msgs), Excused, list)
      BY <3>2, <2>2, <1>3, <1>4 DEF Joined
    <3> QED BY <3>2, <3>3, <2>1, <2>2 DEF FromFirst
  <2> QED BY <2>1, <2>2, <1>1, <1>2 DEF MoreFits
<1>8. NewerFits' /\ RenewFits'
  BY <1>1 DEF NewerFits, RenewFits, Renewing
<1> QED BY <1>5, <1>6, <1>7, <1>8 DEF Whole

\* An answer is a run of messages.
Runs(g, k) == IdsOf(g) = k .. (k + Len(g) - 1)

LEMMA RunIs ==
  ASSUME NEW g, Len(g) \in Nat, NEW k \in Nat \ {0}, \A i \in 1 .. Len(g) : g[i].id = k + i - 1
  PROVE  Runs(g, k)
<1> DEFINE n == Len(g)
<1>1. \A i \in 1 .. n : g[i].id # 0
  OBVIOUS
<1>2. \A id : id \in IdsOf(g) <=> \E i \in 1 .. n : id = k + i - 1
  BY <1>1 DEF IdsOf
<1>3. \A id : id \in k .. (k + n - 1) <=> \E i \in 1 .. n : id = k + i - 1
  <2>1. ASSUME NEW id \in k .. (k + n - 1) PROVE \E i \in 1 .. n : id = k + i - 1
    <3>1. id - k + 1 \in 1 .. n /\ id = k + (id - k + 1) - 1
      OBVIOUS
    <3> QED BY <3>1
  <2>2. ASSUME NEW i \in 1 .. n PROVE k + i - 1 \in k .. (k + n - 1)
    OBVIOUS
  <2> QED BY <2>1, <2>2
<1> QED BY <1>2, <1>3 DEF Runs

LEMMA GotRuns ==
  ASSUME Shaped
  PROVE  load.got # <<>> =>
           /\ load.got[1].id \in Nat \ {0} /\ Len(load.got) \in Nat \ {0}
           /\ Runs(load.got, load.got[1].id)
           /\ load.got[Len(load.got)].id = load.got[1].id + Len(load.got) - 1
<1> SUFFICES ASSUME load.got # <<>>
             PROVE  /\ load.got[1].id \in Nat \ {0} /\ Len(load.got) \in Nat \ {0}
                    /\ Runs(load.got, load.got[1].id)
                    /\ load.got[Len(load.got)].id = load.got[1].id + Len(load.got) - 1
  OBVIOUS
<1> DEFINE g == load.got  n == Len(load.got)  k == load.got[1].id
<1>1. g \in Seq(Gots) /\ n \in Nat
  BY ShapeTypes
<1>2. n # 0
  BY <1>1
<1>3. \A i \in 1 .. n : g[i].id = k + i - 1 /\ g[i].id \in 1 .. Len(msgs)
  BY GotListIs DEF Shaped, LoadShape
<1>4. k \in Nat \ {0}
  BY <1>1, <1>2, <1>3, ShapeTypes
<1> HIDE DEF k
<1>5. Runs(g, k)
  BY <1>1, <1>3, <1>4, RunIs
<1>6. g[n].id = k + n - 1
  BY <1>1, <1>2, <1>3
<1> QED BY <1>1, <1>2, <1>4, <1>5, <1>6 DEF k

LEMMA WholeAnswer ==
  ASSUME Shaped, Whole, Answer
  PROVE  Whole'
<1>1. PICK from, n :
           /\ Answers(from, n) /\ load.at = "sent" /\ load'.got \in Seq(Gots) /\ Len(load'.got) = n
           /\ load' = [load EXCEPT !.at = "read", !.got = load'.got]
           /\ \A i \in 1 .. n : /\ from + i - 1 \in 1 .. Len(msgs)
                                /\ load'.got[i] = [id |-> from + i - 1, gone |-> msgs[from + i - 1].gone,
                                                   edited |-> msgs[from + i - 1].edited]
  BY AnswerIs
<1>2. /\ UNCHANGED <<msgs, open, list, newer, leapt>> /\ Coming' = Coming /\ Shaped'
      /\ raced' = IF load.kind \in {"initial", "latest"} THEN raced \cap Coming ELSE raced
  BY AnswerShape DEF Answer, server
<1> SUFFICES ASSUME open PROVE Joined' /\ Gap' /\ MoreFits' /\ NewerFits' /\ RenewFits'
  BY <1>2 DEF Whole
<1>3. load'.kind = load.kind /\ load'.arg = load.arg /\ load'.at = "read"
  BY <1>1, ShapeTypes DEF Requests
<1>4. Joined /\ Gap /\ MoreFits /\ NewerFits /\ RenewFits
  BY DEF Whole
<1>5. load.kind \notin {"initial", "latest"} => Excused' = Excused
  BY <1>2 DEF Excused
<1>6. from \in Nat \ {0} /\ n \in Nat /\ Len(msgs) \in Nat /\ from + n <= Len(msgs) + 1 /\ load.arg \in Nat
      /\ PageSize \in Nat \ {0}
  BY <1>1, ShapeTypes, MessagesConstants DEF Answers
<1> DEFINE g == load'.got
<1>7. n # 0 => /\ g # <<>> /\ g[1].id = from /\ g[n].id = from + n - 1
               /\ IdsOf(g) = from .. (from + n - 1)
  <2> SUFFICES ASSUME n # 0 PROVE /\ g # <<>> /\ g[1].id = from /\ g[n].id = from + n - 1
                                  /\ IdsOf(g) = from .. (from + n - 1)
    OBVIOUS
  <2>1. \A i \in 1 .. n : g[i].id = from + i - 1
    <3> TAKE i \in 1 .. n
    <3>1. g[i] = [id |-> from + i - 1, gone |-> msgs[from + i - 1].gone, edited |-> msgs[from + i - 1].edited]
      BY <1>1
    <3> QED BY <3>1
  <2>2. 1 \in 1 .. n /\ n \in 1 .. n
    BY <1>6
  <2>3. g # <<>>
    BY <1>1, <2>2
  <2>4. Runs(g, from)
    BY <2>1, <1>1, <1>6, RunIs
  <2>5. g[1].id = from
    BY <2>1, <2>2, <1>6
  <2>6. g[n].id = from + n - 1
    BY <2>1, <2>2
  <2> QED BY <2>3, <2>4, <2>5, <2>6, <1>1 DEF Runs
<1>8. n = 0 <=> g = <<>>
  BY <1>1, <1>6
<1>9. n = 0 => IdsOf(g) = {}
  BY <1>1 DEF IdsOf
<1>10. Len(g) = n
  BY <1>1
<1> HIDE DEF g
<1>11. Joined'
  <2>1. CASE load.kind \in {"initial", "latest"}
    BY <2>1, <1>2, <1>3, <1>4 DEF Joined, RenewFits
  <2>2. CASE load.kind \notin {"initial", "latest"}
    BY <2>2, <1>2, <1>3, <1>4, <1>5 DEF Joined
  <2> QED BY <2>1, <2>2
<1>12. Gap'
  BY <1>2, <1>4 DEF Gap
<1>13. MoreFits'
  <2> SUFFICES ASSUME load.kind = "more" PROVE MoreFits'
    BY <1>3 DEF MoreFits
  <2>1. load.arg # 0 /\ g # <<>> => g[Len(g)].id = load.arg - 1
    <3> SUFFICES ASSUME load.arg # 0, n # 0 PROVE g[n].id = load.arg - 1
      BY <1>8, <1>10
    <3>1. from + n = load.arg
      BY <1>1 DEF Answers
    <3> QED BY <3>1, <1>6, <1>7
  <2> QED BY <2>1, <1>2, <1>3, <1>4, <1>5 DEF MoreFits, g
<1>14. NewerFits'
  <2> SUFFICES ASSUME load.kind = "newer" PROVE NewerFits'
    BY <1>3 DEF NewerFits
  <2>1. from = load.arg + 1 /\ (from + n = Len(msgs) + 1 \/ n = PageSize)
    BY <1>1 DEF Answers
  <2>2. g # <<>> => g[1].id = load.arg + 1
    BY <2>1, <1>7, <1>8
  <2>3. n < PageSize => Beyond(Len(msgs), Excused, load.arg, IdsOf(g))
    <3> SUFFICES ASSUME n < PageSize, NEW id \in 1 .. Len(msgs), id > load.arg PROVE id \in IdsOf(g)
      BY DEF Beyond
    <3>1. from + n = Len(msgs) + 1
      BY <2>1, <1>6
    <3>2. n # 0 /\ id \in from .. (from + n - 1)
      BY <3>1, <2>1, <1>6
    <3> QED BY <3>2, <1>7
  <2> QED BY <2>2, <2>3, <1>2, <1>3, <1>4, <1>5, <1>10 DEF NewerFits, g
<1>15. RenewFits'
  <2>1. load.kind = "around" => g # <<>>
    BY <1>1, <1>8 DEF Answers
  <2>2. ASSUME load.kind \in {"initial", "latest"} PROVE FromFirst(Len(msgs), Excused', g)
    <3>1. from + n = Len(msgs) + 1 /\ (from = 1 \/ n = PageSize)
      BY <1>1, <2>2 DEF Answers
    <3>2. CASE n = 0
      <4>1. Len(msgs) = 0
        BY <3>1, <3>2, <1>6
      <4> QED BY <4>1 DEF FromFirst, Beyond
    <3>3. CASE n # 0
      <4>1. \A id \in 1 .. Len(msgs) : id > from => id \in IdsOf(g)
        BY <3>1, <3>3, <1>6, <1>7
      <4>2. g # <<>> /\ g[1].id = from /\ from # 0
        BY <3>3, <1>6, <1>7
      <4> QED BY <4>1, <4>2 DEF FromFirst, Beyond
    <3> QED BY <3>2, <3>3
  <2>3. load'.kind \in {"initial", "latest"} => FromFirst(Len(msgs'), Excused', load'.got)
    BY <2>2, <1>2, <1>3 DEF g
  <2> QED BY <2>1, <2>3, <1>2, <1>3, <1>4 DEF RenewFits, Renewing, g
<1> QED BY <1>11, <1>12, <1>13, <1>14, <1>15

\* What is listed again is kept once, where it is first.
LEMMA KeptLast ==
  ASSUME NEW s \in Seq(Shown), s # <<>>, s[Len(s)].id # 0,
         \A j \in 1 .. Len(s) : s[j].id = s[Len(s)].id => j = Len(s)
  PROVE  Dedup(s) # <<>> /\ Dedup(s)[Len(Dedup(s))] = s[Len(s)]
<1>1. Len(s) \in Nat /\ Len(s) # 0
  OBVIOUS
<1>2. \A j \in 1 .. Len(s) - 1 : j \in 1 .. Len(s) /\ j # Len(s)
  BY <1>1
<1>3. Len(s) \in Staying(s)
  BY <1>1, <1>2 DEF Staying
<1> QED BY <1>3, DedupEnds

\* The list an answer is put before, or after.
LEMMA NoBubblesArrive ==
  ASSUME Shaped, Arrive, ArrivesBefore \/ ArrivesAfter, Bubbles(list) = {}
  PROVE  Bubbles(list') = {}
<1>1. \A j \in 1 .. Len(list') : \/ \E i \in 1 .. Len(list) : list'[j] = list[i]
                                 \/ \E i \in 1 .. Len(load.got) : list'[j] = GotList[i]
  BY ArriveListed
<1>2. \A i \in 1 .. Len(list) : list[i].id # 0
  BY DEF Bubbles
<1>3. Len(GotList) = Len(load.got) /\ Bubbles(GotList) = {}
  BY GotListIs
<1>4. \A i \in 1 .. Len(load.got) : GotList[i].id # 0
  BY <1>3 DEF Bubbles
<1> QED BY <1>1, <1>2, <1>4 DEF Bubbles

LEMMA WholeBefore ==
  ASSUME Shaped, Whole, Arrive, ArrivesBefore
  PROVE  Joined' /\ Gap'
<1>1. /\ open /\ load.kind = "more" /\ load' = NoLoad /\ load.at = "read"
      /\ list' = Dedup(GotList \o list) /\ UNCHANGED <<msgs, newer, leapt, raced>>
      /\ Coming' = Coming
  BY ArriveIs, ArriveShape DEF ArrivesBefore, server
<1>2. Excused' = Excused
  BY <1>1 DEF Excused
<1>3. Joined /\ Gap /\ MoreFits
  BY <1>1 DEF Whole
<1>4. /\ list # <<>> /\ list \in Seq(Shown) /\ Len(list) \in Nat \ {0}
      /\ 1 \in 1 .. Len(list) /\ Len(list) \in 1 .. Len(list)
  <2>1. list # <<>> /\ list \in Seq(Shown)
    BY <1>1, <1>3, ShapeTypes DEF MoreFits
  <2>2. Len(list) \in Nat \ {0}
    BY <2>1
  <2> QED BY <2>1, <2>2
<1> DEFINE r == list'  g == load.got  k == load.got[1].id
<1>5. IdsOf(r) = IdsOf(list) \cup IdsOf(g)
  BY <1>1, ArriveListed
<1>6. /\ GotList \in Seq(Shown) /\ Len(GotList) = Len(g) /\ Len(g) \in Nat
      /\ \A i \in 1 .. Len(g) : GotList[i].id = g[i].id /\ g[i].id \in 1 .. Len(msgs)
  BY GotListIs
<1>7. g # <<>> => /\ k \in Nat \ {0} /\ Len(g) \in Nat \ {0} /\ IdsOf(g) = k .. (k + Len(g) - 1)
                  /\ g[Len(g)].id = k + Len(g) - 1
  BY GotRuns DEF Runs
<1> DEFINE j == GotList \o list
<1>8. /\ j \in Seq(Shown) /\ Len(j) = Len(GotList) + Len(list)
      /\ \A i \in 1 .. Len(GotList) : j[i] = GotList[i]
      /\ \A i \in 1 .. Len(list) : j[Len(GotList) + i] = list[i]
      /\ \A i \in 1 .. Len(j) : i \in 1 .. Len(GotList)
                                \/ (i - Len(GotList) \in 1 .. Len(list) /\ j[i] = list[i - Len(GotList)])
  BY <1>4, <1>6, JoinIs
<1> HIDE DEF j
<1>9. r = Dedup(j) /\ j # <<>> /\ Len(j) \in Nat \ {0}
  BY <1>1, <1>4, <1>6, <1>8 DEF j
<1>10. j[Len(j)] = list[Len(list)]
  BY <1>4, <1>6, <1>8
<1>11. ASSUME load.arg # 0, g # <<>>
       PROVE  /\ k + Len(g) = load.arg /\ r # <<>> /\ r[1].id = k /\ list[1].id = load.arg
              /\ load.arg \in Nat /\ load.arg \in IdsOf(list)
  <2>1. list[1].id = load.arg /\ g[Len(g)].id = load.arg - 1 /\ load.arg \in Nat
    BY <1>1, <1>3, <1>11, ShapeTypes DEF MoreFits
  <2>2. load.arg \in IdsOf(list)
    BY <2>1, <1>4, <1>11 DEF IdsOf
  <2>3. 1 \in 1 .. Len(g) /\ k # 0
    BY <1>7, <1>11
  <2>4. j[1].id = k
    BY <2>3, <1>6, <1>8
  <2>5. r # <<>> /\ r[1] = j[1]
    BY <2>3, <2>4, <1>8, <1>9, DedupEnds
  <2>6. k + Len(g) = load.arg
    <3>1. load.arg - 1 = k + Len(g) - 1 /\ k \in Nat /\ Len(g) \in Nat
      BY <2>1, <1>7, <1>11
    <3> HIDE DEF g, k
    <3> QED BY <3>1, <2>1
  <2> QED BY <2>1, <2>2, <2>4, <2>5, <2>6
<1>12. ASSUME load.arg # 0, g = <<>>
       PROVE  r # <<>> /\ r[1].id = load.arg /\ list[1].id = load.arg
  <2>1. list[1].id = load.arg
    BY <1>1, <1>3, <1>12 DEF MoreFits
  <2>2. Len(GotList) = 0
    BY <1>6, <1>12
  <2>3. j[1] = list[1]
    BY <2>2, <1>4, <1>8
  <2> QED BY <2>1, <2>3, <1>8, <1>9, <1>12, DedupEnds
<1>13. g = <<>> => IdsOf(g) = {}
  BY DEF IdsOf
<1>14. Joined'
  <2> SUFFICES ASSUME ~newer, ~leapt PROVE FromFirst(Len(msgs), Excused, r)
    BY <1>1, <1>2 DEF Joined
  <2>1. FromFirst(Len(msgs), Excused, list)
    BY <1>1, <1>3 DEF Joined
  <2>2. CASE load.arg = 0
    <3>1. Beyond(Len(msgs), Excused, 0, IdsOf(list))
      BY <2>2, <1>1, <1>3 DEF MoreFits
    <3> QED BY <3>1, <1>5 DEF FromFirst, Beyond
  <2>3. CASE load.arg # 0 /\ g = <<>>
    <3>1. r # <<>> /\ r[1].id = list[1].id /\ IdsOf(r) = IdsOf(list)
      BY <2>3, <1>5, <1>12, <1>13
    <3> QED BY <3>1, <2>1 DEF FromFirst
  <2>4. CASE load.arg # 0 /\ g # <<>>
    <3>1. /\ k + Len(g) = load.arg /\ r # <<>> /\ r[1].id = k /\ list[1].id = load.arg
          /\ load.arg \in IdsOf(list) /\ k \in Nat \ {0} /\ Len(g) \in Nat /\ load.arg \in Nat
          /\ IdsOf(g) = k .. (k + Len(g) - 1)
      BY <2>4, <1>7, <1>11
    <3>2. Beyond(Len(msgs), Excused, load.arg, IdsOf(list))
      BY <2>1, <3>1 DEF FromFirst, Beyond
    <3>3. Beyond(Len(msgs), Excused, k, IdsOf(r))
      <4> SUFFICES ASSUME NEW id \in 1 .. Len(msgs), id > k PROVE id \in IdsOf(r) \cup Excused
        BY DEF Beyond
      <4>1. CASE id > load.arg
        BY <4>1, <3>2, <1>5 DEF Beyond
      <4>2. CASE id = load.arg
        BY <4>2, <3>1, <1>5
      <4>3. CASE id < load.arg
        <5>1. id \in IdsOf(g)
          BY <4>3, <3>1
        <5> QED BY <5>1, <1>5
      <4> QED BY <4>1, <4>2, <4>3, <3>1
    <3> QED BY <3>1, <3>3 DEF FromFirst
  <2> QED BY <2>2, <2>3, <2>4
<1>15. Gap'
  <2> SUFFICES ASSUME newer, ~leapt PROVE r # <<>> /\ Bubbles(r) = {} /\ Stretch(r)
    BY <1>1 DEF Gap
  <2>1. Bubbles(list) = {} /\ Stretch(list)
    BY <1>3 DEF Gap
  <2>2. Bubbles(r) = {}
    BY <1>1, <2>1, NoBubblesArrive DEF ArrivesBefore
  <2>3. load.arg # 0
    BY <1>1, <1>3 DEF MoreFits
  <2>4. r # <<>>
    BY <2>3, <1>11, <1>12
  <2> DEFINE l == list[Len(list)].id
  <2>5. l \in IdsOf(list) /\ l # 0 /\ list[1].id \in IdsOf(list) /\ list[1].id = load.arg
    <3>1. \A i \in 1 .. Len(list) : list[i].id # 0
      BY <2>1 DEF Bubbles
    <3>2. \A i \in 1 .. Len(list) : list[i].id \in IdsOf(list)
      BY <3>1 DEF IdsOf
    <3> QED BY <3>1, <3>2, <1>4, <2>3, <1>1, <1>3 DEF MoreFits
  <2>6. load.arg <= l /\ l \in Nat /\ load.arg \in Nat
    BY <2>1, <2>5, <1>4, ShapeTypes DEF Stretch
  <2> HIDE DEF l
  <2>7. \A i \in 1 .. Len(g) : g[i].id < load.arg
    <3> SUFFICES ASSUME NEW i \in 1 .. Len(g) PROVE g[i].id < load.arg
      OBVIOUS
    <3>1. g # <<>>
      BY <1>6
    <3>2. g[i].id \in IdsOf(g)
      BY <1>6, ShapeTypes DEF IdsOf
    <3> QED BY <3>1, <3>2, <1>7, <1>11, <2>3
  <2>8. \A i \in 1 .. Len(j) : j[i].id = l => i = Len(j)
    <3> SUFFICES ASSUME NEW i \in 1 .. Len(j), j[i].id = l PROVE i = Len(j)
      OBVIOUS
    <3>1. i \notin 1 .. Len(GotList)
      <4> SUFFICES ASSUME i \in 1 .. Len(GotList) PROVE FALSE
        OBVIOUS
      <4>1. j[i].id = g[i].id /\ g[i].id < load.arg /\ g[i].id \in Nat
        BY <1>6, <1>8, <2>7, ShapeTypes
      <4> QED BY <4>1, <2>6
    <3>2. i - Len(GotList) \in 1 .. Len(list) /\ list[i - Len(GotList)].id = l
      BY <3>1, <1>8
    <3>3. i - Len(GotList) = Len(list)
      BY <3>2, <2>5, <1>4 DEF Shaped, OnceListed, l
    <3> QED BY <3>3, <1>4, <1>6, <1>8
  <2>9. r[Len(r)].id = l
    <3>1. j[Len(j)].id = l
      BY <1>10 DEF l
    <3> QED BY <3>1, <2>5, <2>8, <1>8, <1>9, KeptLast
  <2>10. Stretch(r)
    <3> SUFFICES ASSUME NEW e \in IdsOf(r) PROVE e <= l /\ \A id \in e .. l : id \in IdsOf(r)
      BY <2>9 DEF Stretch
    <3>1. CASE e \in IdsOf(list)
      BY <3>1, <2>1, <1>5 DEF Stretch, l
    <3>2. CASE e \in IdsOf(g)
      <4>1. g # <<>>
        BY <3>2, <1>13
      <4>2. /\ k + Len(g) = load.arg /\ k \in Nat /\ Len(g) \in Nat /\ IdsOf(g) = k .. (k + Len(g) - 1)
        BY <4>1, <2>3, <1>7, <1>11
      <4>3. e \in Nat /\ k <= e /\ e < load.arg
        BY <4>2, <3>2
      <4>4. ASSUME NEW id \in e .. l PROVE id \in IdsOf(r)
        <5>1. CASE id < load.arg
          <6>1. id \in k .. (k + Len(g) - 1)
            BY <5>1, <4>2, <4>3
          <6> QED BY <6>1, <4>2, <1>5
        <5>2. CASE id >= load.arg
          <6>1. id \in load.arg .. l
            BY <5>2, <2>6, <4>3
          <6>2. id \in IdsOf(list)
            BY <6>1, <2>1, <2>5 DEF Stretch, l
          <6> QED BY <6>2, <1>5
        <5> QED BY <5>1, <5>2, <2>6, <4>3
      <4> QED BY <4>3, <4>4, <2>6
    <3> QED BY <3>1, <3>2, <1>5
  <2> QED BY <2>2, <2>4, <2>10
<1> QED BY <1>14, <1>15

LEMMA WholeAfter ==
  ASSUME Shaped, Whole, Arrive, ArrivesAfter
  PROVE  Joined' /\ Gap'
<1>1. /\ open /\ load.kind = "newer" /\ load' = NoLoad /\ load.at = "read"
      /\ list' = Dedup(list \o GotList) /\ UNCHANGED <<msgs, leapt, raced>>
      /\ newer' = (newer /\ Len(load.got) >= PageSize) /\ Coming' = Coming
  BY ArriveIs, ArriveShape DEF ArrivesAfter, server
<1>2. Excused' = Excused
  BY <1>1 DEF Excused
<1> SUFFICES ASSUME ~leapt PROVE Joined' /\ Gap'
  BY <1>1 DEF Joined, Gap
<1>3. newer /\ list # <<>> /\ list[Len(list)].id = load.arg /\ Bubbles(list) = {} /\ Stretch(list)
  <2>1. Gap /\ NewerFits
    BY <1>1 DEF Whole
  <2> QED BY <2>1, <1>1 DEF Gap, NewerFits
<1>4. /\ list \in Seq(Shown) /\ Len(list) \in Nat \ {0} /\ load.arg \in Nat \ {0}
      /\ 1 \in 1 .. Len(list) /\ Len(list) \in 1 .. Len(list)
  <2>1. list \in Seq(Shown) /\ load.arg \in Nat /\ load.arg # 0
    BY <1>1, ShapeTypes DEF Shaped, LoadShape
  <2>2. Len(list) \in Nat \ {0}
    BY <2>1, <1>3
  <2> QED BY <2>1, <2>2
<1> DEFINE r == list'  g == load.got  a == load.arg
<1>5. IdsOf(r) = IdsOf(list) \cup IdsOf(g)
  BY <1>1, ArriveListed
<1>6. /\ GotList \in Seq(Shown) /\ Len(GotList) = Len(g) /\ Len(g) \in Nat
      /\ \A i \in 1 .. Len(g) : GotList[i].id = g[i].id /\ g[i].id \in 1 .. Len(msgs)
  BY GotListIs
<1>7. g # <<>> => /\ Len(g) \in Nat \ {0} /\ IdsOf(g) = (a + 1) .. (a + Len(g))
                  /\ g[Len(g)].id = a + Len(g)
  <2> SUFFICES ASSUME g # <<>> PROVE /\ Len(g) \in Nat \ {0} /\ IdsOf(g) = (a + 1) .. (a + Len(g))
                                     /\ g[Len(g)].id = a + Len(g)
    OBVIOUS
  <2>1. /\ Len(g) \in Nat \ {0} /\ IdsOf(g) = g[1].id .. (g[1].id + Len(g) - 1)
        /\ g[Len(g)].id = g[1].id + Len(g) - 1
    BY GotRuns DEF Runs
  <2>2. g[1].id = a + 1
    BY <1>1 DEF Whole, NewerFits
  <2>3. (a + 1) + Len(g) - 1 = a + Len(g)
    BY <2>1, <1>4
  <2> QED BY <2>1, <2>2, <2>3
<1>8. \A i \in 1 .. Len(list) : list[i].id \in IdsOf(list) /\ list[i].id # 0 /\ list[i].id \in Nat
  <2>1. \A i \in 1 .. Len(list) : list[i].id # 0
    BY <1>3 DEF Bubbles
  <2> QED BY <2>1, ShapeTypes DEF IdsOf
<1>9. \A e \in IdsOf(list) : e \in Nat /\ e <= a /\ \A id \in e .. a : id \in IdsOf(list)
  <2>1. \A e \in IdsOf(list) : e \in Nat
    BY <1>8 DEF IdsOf
  <2> QED BY <2>1, <1>3 DEF Stretch
<1> DEFINE j == list \o GotList
<1>10. /\ j \in Seq(Shown) /\ Len(j) = Len(list) + Len(GotList)
       /\ \A i \in 1 .. Len(list) : j[i] = list[i]
       /\ \A i \in 1 .. Len(GotList) : j[Len(list) + i] = GotList[i]
       /\ \A i \in 1 .. Len(j) : i \in 1 .. Len(list)
                                 \/ (i - Len(list) \in 1 .. Len(GotList) /\ j[i] = GotList[i - Len(list)])
  BY <1>4, <1>6, JoinIs
<1> HIDE DEF j
<1>11. r = Dedup(j) /\ j # <<>> /\ Len(j) \in Nat \ {0}
  BY <1>1, <1>4, <1>6, <1>10 DEF j
<1>12. r # <<>> /\ r[1].id = list[1].id /\ list[1].id # 0
  <2>1. j[1] = list[1] /\ list[1].id # 0
    BY <1>4, <1>8, <1>10
  <2> QED BY <2>1, <1>10, <1>11, DedupEnds
<1>13. Bubbles(r) = {}
  BY <1>1, <1>3, NoBubblesArrive DEF ArrivesAfter
<1>14. Joined'
  <2> SUFFICES ASSUME Len(g) < PageSize PROVE FromFirst(Len(msgs), Excused, r)
    <3>1. PageSize \in Nat
      BY MessagesConstants
    <3>2. ~newer' => Len(g) < PageSize
      <4>1. ~newer' => ~(Len(g) >= PageSize)
        BY <1>1, <1>3
      <4> QED BY <4>1, <3>1, <1>6
    <3> QED BY <3>2, <1>1, <1>2 DEF Joined
  <2>1. Beyond(Len(msgs), Excused, a, IdsOf(g))
    BY <1>1 DEF Whole, NewerFits
  <2> DEFINE f == list[1].id
  <2>2. f \in IdsOf(list) /\ f \in Nat
    BY <1>4, <1>8
  <2>3. \A id \in f .. a : id \in IdsOf(list)
    BY <2>2, <1>9
  <2> HIDE DEF f
  <2>4. Beyond(Len(msgs), Excused, f, IdsOf(r))
    <3> SUFFICES ASSUME NEW id \in 1 .. Len(msgs), id > f PROVE id \in IdsOf(r) \cup Excused
      BY DEF Beyond
    <3>1. CASE id > a
      BY <3>1, <2>1, <1>5 DEF Beyond
    <3>2. CASE id <= a
      <4>1. id \in f .. a
        BY <3>2, <2>2, <1>4
      <4> QED BY <4>1, <2>3, <1>5
    <3> QED BY <3>1, <3>2, <1>4
  <2> QED BY <2>4, <1>12 DEF FromFirst, f
<1>15. Gap'
  <2> SUFFICES ASSUME Len(g) >= PageSize PROVE r # <<>> /\ Bubbles(r) = {} /\ Stretch(r)
    BY <1>1 DEF Gap
  <2>1. g # <<>>
    <3>1. Len(<<>>) = 0 /\ PageSize \in Nat \ {0}
      BY MessagesConstants
    <3> QED BY <3>1
  <2> DEFINE l == a + Len(g)
  <2>2. /\ Len(g) \in Nat \ {0} /\ IdsOf(g) = (a + 1) .. l /\ g[Len(g)].id = l
        /\ l \in Nat \ {0} /\ a < l
    BY <2>1, <1>4, <1>7
  <2> HIDE DEF l
  <2>3. j[Len(j)].id = l
    <3>1. Len(GotList) \in 1 .. Len(GotList) /\ Len(j) = Len(list) + Len(GotList)
      BY <2>2, <1>6, <1>10
    <3> QED BY <3>1, <2>2, <1>6, <1>10
  <2>4. \A i \in 1 .. Len(j) : j[i].id = l => i = Len(j)
    <3> SUFFICES ASSUME NEW i \in 1 .. Len(j), j[i].id = l PROVE i = Len(j)
      OBVIOUS
    <3>1. i \notin 1 .. Len(list)
      <4> SUFFICES ASSUME i \in 1 .. Len(list) PROVE FALSE
        OBVIOUS
      <4>1. l \in IdsOf(list)
        BY <1>8, <1>10
      <4> QED BY <4>1, <2>2, <1>4, <1>9
    <3>2. i - Len(list) \in 1 .. Len(g) /\ g[i - Len(list)].id = l
      BY <3>1, <1>6, <1>10
    <3>3. Len(g) \in 1 .. Len(g) /\ \A p, q \in 1 .. Len(g) : g[p].id = g[q].id => p = q
      <4>1. \A p \in 1 .. Len(g) : g[p].id = g[1].id + p - 1 /\ g[p].id \in Nat
        <5>1. \A p \in 1 .. Len(g) : g[p].id = g[1].id + p - 1
          BY DEF Shaped, LoadShape
        <5>2. \A p \in 1 .. Len(g) : g[p].id \in Nat
          BY <1>6
        <5> QED BY <5>1, <5>2
      <4>2. g[1].id \in Nat
        BY <4>1, <2>2
      <4>3. ASSUME NEW p \in 1 .. Len(g), NEW q \in 1 .. Len(g), g[p].id = g[q].id PROVE p = q
        <5>1. g[1].id + p - 1 = g[1].id + q - 1 /\ p \in Nat /\ q \in Nat
          BY <4>1, <4>3, <1>6
        <5> HIDE DEF g
        <5> QED BY <5>1, <4>2
      <4> QED BY <4>3, <2>2
    <3>4. i - Len(list) = Len(g)
      BY <3>2, <3>3, <2>2
    <3> QED BY <3>4, <1>4, <1>6, <1>10
  <2>5. r[Len(r)].id = l
    BY <2>2, <2>3, <2>4, <1>10, <1>11, KeptLast
  <2>6. Stretch(r)
    <3> SUFFICES ASSUME NEW e \in IdsOf(r) PROVE e <= l /\ \A id \in e .. l : id \in IdsOf(r)
      BY <2>5 DEF Stretch
    <3>1. CASE e \in IdsOf(list)
      <4>1. e \in Nat /\ e <= a /\ \A id \in e .. a : id \in IdsOf(list)
        BY <3>1, <1>9
      <4>2. ASSUME NEW id \in e .. l PROVE id \in IdsOf(r)
        <5>1. CASE id <= a
          <6>1. id \in e .. a
            BY <5>1, <4>1, <1>4
          <6> QED BY <6>1, <4>1, <1>5
        <5>2. CASE id > a
          <6>1. id \in (a + 1) .. l
            BY <5>2, <4>1, <1>4, <2>2
          <6> QED BY <6>1, <2>2, <1>5
        <5> QED BY <5>1, <5>2, <4>1, <1>4, <2>2
      <4> QED BY <4>1, <4>2, <1>4, <2>2
    <3>2. CASE e \in IdsOf(g)
      BY <3>2, <2>2, <1>4, <1>5
    <3> QED BY <3>1, <3>2, <1>5
  <2> QED BY <2>6, <1>12, <1>13
<1> QED BY <1>14, <1>15

LEMMA WholeArrive ==
  ASSUME Shaped, Whole, Arrive
  PROVE  Whole'
<1>1. /\ load.at = "read" /\ load' = NoLoad /\ UNCHANGED <<msgs, open, raced>> /\ Coming' = Coming
      /\ ArrivesAside \/ ArrivesAnew \/ ArrivesBefore \/ ArrivesAfter
  BY ArriveIs, ArriveShape DEF server
<1>2. load'.kind = "none" /\ load'.at = "none"
  BY <1>1 DEF NoLoad
<1>3. Excused' = Excused
  BY <1>1 DEF Excused
<1>4. MoreFits' /\ NewerFits' /\ RenewFits'
  BY <1>2 DEF MoreFits, NewerFits, RenewFits, Renewing
<1>5. CASE ArrivesAside
  BY <1>1, <1>5 DEF ArrivesAside, Whole
<1>6. CASE ArrivesAnew
  <2>1. /\ open /\ load.kind \in {"initial", "latest", "around"} /\ list' = GotList
        /\ newer' = (load.kind = "around") /\ leapt' = FALSE
    BY <1>6 DEF ArrivesAnew
  <2>2. /\ Len(GotList) = Len(load.got) /\ Len(load.got) \in Nat /\ IdsOf(GotList) = IdsOf(load.got)
        /\ Bubbles(GotList) = {} /\ GotList \in Seq(Shown) /\ load.got \in Seq(Gots)
        /\ \A i \in 1 .. Len(load.got) : GotList[i].id = load.got[i].id
    BY GotListIs, ShapeTypes
  <2>3. load.got # <<>> => GotList # <<>> /\ GotList[1].id = load.got[1].id
                           /\ GotList[Len(GotList)].id = load.got[Len(load.got)].id
    <3> SUFFICES ASSUME load.got # <<>> PROVE GotList # <<>> /\ GotList[1].id = load.got[1].id
                           /\ GotList[Len(GotList)].id = load.got[Len(load.got)].id
      OBVIOUS
    <3>1. Len(load.got) # 0 /\ Len(<<>>) = 0
      BY <2>2
    <3>2. 1 \in 1 .. Len(load.got) /\ Len(load.got) \in 1 .. Len(load.got)
      BY <3>1, <2>2
    <3> QED BY <3>1, <3>2, <2>2
  <2>4. RenewFits
    BY <2>1 DEF Whole
  <2>5. Joined'
    <3> SUFFICES ASSUME load.kind \in {"initial", "latest"} PROVE FromFirst(Len(msgs), Excused, GotList)
      BY <1>1, <1>3, <2>1 DEF Joined
    <3>1. FromFirst(Len(msgs), Excused, load.got)
      BY <1>1, <2>4 DEF RenewFits, Renewing
    <3> QED BY <3>1, <2>2, <2>3 DEF FromFirst
  <2>6. Gap'
    <3> SUFFICES ASSUME load.kind = "around" PROVE GotList # <<>> /\ Bubbles(GotList) = {} /\ Stretch(GotList)
      BY <2>1 DEF Gap
    <3>1. load.got # <<>>
      BY <1>1, <2>4 DEF RenewFits
    <3>2. /\ load.got[1].id \in Nat \ {0} /\ Len(load.got) \in Nat \ {0} /\ Runs(load.got, load.got[1].id)
          /\ load.got[Len(load.got)].id = load.got[1].id + Len(load.got) - 1
      BY <3>1, GotRuns
    <3> DEFINE k == load.got[1].id  l == load.got[Len(load.got)].id
    <3>3. IdsOf(GotList) = k .. l /\ k \in Nat /\ l \in Nat
      BY <3>2, <2>2 DEF Runs
    <3>4. GotList[Len(GotList)].id = l
      BY <3>1, <2>3
    <3> HIDE DEF k, l
    <3>5. Stretch(GotList)
      BY <3>3, <3>4 DEF Stretch
    <3> QED BY <3>1, <3>5, <2>2, <2>3
  <2> QED BY <1>4, <2>5, <2>6 DEF Whole
<1>7. CASE ArrivesBefore
  BY <1>4, <1>7, WholeBefore DEF Whole
<1>8. CASE ArrivesAfter
  BY <1>4, <1>8, WholeAfter DEF Whole
<1> QED BY <1>1, <1>5, <1>6, <1>7, <1>8

LEMMA WholeKept ==
  ASSUME Shaped, Whole, [MessagesNext]_messagesVars
  PROVE  Whole'
<1>0. Alike(list, list)
  BY DEF Alike
<1>1. ASSUME NEW how \in Ways, Send(how) PROVE Whole'
  BY <1>1, WholeSend
<1>2. ASSUME Save PROVE Whole'
  <2>1. PICK s \in emitted :
           /\ Stores(s.text, "me", s.how) /\ Coming' = Coming \cup {Len(msgs) + 1}
           /\ UNCHANGED <<count, inbox, opening, screen, cache, ops, history>>
    BY <1>2, SaveIs
  <2> QED BY <2>1, WholeStores DEF screen, history
<1>3. ASSUME Refuse PROVE Whole'
  <2>1. UNCHANGED <<msgs, unsaid, inbox, opening, open, list, newer, load, leapt, raced>>
    BY <1>3 DEF Refuse, screen
  <2>2. Excused' = Excused
    BY <2>1 DEF Excused, Coming, Waiting
  <2> QED BY <1>0, <2>1, <2>2, WholeAlike
<1>4. ASSUME Announce PROVE Whole'
  <2>1. PICK id \in unsaid : /\ unsaid' = unsaid \ {id} /\ Tell("message", id)
                           /\ UNCHANGED <<msgs, count, emitted, opening, screen, cache, ops, history>>
    BY <1>4 DEF Announce
  <2>2. Coming' = Coming
    BY <2>1, AnnounceIs
  <2>3. Excused' = Excused
    BY <2>1, <2>2 DEF Excused, history
  <2> QED BY <1>0, <2>1, <2>3, WholeAlike DEF screen, history
<1>5. ASSUME NEW by \in {"twin", "peer"}, SaveOther(by) PROVE Whole'
  BY <1>5, SaveOtherIs, WholeStores DEF screen, history
<1>6. ASSUME NEW id \in 1 .. Len(msgs), Marked(id) PROVE Whole'
  <2>1. /\ MsgsAlike \/ msgs' = msgs
        /\ Alike(list', list) /\ Coming' = Coming
        /\ UNCHANGED <<open, newer, load, history>>
    BY <1>6, MarkedIs
  <2>2. Len(msgs') = Len(msgs)
    BY <2>1 DEF MsgsAlike
  <2>3. Excused' = Excused /\ leapt' = leapt
    BY <2>1 DEF Excused, history
  <2> QED BY <2>1, <2>2, <2>3, WholeAlike
<1>7. ASSUME BeginMessage PROVE Whole'
  <2>1. UNCHANGED <<server, screen, history>>
    BY <1>7 DEF BeginMessage
  <2>2. CASE open
    <3>1. Coming' = Coming
      BY <2>2, <1>7, BeginComing
    <3>2. Excused' = Excused
      BY <2>1, <3>1 DEF Excused, history
    <3> QED BY <1>0, <2>1, <3>2, WholeAlike DEF server, screen, history
  <2>3. CASE ~open
    BY <2>1, <2>3 DEF Whole, screen
  <2> QED BY <2>2, <2>3
<1>8. ASSUME EndMessage PROVE Whole'
  BY <1>8, EndIs, WholeEnd
<1>9. ASSUME OnDeleted \/ OnEdited PROVE Whole'
  <2>1. Coming' = Coming /\ Alike(list', list) /\ raced \subseteq raced'
    BY <1>9, HeardShape
  <2>2. UNCHANGED <<msgs, open, newer, load, leapt>>
    BY <1>9 DEF OnDeleted, OnEdited, server
  <2>3. Excused \subseteq Excused'
    BY <2>1 DEF Excused
  <2> QED BY <2>1, <2>2, <2>3, WholeAlike
<1>10. ASSUME Open PROVE Whole'
  BY <1>10, WholeOpens
<1>11. ASSUME Close PROVE Whole'
  BY <1>11 DEF Close, Whole
<1>12. ASSUME NEW kind \in Loads \ {"initial"}, NEW arg \in 0 .. Len(msgs), Load(kind, arg) PROVE Whole'
  BY <1>12, WholeLoad
<1>13. ASSUME Answer PROVE Whole'
  BY <1>13, WholeAnswer
<1>14. ASSUME Arrive PROVE Whole'
  BY <1>14, WholeArrive
<1>15. ASSUME UNCHANGED messagesVars PROVE Whole'
  <2>1. UNCHANGED <<msgs, unsaid, inbox, opening, open, list, newer, load, leapt, raced>>
    BY <1>15 DEF messagesVars
  <2>2. Excused' = Excused
    BY <2>1 DEF Excused, Coming, Waiting
  <2> QED BY <1>0, <2>1, <2>2, WholeAlike
<1>16. ASSUME NEW id \in 1 .. Len(msgs), NEW by \in {"me", "twin", "peer"}, Delete(by, id) \/ Edit(by, id)
       PROVE Whole'
  BY <1>6, <1>16 DEF Marked, Senders
<1>17. ASSUME NEW id \in 1 .. Len(msgs), Destruct(id) PROVE Whole'
  BY <1>6, <1>17 DEF Marked
<1> QED BY <1>1, <1>2, <1>3, <1>4, <1>5, <1>16, <1>17, <1>7, <1>8, <1>9, <1>10, <1>11, <1>12, <1>13,
           <1>14, <1>15 DEF MessagesNext

-----------------------------------------------------------------------------
(* Messages: the theorems.                                                 *)

MessagesInv == Shaped /\ GhostsFew /\ OwnRight /\ FlagsKnown /\ Whole

LEMMA MessagesStart == MessagesInit => MessagesInv
<1> SUFFICES ASSUME MessagesInit PROVE MessagesInv
  OBVIOUS
<1>1. Shaped
  BY ShapeStarts
<1>2. /\ Len(msgs) = Earlier /\ emitted = {} /\ unsaid = {} /\ inbox = <<>> /\ opening = {}
      /\ open = FALSE /\ list = <<>> /\ load = NoLoad /\ cache = [i \in Ids |-> 0]
  BY MessagesConstants DEF MessagesInit
<1>3. Len(list) = 0 /\ Len(inbox) = 0 /\ Len(load.got) = 0
  BY <1>2 DEF NoLoad
<1>4. Coming = {}
  BY <1>2, <1>3, ComingIs DEF Pending, InQueue
<1>5. GhostsFew
  <2>1. Bubbles(list) = {}
    BY <1>3 DEF Bubbles
  <2> QED BY <1>1, <2>1, NoBubblesFew
<1>6. OwnRight
  <2>1. \A id \in Ids : cache[id] = 0
    BY <1>2
  <2>2. \A id \in 1 .. Len(msgs) : id \in Ids
    BY <1>1, ShapeTypes
  <2> QED BY <1>2, <1>3, <1>4, <2>1, <2>2 DEF OwnRight, OwnSays
<1>7. FlagsKnown
  BY <1>3, <1>4 DEF FlagsKnown, KnowsIn
<1>8. Whole
  BY <1>2 DEF Whole
<1> QED BY <1>1, <1>5, <1>6, <1>7, <1>8 DEF MessagesInv

LEMMA MessagesSteps == MessagesInv /\ [MessagesNext]_messagesVars => MessagesInv'
<1> SUFFICES ASSUME MessagesInv, [MessagesNext]_messagesVars PROVE MessagesInv'
  OBVIOUS
<1>1. Shaped /\ GhostsFew /\ OwnRight /\ FlagsKnown /\ Whole
  BY DEF MessagesInv
<1> QED BY <1>1, ShapeKept, GhostsKept, OwnKept, FlagsKept, WholeKept DEF MessagesInv

LEMMA ViewHolds == MessagesInv => ViewInv
<1> SUFFICES ASSUME MessagesInv PROVE ViewInv
  OBVIOUS
<1>1. MessagesTypeOK /\ ListedOnce
  BY DEF MessagesInv, Shaped, OnceListed, ListedOnce
<1>2. NoGhosts
  BY DEF MessagesInv, GhostsFew, Owed, NoGhosts
<1>3. OwnText
  <2> SUFFICES ASSUME Clean, ~dropped
               PROVE  /\ \A i \in 1 .. Len(list) : list[i].id # 0 => list[i].says \in {0, msgs[list[i].id].text}
                      /\ \A id \in 1 .. Len(msgs) : cache[id] \in {0, msgs[id].text}
    BY DEF OwnText
  <2>1. PlainSoFar
    BY DEF Clean, PlainSoFar
  <2> QED BY <2>1 DEF MessagesInv, OwnRight, OwnSays
<1> QED BY <1>1, <1>2, <1>3 DEF ViewInv

LEMMA StepHolds == MessagesInv => InStep
<1> SUFFICES ASSUME MessagesInv, AtRest
             PROVE  /\ newer \/ leapt \/ \A id \in 1 .. Len(msgs) :
                         (\E e \in Firsts(list) \cup {Len(msgs)} : e <= id) => id \in IdsOf(list) \cup raced
                    /\ \A id \in IdsOf(list) \ raced :
                         (msgs[id].gone => Entry(id).gone) /\ (msgs[id].edited => Entry(id).edited)
  BY DEF InStep
<1>1. /\ Shaped /\ FlagsKnown /\ Joined /\ open /\ load = NoLoad /\ inbox = <<>> /\ Coming = {}
  BY DEF MessagesInv, Whole, AtRest
<1>2. load.kind = "none" /\ ~Renewing
  BY <1>1 DEF NoLoad, Renewing
<1>3. Excused = raced
  BY <1>1 DEF Excused
<1>4. list \in Seq(Shown) /\ Len(list) \in Nat /\ Len(msgs) \in Nat
  BY <1>1, ShapeTypes
<1>5. ASSUME ~newer, ~leapt, NEW id \in 1 .. Len(msgs), NEW e \in Firsts(list) \cup {Len(msgs)}, e <= id
      PROVE  id \in IdsOf(list) \cup raced
  <2>1. FromFirst(Len(msgs), raced, list)
    BY <1>1, <1>2, <1>3, <1>5 DEF Joined
  <2>2. CASE Beyond(Len(msgs), raced, 0, IdsOf(list))
    BY <2>2, <1>4 DEF Beyond
  <2>3. CASE list # <<>> /\ list[1].id # 0 /\ Beyond(Len(msgs), raced, list[1].id, IdsOf(list))
    <3>1. 1 \in 1 .. Len(list)
      BY <2>3, <1>4
    <3>2. list[1].id \in IdsOf(list) /\ list[1].id \in 1 .. Len(msgs)
      BY <3>1, <2>3, <1>1, RefersIs DEF IdsOf, Refers
    <3>3. \A j \in 1 .. Len(list) : (\A k \in 1 .. j - 1 : list[k].id = 0) => j = 1
      <4> SUFFICES ASSUME NEW j \in 1 .. Len(list), j # 1 PROVE \E k \in 1 .. j - 1 : list[k].id # 0
        OBVIOUS
      <4>1. 1 \in 1 .. j - 1
        BY <1>4
      <4> QED BY <4>1, <2>3
    <3>4. \A f \in Firsts(list) : f = list[1].id
      BY <3>3 DEF Firsts
    <3>5. list[1].id <= id
      BY <3>2, <3>4, <1>4, <1>5
    <3> QED BY <3>2, <3>5, <2>3, <1>4 DEF Beyond
  <2> QED BY <2>1, <2>2, <2>3 DEF FromFirst
<1>6. ASSUME NEW id \in IdsOf(list) \ raced
      PROVE  (msgs[id].gone => Entry(id).gone) /\ (msgs[id].edited => Entry(id).edited)
  <2>1. PICK i \in 1 .. Len(list) : list[i].id = id /\ id # 0
    BY DEF IdsOf
  <2>2. Entry(id) = list[i]
    BY <2>1, <1>1, EntryIs
  <2>3. KnownIn(msgs, inbox, raced, id, list[i].gone, list[i].edited)
    BY <2>1, <1>1, <1>2 DEF FlagsKnown, KnowsIn
  <2>4. \A ev : ~InQueue(inbox, ev, id)
    BY <1>1 DEF InQueue
  <2> QED BY <2>2, <2>3, <2>4 DEF KnownIn
<1> QED BY <1>5, <1>6

\* MessagesSafe states, of every page and every bound: a message is listed once, a
\* bubble outlives neither its message nor what became of it, and no message shows
\* the text of another (useMessages.ts: onMessage, deduplicateMessages).
THEOREM MessagesSafe == MessagesSpec => []ViewInv
BY MessagesStart, MessagesSteps, ViewHolds, PTL DEF MessagesSpec

\* ListInStep states that, whenever nothing is under way, the list has every
\* message from its first to the latest and knows which are deleted and edited,
\* but for what was overtaken (useMessages.ts: the loads and the event handlers).
THEOREM ListInStep == MessagesSpec => []InStep
BY MessagesStart, MessagesSteps, StepHolds, PTL DEF MessagesSpec

=============================================================================
