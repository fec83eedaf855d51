----------------------------- MODULE DmSession -----------------------------
(***************************************************************************)
(* The Double Ratchet session of two correspondents (drEncrypt, drDecrypt  *)
(* of client/src/hooks/useE2E.ts; drDeviceEncrypt and drDeviceDecrypt are  *)
(* the same protocol between two devices).  A side without a session runs  *)
(* X3DH with the peer's published bundle and marks that one message with   *)
(* INIT_FLAG.  The server keeps the messages; a client may read them late, *)
(* out of order, or -- from the sidebar, the search, a second handler --   *)
(* again.  A message that was encrypted may never reach the server.        *)
(*                                                                         *)
(* withLock serialises the operations of one pair, so each is one step.    *)
(* The identity keys stay as they are.  Reading one's own message fails    *)
(* and changes nothing, so it is left out.                                 *)
(***************************************************************************)
EXTENDS DoubleRatchet

CONSTANTS Users,       \* the two correspondents
          Rereads,     \* whether a message already opened is read again
          NoSession,   \* stands for "no ratchet record in IndexedDB"
          MaxMessages, \* bound: how many messages are encrypted
          MaxKeys,     \* bound: how many key pairs a user generates
          MaxResets    \* bound: how often a user resets the session

ASSUME UsersAssumption == IsFiniteSet(Users) /\ Cardinality(Users) = 2
ASSUME DmBounds ==
  MaxMessages \in Nat /\ MaxKeys \in Nat /\ MaxResets \in Nat /\ Rereads \in BOOLEAN

VARIABLES
  session, \* per user the stored ratchet session
  fresh,   \* per user the number of its next key pair
  sent,    \* the messages encrypted so far
  opened,  \* history: per user the messages it has read
  resets   \* how often a user has reset the session

vars == <<session, fresh, sent, opened, resets>>

Peer(u) == CHOOSE v \in Users : v # u
Spk(u) == <<u, 0>>             \* the signed prekey of the published bundle
FreshKey(u, k) == <<u, fresh[u] + k>>

Keys == {NoKey} \cup (Users \X (0 .. MaxKeys))
Chains == Seq(SUBSET Keys)

\* RatchetState; the map of skipped keys is typed apart, as it has no finite type.
IsSession(st) ==
  /\ [st EXCEPT !.skipped = 0] \in
       [dhs : Keys, dhr : Keys, rk : Chains, cks : Chains, ckr : Chains,
        ns : 0 .. MaxMessages, nr : 0 .. MaxMessages, pn : 0 .. MaxMessages,
        skipped : {0}]
  /\ DOMAIN st.skipped \subseteq Keys \X (0 .. MaxMessages)
  /\ \A k \in DOMAIN st.skipped : st.skipped[k] \in Chains

\* `ek' is the ephemeral key of an X3DH init message, NoKey without INIT_FLAG;
\* `stored' says whether the message reached the server.
Messages == [from : Users, ek : Keys, dh : Keys, pn : 0 .. MaxMessages,
             n : 0 .. MaxMessages, chain : Chains, stored : BOOLEAN]

TypeOK ==
  /\ \A u \in Users : session[u] = NoSession \/ IsSession(session[u])
  /\ fresh \in [Users -> 1 .. (MaxKeys + 1)]
  /\ sent \in Seq(Messages) /\ Len(sent) <= MaxMessages
  /\ opened \in [Users -> SUBSET (1 .. MaxMessages)]
  /\ resets \in [Users -> 0 .. MaxResets]

-----------------------------------------------------------------------------
Init ==
  /\ session = [u \in Users |-> NoSession]
  /\ fresh = [u \in Users |-> 1]
  /\ sent = <<>>
  /\ opened = [u \in Users |-> {}]
  /\ resets = [u \in Users |-> 0]

\* The next message of session `st', and the session saved before it is sent.
SendWith(u, st, ek, stored) ==
  /\ Len(sent) < MaxMessages
  /\ CanEncrypt(st)
  /\ LET h == Header(st) IN
     sent' = Append(sent, [from |-> u, ek |-> ek, dh |-> h.dh, pn |-> h.pn, n |-> h.n,
                           chain |-> h.chain, stored |-> stored])
  /\ session' = [session EXCEPT ![u] = Advance(st)]
  /\ UNCHANGED <<opened, resets>>

\* drEncrypt without a session: x3dhSend, ratchetInitSender, INIT_FLAG.
EncryptFirst(u, stored) ==
  /\ session[u] = NoSession
  /\ fresh[u] < MaxKeys
  /\ LET ek == FreshKey(u, 0)  spk == Spk(Peer(u))
     IN  SendWith(u, InitSender(X3dh(ek, spk), FreshKey(u, 1), spk), ek, stored)
  /\ fresh' = [fresh EXCEPT ![u] = @ + 2]

\* drEncrypt with a session.
Encrypt(u, stored) ==
  /\ session[u] # NoSession
  /\ SendWith(u, session[u], NoKey, stored)
  /\ UNCHANGED fresh

\* The message can be asked for: the server has it and it is the peer's.
CanBeRead(u, i) ==
  /\ sent[i].from # u /\ sent[i].stored
  /\ Rereads \/ i \notin opened[u]

\* The stored session of `u' decrypts message `i'.
SessionDecrypts(u, i) ==
  session[u] # NoSession /\ CanDecrypt(session[u], sent[i], FreshKey(u, 0))

\* A decrypt of message `i' by `u' in state `st' succeeds and is saved.
ReadWith(u, i, st) ==
  /\ Turns(st, sent[i]) => fresh[u] <= MaxKeys
  /\ session' = [session EXCEPT ![u] = AfterDecrypt(st, sent[i], FreshKey(u, 0))]
  /\ fresh' = [fresh EXCEPT ![u] = IF Turns(st, sent[i]) THEN @ + 1 ELSE @]
  /\ opened' = [opened EXCEPT ![u] = @ \cup {i}]
  /\ UNCHANGED <<sent, resets>>

\* drDecrypt with the stored session, tried first with INIT_FLAG too.
Decrypt(u, i) ==
  /\ CanBeRead(u, i)
  /\ SessionDecrypts(u, i)
  /\ ReadWith(u, i, session[u])

\* drDecrypt with INIT_FLAG when there is no session or it does not decrypt:
\* x3dhReceive and ratchetInitReceiver replace it.
DecryptInit(u, i) ==
  /\ CanBeRead(u, i)
  /\ sent[i].ek # NoKey
  /\ ~SessionDecrypts(u, i)
  /\ LET st == InitReceiver(X3dh(sent[i].ek, Spk(u)), Spk(u))
     IN  /\ CanDecrypt(st, sent[i], FreshKey(u, 0))
         /\ ReadWith(u, i, st)

\* invalidatePeerSession: the "reset session" button of the settings.
ResetSession(u) ==
  /\ resets[u] < MaxResets
  /\ resets' = [resets EXCEPT ![u] = @ + 1]
  /\ session' = [session EXCEPT ![u] = NoSession]
  /\ UNCHANGED <<fresh, sent, opened>>

Next ==
  \E u \in Users :
    \/ \E stored \in BOOLEAN : EncryptFirst(u, stored) \/ Encrypt(u, stored)
    \/ \E i \in DOMAIN sent : Decrypt(u, i) \/ DecryptInit(u, i)
    \/ ResetSession(u)

Spec == Init /\ [][Next]_vars

-----------------------------------------------------------------------------
\* The X3DH secret a session or a message goes back to.
Root(chain) == chain[1]

\* Message `i' lies within the skip limits of session `st'.
InWindow(st, h) ==
  IF h.dh = st.dhr
    THEN h.n <= st.nr + MaxSkip
    ELSE h.pn <= st.nr + MaxSkip /\ h.n <= MaxSkip

\* Whatever was lost, reordered or is still unread, and however often the two
\* sides turned the ratchet since: a message the user has not opened yet, of the
\* X3DH session the user is in, within the skip limits, opens (decrypt caches
\* the rest of the old receive chain before it turns).
UnopenedReadable ==
  \A u \in Users : session[u] # NoSession =>
    \A i \in DOMAIN sent :
      ( /\ sent[i].from # u /\ i \notin opened[u]
        /\ Root(sent[i].chain) = Root(session[u].rk)
        /\ InWindow(session[u], sent[i]) \/ Cached(session[u], sent[i]) )
      => SessionDecrypts(u, i)

\* The root keys of the two sides never diverge: in the same X3DH session one
\* side is exactly one step ahead and the other's root key is its past
\* (dh_ratchet on both sides).
RootKeysAgree ==
  \A u, v \in Users :
    ( /\ u # v /\ session[u] # NoSession /\ session[v] # NoSession
      /\ Root(session[u].rk) = Root(session[v].rk)
      /\ Len(session[u].rk) >= Len(session[v].rk) )
    => session[v].rk = SubSeq(session[u].rk, 1, Len(session[u].rk) - 1)

\* No two messages are sealed with the same key, in either direction and across
\* resets (message_nonce: the nonce is the message number, "safe because mk is
\* single-use").
UniqueMessageKeys ==
  \A i, j \in DOMAIN sent :
    (sent[i].chain = sent[j].chain /\ sent[i].n = sent[j].n) => i = j

\* A message that was opened cannot be decrypted with the session any more: its
\* key is neither cached nor ahead on the receive chain
\* (forward_secrecy_old_key_unusable).
KeyGoneAfterUse ==
  \A u \in Users : session[u] # NoSession =>
    \A i \in opened[u] : ~SessionDecrypts(u, i)

\* A message key encrypts one message, and is gone once it decrypted it; the two
\* sides never hold diverging root keys (encrypt, decrypt, dh_ratchet).
DmInv == TypeOK /\ UniqueMessageKeys /\ KeyGoneAfterUse /\ RootKeysAgree
=============================================================================
