--------------------------- MODULE DoubleRatchet ---------------------------
(***************************************************************************)
(* One side of a Double Ratchet session (crypto/core double_ratchet.rs) as *)
(* pure operators.  Keys are symbolic.  A key pair is named by its owner   *)
(* and a number; the output of a Diffie-Hellman agreement is the set of    *)
(* the two public keys; a root key and the chain key derived with it are   *)
(* both named by the sequence of the outputs that were mixed in, starting  *)
(* with the X3DH secret.  A message key is a chain and a position, and the *)
(* AEAD opens a message with exactly the key it was sealed with.           *)
(***************************************************************************)
EXTENDS Naturals, Sequences, FiniteSets, Functions

CONSTANT MaxSkip    \* MAX_SKIP: how far one message may jump ahead

ASSUME DrMaxSkipAssumption == MaxSkip \in Nat

NoKey == <<>>       \* None of an Option<public key>
NoChain == <<>>     \* None of an Option<chain key>

\* kdf_rk: the root and the chain key after mixing in the agreement of two keys.
KdfRk(rk, mine, theirs) == Append(rk, {mine, theirs})

\* x3dh_send, x3dh_receive: the secret derived from three agreements.  The
\* identity keys in two of them are those of the correspondents, so that the
\* third, of the ephemeral key and the signed prekey, names it.
X3dh(ek, spk) == {ek, spk}

\* init_sender: the session of the side that ran x3dh_send for the secret `sk',
\* with a fresh key pair and the peer's signed prekey.
InitSender(sk, fresh, spk) ==
  LET rk == KdfRk(<<sk>>, fresh, spk)
  IN  [dhs |-> fresh, dhr |-> spk, rk |-> rk, cks |-> rk, ckr |-> NoChain,
       ns |-> 0, nr |-> 0, pn |-> 0, skipped |-> <<>>]

\* init_receiver: the session of the side that ran x3dh_receive.
InitReceiver(sk, spk) ==
  [dhs |-> spk, dhr |-> NoKey, rk |-> <<sk>>, cks |-> NoChain, ckr |-> NoChain,
   ns |-> 0, nr |-> 0, pn |-> 0, skipped |-> <<>>]

\* Mutant of DhRatchet: the old key pair is kept for the sending chain.
KeepDhs(st, dh, fresh) ==
  LET recv == KdfRk(st.rk, st.dhs, dh)
      send == KdfRk(recv, st.dhs, dh)
  IN  [st EXCEPT !.pn = st.ns, !.ns = 0, !.nr = 0, !.dhr = dh,
                 !.ckr = recv, !.rk = send, !.cks = send]

\* dh_ratchet: a receive chain with the old key pair, then a send chain with a
\* fresh one.
DhRatchet(st, dh, fresh) ==
  LET recv == KdfRk(st.rk, st.dhs, dh)
      send == KdfRk(recv, fresh, dh)
  IN  [st EXCEPT !.pn = st.ns, !.ns = 0, !.nr = 0, !.dhr = dh, !.dhs = fresh,
                 !.ckr = recv, !.rk = send, !.cks = send]

\* skip_message_keys: refused when `until' is too far ahead, else the keys up to
\* it are cached under the peer's key and their position.
WithinSkip(st, until) == until <= st.nr + MaxSkip
SkipTo(st, until) ==
  LET passed == {st.dhr} \X (st.nr .. (until - 1)) IN
  IF until <= st.nr \/ st.ckr = NoChain
    THEN st
    ELSE [st EXCEPT !.nr = until,
                    !.skipped = [k \in DOMAIN st.skipped \cup passed |->
                                   IF k \in passed THEN st.ckr ELSE st.skipped[k]]]

\* Mutants of Advance: the message number stays as it is, or is counted twice.
SameNumber(st) == st
CountTwice(st) == [st EXCEPT !.ns = @ + 2]

\* encrypt: the header and key of the next message, and the advanced state.
CanEncrypt(st) == st.cks # NoChain
Header(st) == [dh |-> st.dhs, pn |-> st.pn, n |-> st.ns, chain |-> st.cks]
Advance(st) == [st EXCEPT !.ns = @ + 1]

\* decrypt.  A cached key is used before anything else; otherwise a new remote
\* key turns the ratchet, after caching the rest of the old receive chain, and
\* the keys before the message are cached.
Cached(st, h) == <<h.dh, h.n>> \in DOMAIN st.skipped
Turns(st, h) == ~Cached(st, h) /\ st.dhr # h.dh
Turned(st, h, fresh) ==
  IF Turns(st, h) THEN DhRatchet(SkipTo(st, h.pn), h.dh, fresh) ELSE st

\* decrypt returns the plaintext: within the skip limits, and the key it arrives
\* at is the one the message was sealed with.
CanDecrypt(st, h, fresh) ==
  IF Cached(st, h)
    THEN st.skipped[<<h.dh, h.n>>] = h.chain
    ELSE LET turned == Turned(st, h, fresh)
             at == SkipTo(turned, h.n)
         IN  /\ Turns(st, h) => WithinSkip(st, h.pn)
             /\ WithinSkip(turned, h.n)
             /\ at.ckr = h.chain /\ at.nr = h.n

\* Mutant of AfterDecrypt: a cached key is used and kept.
KeepCached(st, h, fresh) ==
  IF Cached(st, h)
    THEN st
    ELSE [SkipTo(Turned(st, h, fresh), h.n) EXCEPT !.nr = @ + 1]

\* The state decrypt leaves when it returns the plaintext.
AfterDecrypt(st, h, fresh) ==
  IF Cached(st, h)
    THEN [st EXCEPT !.skipped = Restrict(@, DOMAIN @ \ {<<h.dh, h.n>>})]
    ELSE [SkipTo(Turned(st, h, fresh), h.n) EXCEPT !.nr = @ + 1]
=============================================================================
