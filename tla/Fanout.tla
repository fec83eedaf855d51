------------------------------- MODULE Fanout -------------------------------
(***************************************************************************)
(* Direct messages for several devices (v3): encryptV3Internal,            *)
(* drDeviceEncrypt, drDeviceDecrypt and decryptV3Internal of useE2E.ts,    *)
(* the readers of useMessages.ts and useConversations.ts, and the storing  *)
(* of messages with their envelopes (saveMessage).                         *)
(*                                                                         *)
(* One device sends; its other devices and those of the recipient read.    *)
(* Nothing is answered, so a session is known by the number of its last    *)
(* message at the sender and by the numbers used at the reader: the module *)
(* DmSession has a pair of devices that both write.                        *)
(***************************************************************************)
EXTENDS Naturals, FiniteSets

CONSTANTS Theirs, Mine, \* the recipient's devices, and the sender's other devices
          MaxTexts,     \* bound: messages sent
          MaxLoads,     \* bound: messages read from history
          MaxFailures   \* bound: requests that fail, pages that die

ASSUME FanoutConstants ==
  /\ Theirs \cap Mine = {}
  /\ MaxTexts \in Nat /\ MaxLoads \in Nat /\ MaxFailures \in Nat

Targets == Theirs \cup Mine
Texts == 1 .. MaxTexts

VARIABLES
  registered, \* Device rows
  outgoing,   \* per device: messages sealed in its session, 0 without one
  bundles,    \* deviceBundleCache: "none", "some" or "null"
  sends,      \* encryptV3 calls under way
  begun,      \* messages begun
  stored,     \* Message rows with their MessageKeyEnvelope rows
  heard,      \* onMessage handlers that have yet to decrypt
  incoming,   \* per device: does it have the session, and the numbers used in it
  text,       \* per device the plaintext cache: "none", "text", or the ciphertext kept as if it were text
  keeping,    \* texts on their way to the plaintext cache, whose keys are used up
  loads, failures,
  excused,    \* history: devices left out of a message because a request failed
  unsaved     \* history: messages whose key went to a reader that keeps no text, or was lost with it

fanVars == <<registered, outgoing, bundles, sends, begun, stored, heard, incoming, text, keeping,
             loads, failures, excused, unsaved>>
senderPage == <<outgoing, bundles, sends, begun, excused>>
readers == <<heard, incoming, text, keeping, loads, unsaved>>

Envelopes == [to : Targets, no : Texts]
IsInit(e) == e.no = 1  \* only the first message of a session carries the X3DH message
Idle == [has |-> FALSE, used |-> {}]

Sends ==   \* `ask' the lists to come, `left' the devices to seal for
  [m : Texts, ask : SUBSET {Theirs, Mine}, left : SUBSET Targets, sealed : SUBSET Envelopes,
   known : SUBSET Targets]
StoredRows == [m : Texts, sealed : SUBSET Envelopes, rows : SUBSET Envelopes, known : SUBSET Targets]

FanTypeOK ==
  /\ registered \subseteq Targets /\ outgoing \in [Targets -> 0 .. MaxTexts]
  /\ bundles \in [Targets -> {"none", "some", "null"}] /\ begun \in 0 .. MaxTexts
  /\ sends \subseteq Sends
  /\ stored \subseteq StoredRows /\ \A r \in stored : r.rows \in {{}, r.sealed}
  /\ heard \subseteq [m : Texts, at : Targets, by : {"list", "view"}]
  /\ incoming \in [Targets -> [has : BOOLEAN, used : SUBSET Texts]]
  /\ text \in [Targets -> [Texts -> {"none", "text", "cipher"}]]
  /\ keeping \subseteq [m : Texts, at : Targets, as : {"text", "cipher"}]
  /\ loads \in 0 .. MaxLoads /\ failures \in 0 .. MaxFailures
  /\ excused \subseteq Texts \X Targets /\ unsaved \subseteq Texts \X Targets

FanInit ==
  /\ registered \in SUBSET Targets /\ outgoing = [d \in Targets |-> 0]
  /\ bundles = [d \in Targets |-> "none"] /\ sends = {} /\ begun = 0 /\ stored = {} /\ heard = {}
  /\ incoming = [d \in Targets |-> Idle]
  /\ text = [d \in Targets |-> [m \in Texts |-> "none"]]
  /\ keeping = {} /\ loads = 0 /\ failures = 0 /\ excused = {} /\ unsaved = {}

Fail == failures < MaxFailures /\ failures' = failures + 1

-----------------------------------------------------------------------------
(* The sending page.                                                       *)

\* A device signs in and registers its bundle.
Register(d) ==
  /\ d \notin registered /\ registered' = registered \cup {d}
  /\ UNCHANGED <<senderPage, stored, readers, failures>>

\* encryptDirect: the message gets its key, and both lists are asked for.
EncryptV3 ==
  /\ begun < MaxTexts /\ begun' = begun + 1
  /\ sends' = sends \cup {[m |-> begun + 1, ask |-> {Theirs, Mine}, left |-> {}, sealed |-> {},
                          known |-> registered]}
  /\ UNCHANGED <<registered, outgoing, bundles, excused, stored, readers, failures>>

\* getUserBundles: the devices of one of the two users.
ListDevices(s, of) ==
  /\ of \in s.ask
  /\ sends' = (sends \ {s}) \cup {[s EXCEPT !.ask = @ \ {of}, !.left = @ \cup (of \cap registered)]}
  /\ UNCHANGED <<registered, outgoing, bundles, begun, excused, stored, readers, failures>>

\* The request fails: an empty list is used.
ListFails(s, of) ==
  /\ of \in s.ask /\ Fail
  /\ sends' = (sends \ {s}) \cup {[s EXCEPT !.ask = @ \ {of}]}
  /\ excused' = excused \cup ({s.m} \X of)
  /\ UNCHANGED <<registered, outgoing, bundles, begun, stored, readers>>

\* fetchDeviceBundle: the promise is cached, and with it a failure, until the
\* page is loaded again.
FetchDeviceBundle(s, d) ==
  /\ d \in s.left /\ s.ask = {} /\ outgoing[d] = 0 /\ bundles[d] = "none"
  /\ \/ bundles' = [bundles EXCEPT ![d] = "some"] /\ UNCHANGED failures
     \/ bundles' = [bundles EXCEPT ![d] = "null"] /\ Fail
  /\ UNCHANGED <<registered, outgoing, sends, begun, excused, stored, readers>>

\* Mutant of SealFor: the session is read before the lock is taken.
SealUnlocked(s, d) ==
  /\ d \in s.left /\ s.ask = {} /\ (outgoing[d] > 0 \/ bundles[d] = "some")
  /\ \E n \in {outgoing[d], outgoing[d] - 1} \cap Nat :
       /\ outgoing' = [outgoing EXCEPT ![d] = n + 1]
       /\ sends' = (sends \ {s}) \cup
            {[s EXCEPT !.left = @ \ {d}, !.sealed = @ \cup {[to |-> d, no |-> n + 1]}]}
  /\ UNCHANGED <<registered, bundles, begun, excused, stored, readers, failures>>

\* drDeviceEncrypt under its lock: a stored session is used, else a new one.
SealFor(s, d) ==
  /\ d \in s.left /\ s.ask = {} /\ (outgoing[d] > 0 \/ bundles[d] = "some")
  /\ outgoing' = [outgoing EXCEPT ![d] = @ + 1]
  /\ sends' = (sends \ {s}) \cup
       {[s EXCEPT !.left = @ \ {d}, !.sealed = @ \cup {[to |-> d, no |-> outgoing[d] + 1]}]}
  /\ UNCHANGED <<registered, bundles, begun, excused, stored, readers, failures>>

\* No bundle: the device is left out, with a warning on the console.
LeaveOut(s, d) ==
  /\ d \in s.left /\ s.ask = {} /\ outgoing[d] = 0 /\ bundles[d] = "null"
  /\ sends' = (sends \ {s}) \cup {[s EXCEPT !.left = @ \ {d}]}
  /\ excused' = excused \cup {<<s.m, d>>}
  /\ UNCHANGED <<registered, outgoing, bundles, begun, stored, readers, failures>>

Sealed(s) == s.ask = {} /\ s.left = {}

\* Without any envelope encryptDirect takes the v2 session instead.
FallBack(s) ==
  /\ Sealed(s) /\ s.sealed = {} /\ sends' = sends \ {s}
  /\ UNCHANGED <<registered, outgoing, bundles, begun, excused, stored, readers, failures>>

\* The page is closed or reloaded: what was sealed and not sent is lost, while
\* the sessions it was sealed with are kept.
PageDies ==
  /\ Fail /\ sends' = {} /\ bundles' = [d \in Targets |-> "none"]
  /\ UNCHANGED <<registered, outgoing, begun, excused, stored, readers>>

-----------------------------------------------------------------------------
(* The server.                                                             *)

\* saveMessage: the message row ...
SaveMessage(s) ==
  /\ Sealed(s) /\ s.sealed # {} /\ sends' = sends \ {s}
  /\ stored' = stored \cup {[m |-> s.m, sealed |-> s.sealed, rows |-> {}, known |-> s.known]}
  /\ UNCHANGED <<registered, outgoing, bundles, begun, excused, readers, failures>>

\* ... or none: handleMessage refuses it (its rate or its length).
Refused3(s) ==
  /\ Sealed(s) /\ s.sealed # {} /\ Fail /\ sends' = sends \ {s}
  /\ UNCHANGED <<registered, outgoing, bundles, begun, excused, stored, readers>>

\* ... then the envelopes, and onMessage with them to the devices there are:
\* the list of each handles it, and the conversation if it is open.
SaveEnvelopes(r) ==
  /\ r.rows = {}
  /\ stored' = (stored \ {r}) \cup {[r EXCEPT !.rows = r.sealed]}
  /\ \E here \in SUBSET registered : \E open \in SUBSET here :
       heard' = heard \cup [m : {r.m}, at : here, by : {"list"}] \cup [m : {r.m}, at : open, by : {"view"}]
  /\ UNCHANGED <<registered, senderPage, incoming, text, keeping, loads, unsaved, failures>>

-----------------------------------------------------------------------------
(* The reading devices.                                                    *)

EnvelopeOf(m, d) == {e \in UNION {r.rows : r \in {q \in stored : q.m = m}} : e.to = d}

\* drDeviceDecrypt: with the session if its key is still there, or from the
\* X3DH message, which starts the session anew.
Opens3(d, e) == IsInit(e) \/ (incoming[d].has /\ e.no \notin incoming[d].used)

AfterOpen(d, e) ==
  IF incoming[d].has /\ e.no \notin incoming[d].used
  THEN [has |-> TRUE, used |-> incoming[d].used \cup {e.no}]
  ELSE [has |-> TRUE, used |-> {e.no}]

\* decryptV3Internal on device d: the session is saved without the key, and
\* then the reader gets the text, which it keeps or not.
DecryptV3(d, m, keeps) ==
  LET mine == {e \in EnvelopeOf(m, d) : Opens3(d, e)} IN
  IF mine = {} THEN UNCHANGED <<incoming, keeping, unsaved>>
  ELSE \E e \in mine :
         /\ incoming' = [incoming EXCEPT ![d] = AfterOpen(d, e)]
         /\ keeping' = IF keeps THEN keeping \cup {[m |-> m, at |-> d, as |-> "text"]} ELSE keeping
         /\ unsaved' = IF keeps THEN unsaved ELSE unsaved \cup {<<m, d>>}

\* onMessage of useConversations: it shows the text and does not keep it.
ListReads(h) ==
  /\ h \in heard /\ h.by = "list" /\ heard' = heard \ {h}
  /\ DecryptV3(h.at, h.m, FALSE)
  /\ UNCHANGED <<registered, senderPage, stored, text, loads, failures>>

\* onMessage of useMessages; an own message is looked for in the cache first.
ViewReads(h) ==
  /\ h \in heard /\ h.by = "view" /\ heard' = heard \ {h}
  /\ IF h.at \in Mine /\ text[h.at][h.m] # "none"
     THEN UNCHANGED <<incoming, keeping, unsaved>>
     ELSE DecryptV3(h.at, h.m, TRUE)
  /\ UNCHANGED <<registered, senderPage, stored, text, loads, failures>>

\* decryptMessages for a message read from history.  One that was read before
\* its envelopes were there goes the way of the older formats, which return what
\* they cannot decrypt: the ciphertext is kept as the text.
HistoryReads(d, r) ==
  /\ loads < MaxLoads /\ loads' = loads + 1 /\ d \in registered
  /\ IF text[d][r.m] # "none" THEN UNCHANGED <<incoming, keeping, unsaved>>
     ELSE IF r.rows = {}
          THEN /\ keeping' = keeping \cup {[m |-> r.m, at |-> d, as |-> "cipher"]}
               /\ UNCHANGED <<incoming, unsaved>>
          ELSE DecryptV3(d, r.m, TRUE)
  /\ UNCHANGED <<registered, senderPage, stored, text, heard, failures>>

\* savePlaintext is carried out ...
SavePlaintext(k) ==
  /\ k \in keeping /\ keeping' = keeping \ {k}
  /\ text' = [text EXCEPT ![k.at][k.m] = k.as]
  /\ UNCHANGED <<registered, senderPage, stored, heard, incoming, loads, unsaved, failures>>

\* The writes in `gone' never happen: their texts are lost with the keys.
Lose(gone) ==
  /\ Fail /\ keeping' = keeping \ gone
  /\ unsaved' = unsaved \cup {<<k.m, k.at>> : k \in {j \in gone : j.as = "text"}}
  /\ UNCHANGED <<registered, senderPage, stored, incoming, text, loads>>

\* ... or fails, which no caller is told (.catch(() => {})) ...
SaveFails(k) == k \in keeping /\ Lose({k}) /\ UNCHANGED heard

\* ... or the page is closed first, with the events it has yet to handle.
ReaderDies(d) ==
  /\ Lose({k \in keeping : k.at = d})
  /\ heard' = {h \in heard : h.at # d}

FanNext ==
  \/ \E d \in Targets : Register(d)
  \/ EncryptV3 \/ PageDies
  \/ \E s \in sends :
       \/ \E of \in {Theirs, Mine} : ListDevices(s, of) \/ ListFails(s, of)
       \/ \E d \in Targets : FetchDeviceBundle(s, d) \/ SealFor(s, d) \/ LeaveOut(s, d)
       \/ FallBack(s) \/ SaveMessage(s) \/ Refused3(s)
  \/ \E r \in stored : SaveEnvelopes(r) \/ \E d \in Targets : HistoryReads(d, r)
  \/ \E h \in heard : ListReads(h) \/ ViewReads(h)
  \/ \E k \in keeping : SavePlaintext(k) \/ SaveFails(k)
  \/ \E d \in Targets : ReaderDies(d)

-----------------------------------------------------------------------------
\* What was sealed for a device stays readable there, in whatever order the
\* messages are sealed, stored and read: its key is used up only when its text
\* is kept or about to be.  Excepted are the messages whose key went to a reader
\* that keeps no text, and those whose text was lost between the saving of the
\* session and the write, which failed or which the page did not live to do;
\* those whose ciphertext was kept as text count as kept.  (Whether the
\* device ever has the session is another matter: it does not when the message
\* that begins it never arrives.)
SealedStaysReadable ==
  \A r \in stored : \A e \in r.rows :
    \/ text[e.to][r.m] # "none" \/ <<r.m, e.to>> \in unsaved
    \/ [m |-> r.m, at |-> e.to, as |-> "text"] \in keeping
    \/ e.no \notin incoming[e.to].used

\* No two messages are sealed with one key, also when sends overlap.
SealedOnce ==
  \A q, r \in stored : \A e \in q.sealed \cap r.sealed : q = r

\* A device that was registered before a message was begun is left out of it
\* only after one of the page's requests for it failed.
NoneForgotten ==
  \A r \in stored : \A d \in r.known :
    (\E e \in r.sealed : e.to = d) \/ <<r.m, d>> \in excused

FanoutInv == FanTypeOK /\ SealedStaysReadable /\ SealedOnce /\ NoneForgotten

FanSpec == FanInit /\ [][FanNext]_fanVars
=============================================================================
