-------------------------- MODULE ConversationProofs --------------------------
(***************************************************************************)
(* Proofs about Media and Conversations, for any users, pages,             *)
(* conversations and bounds.                                               *)
(*                                                                         *)
(* Media.  Two facts outside the invariant carry it.  Recorders are        *)
(* counted: each that exists, waits for a prompt or for its last data, or  *)
(* will start when a peer's keys are known, was paid for by a touch of the *)
(* user.  And an upload that no other overlapped is the one the abort      *)
(* controller holds, so that a cancellation reaches it or finds it being   *)
(* sealed.                                                                 *)
(*                                                                         *)
(* Conversations.  A handler writes long after it has read.  The invariant *)
(* has a part for each kind of handler that says what of its reading still *)
(* holds, and, where a user is to hear of something, who is to tell him:   *)
(* a handler, an event or a fetch under way.                               *)
(***************************************************************************)
EXTENDS Conversations, Media, FiniteSetTheorems, SequenceTheorems, TLAPS

Present == IF voice = "none" THEN 0 ELSE 1

\* The input, the recorder and the check of the peer's keys.
ScreenTypeOK ==
  /\ chat \in Chats /\ gate \in {"open", "loading", "blocked"} /\ gateOf \in Peers \cup {Nobody, chat}
  /\ checks \subseteq Peers
  /\ showVoice \in BOOLEAN /\ mic \in BOOLEAN /\ image \in BOOLEAN
  /\ voice \in {"none", "starting", "recording", "stopping", "preview"}
  /\ prompts \in Nat /\ ending \in Nat /\ touches \in 0 .. MaxTouches

\* The recorder is there only when it was asked for and the input is free.
RecorderShown == voice # "none" => showVoice /\ gate = "open"

RecordersPaid ==
  /\ IsFiniteSet(checks)
  /\ prompts + ending + Present + Cardinality(checks) <= touches

ScreenInv == ScreenTypeOK /\ MicOff /\ GateRight /\ RecorderShown /\ RecordersPaid

\* The uploads.
UploadType ==
  [at : {"new", "sealing", "uploading", "stored", "sent", "over"},
   to : Chats \cup {Nobody}, voice : BOOLEAN, sealedFor : Chats \cup {Nobody}]
UploadsTypeOK ==
  /\ up \in [Items -> UploadType] /\ bar \in BOOLEAN /\ abort \in {0} \cup Items
  /\ unwanted \subseteq Items /\ unheeded \subseteq Items /\ overlapped \subseteq Items

\* Uploads that go on together are known to overlap; one that goes on alone is
\* the one that can be aborted.
AbortHolds ==
  /\ \A f, g \in Going : f # g => f \in overlapped
  /\ \A f \in Going : f \in overlapped \/ abort = f

\* What was cancelled is over, if the cancellation could reach it.
CancelledIsOver ==
  \A f \in unwanted : up[f].at = "over" \/ f \in unheeded \cup overlapped

\* What a file may go out with: the key of its conversation, or in the clear.
ClearOrItsKey(f, key) ==
  \/ key = up[f].to
  \/ key = Nobody /\ up[f].to \notin Peers /\ (up[f].to \in Groups => up[f].voice)

UploadsInv == UploadsTypeOK /\ SealedForItsChat /\ AbortHolds /\ CancelledIsOver

\* The keys of own files.
KeptInv ==
  /\ pending \subseteq Items /\ keys \subseteq Items /\ news \subseteq Items /\ missed \subseteq Items
  /\ OwnFileKept

IndInv == ScreenInv /\ UploadsInv /\ KeptInv

LEMMA IndInvGivesMediaInv == IndInv => MediaInv
<1> SUFFICES ASSUME IndInv PROVE MediaInv
  OBVIOUS
<1>1. Cardinality(checks) \in Nat
  BY FS_CardinalityType DEF IndInv, ScreenInv, RecordersPaid
<1>2. prompts \in 0 .. MaxTouches /\ ending \in 0 .. MaxTouches
  BY <1>1, MediaConstants DEF IndInv, ScreenInv, ScreenTypeOK, RecordersPaid, Present
<1>3. MediaTypeOK
  BY <1>2, MediaConstants DEF IndInv, ScreenInv, ScreenTypeOK, UploadsInv, UploadsTypeOK, UploadType,
              KeptInv, MediaTypeOK
<1>4. CancelledNotSent
  BY DEF IndInv, UploadsInv, CancelledIsOver, CancelledNotSent
<1> QED
  BY <1>3, <1>4 DEF IndInv, ScreenInv, UploadsInv, KeptInv, MediaInv

LEMMA InitIndInv == MediaInit => IndInv
<1> SUFFICES ASSUME MediaInit PROVE IndInv
  OBVIOUS
<1>1. ScreenInv
  <2>1. ScreenTypeOK
    <3>1. chat \in Chats /\ gateOf = chat /\ touches \in 0 .. MaxTouches
      BY MediaConstants DEF MediaInit
    <3>2. checks \subseteq Peers /\ prompts \in Nat /\ ending \in Nat
      BY DEF MediaInit
    <3> QED
      BY <3>1, <3>2 DEF MediaInit, ScreenTypeOK
  <2>3. MicOff /\ RecorderShown
    BY DEF MediaInit, MicOff, RecorderShown
  <2>4. GateRight
    BY MediaConstants DEF MediaInit, GateRight
  <2>2. RecordersPaid
    BY FS_EmptySet DEF MediaInit, RecordersPaid, Present
  <2> QED
    BY <2>1, <2>2, <2>3, <2>4 DEF ScreenInv
<1>2. UploadsInv
  BY DEF MediaInit, UploadsInv, UploadsTypeOK, UploadType, SealedForItsChat, AbortHolds, Going,
         CancelledIsOver
<1>3. KeptInv
  BY DEF MediaInit, KeptInv, OwnFileKept
<1> QED
  BY <1>1, <1>2, <1>3 DEF IndInv

-----------------------------------------------------------------------------
(* What leaves a part alone.                                               *)

LEMMA ScreenStays ==
  ASSUME ScreenInv, UNCHANGED <<recorder, gates, image, touches>>
  PROVE  ScreenInv'
BY DEF recorder, gates, ScreenInv, ScreenTypeOK, MicOff, GateRight, RecorderShown,
       RecordersPaid, Present

LEMMA UploadsStay ==
  ASSUME UploadsInv, UNCHANGED uploads
  PROVE  UploadsInv'
BY DEF uploads, UploadsInv, UploadsTypeOK, SealedForItsChat, ClearOrItsKey, AbortHolds, Going, CancelledIsOver

\* The key of a file matters when its message has been sent.
LEMMA KeptStays ==
  ASSUME KeptInv, UNCHANGED kept,
         \A f \in Items : up'[f].at = "sent" =>
           up[f].at = "sent" /\ up'[f].to = up[f].to
  PROVE  KeptInv'
BY DEF kept, KeptInv, OwnFileKept, OwnKey

-----------------------------------------------------------------------------
(* The screen.                                                             *)

\* The recorder comes, stays or goes, and is counted.
LEMMA ShownCounts ==
  ASSUME ScreenInv, NEW asked \in BOOLEAN, NEW g \in {"open", "loading", "blocked"},
         Shown(asked, g)
  PROVE  /\ showVoice' \in BOOLEAN /\ mic' \in BOOLEAN /\ gate' = g
         /\ voice' \in {"none", "starting", "recording", "stopping", "preview"}
         /\ prompts' \in Nat /\ ending' \in Nat
         /\ MicOff' /\ RecorderShown'
         /\ prompts' + ending' + Present' <=
              prompts + ending + (IF asked /\ g = "open" THEN 1 ELSE Present)
<1>1. /\ voice \in {"none", "starting", "recording", "stopping", "preview"}
      /\ prompts \in Nat /\ ending \in Nat /\ mic \in BOOLEAN
      /\ mic => voice \in {"recording", "stopping"}
  BY DEF ScreenInv, ScreenTypeOK, MicOff
<1>2. showVoice' = asked /\ gate' = g
  BY DEF Shown
<1>3. CASE asked /\ g = "open"
  <2>1. voice' = (IF voice = "none" THEN "starting" ELSE voice) /\ UNCHANGED <<mic, prompts, ending>>
    BY <1>3 DEF Shown
  <2> QED
    BY <1>1, <1>2, <1>3, <2>1 DEF MicOff, RecorderShown, Present
<1>4. CASE ~(asked /\ g = "open")
  <2>1. /\ voice' = "none" /\ mic' = FALSE
        /\ prompts' = prompts + (IF voice = "starting" THEN 1 ELSE 0)
        /\ ending' = ending + (IF voice = "stopping" THEN 1 ELSE 0)
    BY <1>4 DEF Shown, Unmounted
  <2>2. prompts' \in Nat /\ ending' \in Nat
    BY <1>1, <2>1
  <2>3. prompts' + ending' + Present' <= prompts + ending + Present
    BY <1>1, <2>1 DEF Present
  <2> QED
    BY <1>1, <1>2, <1>4, <2>1, <2>2, <2>3 DEF MicOff, RecorderShown
<1> QED
  BY <1>3, <1>4

LEMMA ChecksCounted ==
  ASSUME ScreenInv
  PROVE  /\ IsFiniteSet(checks) /\ Cardinality(checks) \in Nat
         /\ prompts \in Nat /\ ending \in Nat /\ touches \in Nat /\ Present \in 0 .. 1
         /\ prompts + ending + Present + Cardinality(checks) <= touches
         /\ \A p : /\ IsFiniteSet(checks \ {p}) /\ IsFiniteSet(checks \cup {p})
                   /\ Cardinality(checks \cup {p}) \in Nat /\ Cardinality(checks \ {p}) \in Nat
                   /\ Cardinality(checks \cup {p}) <= Cardinality(checks) + 1
                   /\ p \in checks => Cardinality(checks \ {p}) = Cardinality(checks) - 1
<1>1. IsFiniteSet(checks) /\ Cardinality(checks) \in Nat
  BY FS_CardinalityType DEF ScreenInv, RecordersPaid
<1>2. \A p : /\ IsFiniteSet(checks \ {p}) /\ IsFiniteSet(checks \cup {p})
             /\ Cardinality(checks \cup {p}) <= Cardinality(checks) + 1
             /\ p \in checks => Cardinality(checks \ {p}) = Cardinality(checks) - 1
  BY <1>1, FS_AddElement, FS_RemoveElement
<1>3. \A p : Cardinality(checks \cup {p}) \in Nat /\ Cardinality(checks \ {p}) \in Nat
  BY <1>2, FS_CardinalityType
<1>4. /\ prompts \in Nat /\ ending \in Nat /\ touches \in Nat /\ Present \in 0 .. 1
      /\ prompts + ending + Present + Cardinality(checks) <= touches
  BY MediaConstants DEF ScreenInv, ScreenTypeOK, RecordersPaid, Present
<1> QED
  BY <1>1, <1>2, <1>3, <1>4

LEMMA OpenChatKeeps ==
  ASSUME IndInv, NEW c \in Chats, OpenChat(c)
  PROVE  IndInv'
<1> DEFINE g == IF {c, chat} \cap Peers = {} THEN gate ELSE IF c \in Peers THEN "loading" ELSE "open"
<1>1. /\ touches < MaxTouches /\ touches' = touches + 1 /\ chat' = c
      /\ gateOf' = c \/ (gateOf' = gateOf /\ gateOf # chat /\ {c, chat} \cap Peers = {})
      /\ checks' = checks \cup ({c} \cap Peers) /\ Shown(showVoice, g)
      /\ UNCHANGED <<uploads, kept, image>>
  BY DEF OpenChat, Touch
<1>2. ScreenInv
  BY DEF IndInv
<1>3. showVoice \in BOOLEAN /\ g \in {"open", "loading", "blocked"}
  BY <1>2 DEF ScreenInv, ScreenTypeOK
<1>33. gateOf' # c => gateOf' \in Peers \cup {Nobody} /\ c \notin Peers
  BY <1>1, <1>2 DEF ScreenInv, ScreenTypeOK
<1>34. gateOf' = c => (g = "open" => c \notin NoV2) /\ (g = "blocked" => c \in NoV2)
  <2>1. CASE {c, chat} \cap Peers = {} /\ gateOf = chat
    BY <1>2, <2>1, MediaConstants DEF ScreenInv, GateRight
  <2>2. CASE {c, chat} \cap Peers = {} /\ gateOf # chat
    <3>1. gateOf \in Peers \cup {Nobody} /\ gateOf' = gateOf
      BY <1>2, <2>2 DEF ScreenInv, ScreenTypeOK, OpenChat
    <3> QED
      BY <2>2, <3>1, MediaConstants
  <2>3. CASE {c, chat} \cap Peers # {}
    BY <2>3, MediaConstants
  <2> QED
    BY <2>1, <2>2, <2>3
<1>4. /\ showVoice' \in BOOLEAN /\ mic' \in BOOLEAN /\ gate' = g
      /\ voice' \in {"none", "starting", "recording", "stopping", "preview"}
      /\ prompts' \in Nat /\ ending' \in Nat
      /\ MicOff' /\ RecorderShown'
      /\ prompts' + ending' + Present' <=
           prompts + ending + (IF showVoice /\ g = "open" THEN 1 ELSE Present)
  BY <1>1, <1>2, <1>3, ShownCounts
<1>5. ScreenTypeOK'
  BY <1>1, <1>2, <1>33, <1>4, MediaConstants DEF ScreenInv, ScreenTypeOK
<1>6. GateRight'
  BY <1>1, <1>34, <1>4 DEF GateRight
<1>61. /\ c \in Peers => g # "open"
       /\ c \notin Peers => checks' = checks
  <2>1. c \notin Peers => {c} \cap Peers = {}
    OBVIOUS
  <2> QED
    BY <1>1, <2>1
<1> HIDE DEF g
<1>7. RecordersPaid'
  <2> DEFINE total == prompts' + ending' + Present'
             n == Cardinality(checks)
             m == Cardinality(checks')
  <2>1. /\ IsFiniteSet(checks') /\ n \in Nat /\ m \in Nat
        /\ m = n \/ (g # "open" /\ m <= n + 1)
    <3>1. (checks' = checks \cup {c} /\ g # "open") \/ checks' = checks
      BY <1>1, <1>61
    <3>2. CASE checks' = checks \cup {c} /\ g # "open"
      BY <1>2, <3>2, ChecksCounted
    <3>3. CASE checks' = checks
      BY <1>2, <3>3, ChecksCounted
    <3> QED
      BY <3>1, <3>2, <3>3
  <2>2. /\ prompts \in Nat /\ ending \in Nat /\ touches \in Nat /\ Present \in 0 .. 1
        /\ prompts + ending + Present + n <= touches
    BY <1>2, ChecksCounted
  <2>3. /\ total \in Nat
        /\ g = "open" => total <= prompts + ending + 1
        /\ g # "open" => total <= prompts + ending + Present
    <3>1. Present' \in 0 .. 1
      BY DEF Present
    <3>2. /\ prompts' \in Nat /\ ending' \in Nat
          /\ total <= prompts + ending + (IF showVoice /\ g = "open" THEN 1 ELSE Present)
      BY <1>4
    <3>3. total \in Nat
      <4>1. \A a, b \in Nat, d \in 0 .. 1 : a + b + d \in Nat
        OBVIOUS
      <4> QED
        BY <3>1, <3>2, <4>1
    <3> HIDE DEF total
    <3> QED
      BY <2>2, <3>2, <3>3
  <2> HIDE DEF total, n, m
  <2>4. touches' = touches + 1
    BY <1>1
  <2>5. total + m <= touches'
    BY <2>1, <2>2, <2>3, <2>4
  <2> QED
    BY <2>1, <2>5 DEF RecordersPaid, total, m
<1>8. UploadsInv' /\ KeptInv'
  BY <1>1, UploadsStay, KeptStays DEF IndInv, uploads
<1> QED
  BY <1>4, <1>5, <1>6, <1>7, <1>8 DEF IndInv, ScreenInv

\* A recorder that is not paid for again.
LEMMA NoMoreRecorders ==
  ASSUME ScreenInv, UNCHANGED <<gates, touches>>,
         image' \in BOOLEAN, showVoice' \in BOOLEAN, mic' \in BOOLEAN,
         voice' \in {"none", "starting", "recording", "stopping", "preview"},
         prompts' \in Nat, ending' \in Nat, MicOff', RecorderShown',
         prompts' + ending' + Present' <= prompts + ending + Present
  PROVE  ScreenInv'
<1>1. UNCHANGED <<chat, gate, gateOf, checks, touches>>
  BY DEF gates
<1>2. ScreenTypeOK' /\ GateRight'
  BY <1>1 DEF ScreenInv, ScreenTypeOK, GateRight
<1>3. RecordersPaid'
  <2> DEFINE total == prompts' + ending' + Present'
             old == prompts + ending + Present
             n == Cardinality(checks)
  <2>1. Present \in 0 .. 1 /\ Present' \in 0 .. 1 /\ prompts \in Nat /\ ending \in Nat
    BY DEF Present, ScreenInv, ScreenTypeOK
  <2>2. n \in Nat /\ touches \in Nat /\ old + n <= touches
    BY ChecksCounted
  <2>3. \A a, b \in Nat, d \in 0 .. 1 : a + b + d \in Nat
    OBVIOUS
  <2>4. total \in Nat /\ old \in Nat /\ total <= old
    BY <2>1, <2>3
  <2> HIDE DEF total, old, n
  <2>5. total + n <= touches
    BY <2>2, <2>4
  <2> QED
    BY <1>1, <2>5 DEF ScreenInv, RecordersPaid, total, n
<1> QED
  BY <1>2, <1>3 DEF ScreenInv

LEMMA CheckPeerKeeps ==
  ASSUME IndInv, NEW p \in Peers, CheckPeerHasV2(p)
  PROVE  IndInv'
<1>1. /\ p \in checks /\ checks' = checks \ {p}
      /\ UNCHANGED <<chat, uploads, kept, image, touches>>
  BY DEF CheckPeerHasV2
<1>2. ScreenInv
  BY DEF IndInv
<1>3. PICK g \in {"open", "blocked"} :
        /\ Shown(showVoice, g)
        /\ \/ gateOf' = p /\ g = (IF p \in NoV2 THEN "blocked" ELSE "open")
           \/ gateOf' = Nobody
  BY DEF CheckPeerHasV2
<1>4. showVoice \in BOOLEAN /\ g \in {"open", "loading", "blocked"}
  BY <1>2 DEF ScreenInv, ScreenTypeOK
<1>5. /\ showVoice' \in BOOLEAN /\ mic' \in BOOLEAN /\ gate' = g
      /\ voice' \in {"none", "starting", "recording", "stopping", "preview"}
      /\ prompts' \in Nat /\ ending' \in Nat
      /\ MicOff' /\ RecorderShown'
      /\ prompts' + ending' + Present' <=
           prompts + ending + (IF showVoice /\ g = "open" THEN 1 ELSE Present)
  BY <1>2, <1>3, <1>4, ShownCounts
<1>6. ScreenTypeOK'
  BY <1>1, <1>2, <1>3, <1>5, MediaConstants DEF ScreenInv, ScreenTypeOK
<1>7. GateRight'
  BY <1>1, <1>2, <1>3, <1>5, MediaConstants DEF GateRight, ScreenInv, ScreenTypeOK
<1>8. RecordersPaid'
  <2> DEFINE total == prompts' + ending' + Present'
             old == prompts + ending + Present
             n == Cardinality(checks)
             m == Cardinality(checks')
  <2>1. /\ IsFiniteSet(checks') /\ n \in Nat /\ m \in Nat /\ m = n - 1
    BY <1>1, <1>2, ChecksCounted
  <2>2. Present \in 0 .. 1 /\ Present' \in 0 .. 1 /\ prompts \in Nat /\ ending \in Nat
    BY <1>2 DEF Present, ScreenInv, ScreenTypeOK
  <2>3. touches \in Nat /\ old + n <= touches /\ touches' = touches
    BY <1>1, <1>2, ChecksCounted
  <2>4. \A a, b \in Nat, d \in 0 .. 1 : a + b + d \in Nat
    OBVIOUS
  <2>5. total \in Nat /\ old \in Nat
    BY <1>5, <2>2, <2>4
  <2>6. total <= old + 1
    <3> DEFINE d == IF showVoice /\ g = "open" THEN 1 ELSE Present
    <3>1. d \in 0 .. 1
      BY <2>2
    <3>2. total <= prompts + ending + d
      BY <1>5
    <3> HIDE DEF total, d
    <3> QED
      BY <2>2, <2>5, <3>1, <3>2
  <2> HIDE DEF total, old, n, m
  <2>7. total + m <= touches'
    BY <2>1, <2>3, <2>5, <2>6
  <2> QED
    BY <2>1, <2>7 DEF RecordersPaid, total, m
<1>9. UploadsInv' /\ KeptInv'
  BY <1>1, UploadsStay, KeptStays DEF IndInv, uploads
<1> QED
  BY <1>5, <1>6, <1>7, <1>8, <1>9 DEF IndInv, ScreenInv

LEMMA AskVoiceKeeps ==
  ASSUME IndInv, AskVoice
  PROVE  IndInv'
<1>1. /\ gate = "open" /\ touches < MaxTouches /\ touches' = touches + 1 /\ Shown(TRUE, gate)
      /\ UNCHANGED <<chat, gateOf, checks, uploads, kept, image>>
  BY DEF AskVoice, Touch
<1>2. ScreenInv
  BY DEF IndInv
<1>3. /\ showVoice' \in BOOLEAN /\ mic' \in BOOLEAN /\ gate' = gate
      /\ voice' \in {"none", "starting", "recording", "stopping", "preview"}
      /\ prompts' \in Nat /\ ending' \in Nat
      /\ MicOff' /\ RecorderShown'
      /\ prompts' + ending' + Present' <= prompts + ending + 1
  BY <1>1, <1>2, ShownCounts
<1>4. ScreenTypeOK' /\ GateRight'
  BY <1>1, <1>2, <1>3, MediaConstants DEF ScreenInv, ScreenTypeOK, GateRight
<1>5. RecordersPaid'
  <2> DEFINE total == prompts' + ending' + Present'
             n == Cardinality(checks)
  <2>1. Present \in 0 .. 1 /\ Present' \in 0 .. 1
    BY DEF Present
  <2>2. /\ n \in Nat /\ touches \in Nat /\ prompts \in Nat /\ ending \in Nat
        /\ prompts + ending + Present + n <= touches
    BY <1>2, ChecksCounted
  <2>3. \A a, b \in Nat, d \in 0 .. 1 : a + b + d \in Nat
    OBVIOUS
  <2>4. total \in Nat /\ total <= prompts + ending + 1
    BY <1>3, <2>1, <2>3
  <2>5. touches' = touches + 1 /\ checks' = checks
    BY <1>1
  <2> HIDE DEF total, n
  <2>6. total + n <= touches'
    BY <2>1, <2>2, <2>4, <2>5
  <2> QED
    BY <1>2, <2>5, <2>6 DEF ScreenInv, RecordersPaid, total, n
<1>6. UploadsInv' /\ KeptInv'
  BY <1>1, UploadsStay, KeptStays DEF IndInv, uploads
<1> QED
  BY <1>3, <1>4, <1>5, <1>6 DEF IndInv, ScreenInv

LEMMA CancelVoiceKeeps ==
  ASSUME IndInv, CancelVoice
  PROVE  IndInv'
<1>1. Shown(FALSE, gate) /\ UNCHANGED <<chat, gateOf, checks, uploads, kept, image, touches>>
  BY DEF CancelVoice
<1>2. ScreenInv
  BY DEF IndInv
<1>3. /\ showVoice' \in BOOLEAN /\ mic' \in BOOLEAN /\ gate' = gate
      /\ voice' \in {"none", "starting", "recording", "stopping", "preview"}
      /\ prompts' \in Nat /\ ending' \in Nat
      /\ MicOff' /\ RecorderShown'
      /\ prompts' + ending' + Present' <= prompts + ending + Present
  BY <1>1, <1>2, ShownCounts DEF ScreenInv, ScreenTypeOK
<1>4. image' \in BOOLEAN /\ UNCHANGED <<gates, touches>>
  BY <1>1, <1>2, <1>3 DEF ScreenInv, ScreenTypeOK, gates
<1>5. ScreenInv'
  BY <1>2, <1>3, <1>4, NoMoreRecorders
<1>6. UploadsInv' /\ KeptInv'
  BY <1>1, UploadsStay, KeptStays DEF IndInv, uploads
<1> QED
  BY <1>5, <1>6 DEF IndInv

\* The recorder by itself.
LEMMA RecorderKeeps ==
  ASSUME IndInv,
         MicGranted \/ MicDenied \/ GrantedLate \/ StopRecording \/ Recorded \/ RecordedLate
  PROVE  IndInv'
<1>1. UNCHANGED <<gates, uploads, kept, image, touches>>
  BY DEF MicGranted, MicDenied, GrantedLate, StopRecording, Recorded, RecordedLate, RecorderOnly
<1>2. /\ ScreenInv /\ gate' = gate
      /\ showVoice \in BOOLEAN /\ mic \in BOOLEAN
      /\ prompts \in Nat /\ ending \in Nat
      /\ voice \in {"none", "starting", "recording", "stopping", "preview"}
      /\ mic => voice \in {"recording", "stopping"}
      /\ voice # "none" => showVoice /\ gate = "open"
  BY <1>1 DEF IndInv, ScreenInv, ScreenTypeOK, MicOff, RecorderShown, gates
<1>3. /\ showVoice' \in BOOLEAN /\ mic' \in BOOLEAN
      /\ voice' \in {"none", "starting", "recording", "stopping", "preview"}
      /\ mic' => voice' \in {"recording", "stopping"}
      /\ voice' # "none" => showVoice' /\ gate' = "open"
  <2>1. CASE MicGranted
    BY <1>2, <2>1 DEF MicGranted
  <2>2. CASE MicDenied
    BY <1>2, <2>2 DEF MicDenied, Closed
  <2>3. CASE GrantedLate
    BY <1>2, <2>3 DEF GrantedLate
  <2>4. CASE StopRecording
    BY <1>2, <2>4 DEF StopRecording
  <2>5. CASE Recorded
    <3>1. showVoice = TRUE /\ gate = "open"
      BY <1>2, <2>5 DEF Recorded
    <3>2. CASE Closed
      BY <3>2 DEF Closed
    <3>3. CASE voice' = "preview" /\ mic' = FALSE /\ UNCHANGED showVoice
      BY <1>2, <3>1, <3>3
    <3> QED
      BY <2>5, <3>2, <3>3 DEF Recorded
  <2>6. CASE RecordedLate
    <3>1. CASE UNCHANGED <<showVoice, voice, mic, prompts>>
      BY <1>2, <3>1
    <3>2. CASE showVoice' = FALSE /\ voice' = "none" /\ mic' = FALSE
      BY <3>2
    <3> QED
      BY <2>6, <3>1, <3>2 DEF RecordedLate
  <2> QED
    BY <2>1, <2>2, <2>3, <2>4, <2>5, <2>6
<1>4. /\ prompts' \in Nat /\ ending' \in Nat
      /\ prompts' + ending' + Present' <= prompts + ending + Present
  <2>1. CASE MicGranted
    BY <1>2, <2>1 DEF MicGranted, Present
  <2>2. CASE MicDenied
    BY <1>2, <2>2 DEF MicDenied, Closed, Present
  <2>3. CASE GrantedLate
    BY <1>2, <2>3 DEF GrantedLate, Present
  <2>4. CASE StopRecording
    BY <1>2, <2>4 DEF StopRecording, Present
  <2>5. CASE Recorded
    BY <1>2, <2>5 DEF Recorded, Closed, Present
  <2>6. CASE RecordedLate
    BY <1>2, <2>6 DEF RecordedLate, Present
  <2> QED
    BY <2>1, <2>2, <2>3, <2>4, <2>5, <2>6
<1>5. ScreenInv'
  <2>1. MicOff' /\ RecorderShown' /\ image' \in BOOLEAN
    BY <1>1, <1>2, <1>3 DEF MicOff, RecorderShown, ScreenInv, ScreenTypeOK
  <2> QED
    BY <1>1, <1>2, <1>3, <1>4, <2>1, NoMoreRecorders
<1>6. UploadsInv' /\ KeptInv'
  BY <1>1, UploadsStay, KeptStays DEF IndInv, uploads
<1> QED
  BY <1>5, <1>6 DEF IndInv

LEMMA ImageKeeps ==
  ASSUME IndInv, SelectImage \/ CancelImage
  PROVE  IndInv'
<1>1. image' \in BOOLEAN /\ UNCHANGED <<recorder, gates, uploads, kept>>
  BY DEF SelectImage, CancelImage
<1>2. (touches < MaxTouches /\ touches' = touches + 1) \/ touches' = touches
  BY DEF SelectImage, CancelImage, Touch
<1>3. UNCHANGED <<showVoice, voice, mic, prompts, ending, chat, gate, gateOf, checks>>
  BY <1>1 DEF recorder, gates
<1>4. ScreenTypeOK' /\ MicOff' /\ GateRight' /\ RecorderShown'
  BY <1>1, <1>2, <1>3, MediaConstants
  DEF IndInv, ScreenInv, ScreenTypeOK, MicOff, GateRight, RecorderShown
<1>5. RecordersPaid'
  <2> DEFINE paid == prompts + ending + Present + Cardinality(checks)
  <2>1. /\ IsFiniteSet(checks) /\ Cardinality(checks) \in Nat /\ touches \in Nat
        /\ prompts \in Nat /\ ending \in Nat /\ Present \in 0 .. 1 /\ paid <= touches
    BY ChecksCounted DEF IndInv
  <2>2. \A a, b, e \in Nat, d \in 0 .. 1 : a + b + d + e \in Nat
    OBVIOUS
  <2>3. paid \in Nat
    BY <2>1, <2>2
  <2>4. prompts' + ending' + Present' + Cardinality(checks') = paid
    BY <1>3 DEF Present
  <2> HIDE DEF paid
  <2>5. paid <= touches'
    BY <1>2, <2>1, <2>3
  <2> QED
    BY <1>3, <2>1, <2>4, <2>5 DEF RecordersPaid
<1>6. UploadsInv' /\ KeptInv'
  BY <1>1, UploadsStay, KeptStays DEF IndInv, uploads
<1> QED
  BY <1>4, <1>5, <1>6 DEF IndInv, ScreenInv

-----------------------------------------------------------------------------
(* The uploads.                                                            *)

\* A new upload takes the controller; what was going has been overlapped.
LEMMA BeginKeeps ==
  ASSUME IndInv, NEW f \in Items, NEW spoken \in BOOLEAN, Begin(f, spoken)
  PROVE  UploadsInv' /\ KeptInv'
<1>1. /\ up[f].at = "new"
      /\ up' = [up EXCEPT ![f] = [@ EXCEPT !.at = "sealing", !.to = chat, !.voice = spoken]]
      /\ bar' = TRUE /\ abort' = f
      /\ overlapped' = IF Going = {} THEN overlapped ELSE overlapped \cup Going \cup {f}
      /\ UNCHANGED <<unwanted, unheeded, kept>>
  BY DEF Begin, Next1
<1>2. up \in [Items -> UploadType] /\ chat \in Chats
  BY DEF IndInv, UploadsInv, UploadsTypeOK, ScreenInv, ScreenTypeOK
<1>3. /\ up' \in [Items -> UploadType] /\ up'[f].at = "sealing"
      /\ \A g \in Items : g # f => up'[g] = up[g]
  BY <1>1, <1>2 DEF UploadType
<1>4. Going \subseteq Items /\ f \notin Going /\ Going' = Going \cup {f}
  BY <1>1, <1>3 DEF Going
<1>5. overlapped' \subseteq Items /\ overlapped \subseteq overlapped'
  BY <1>1, <1>4 DEF IndInv, UploadsInv, UploadsTypeOK
<1>6. UploadsTypeOK'
  BY <1>1, <1>3, <1>5 DEF IndInv, UploadsInv, UploadsTypeOK
<1>7. SealedForItsChat'
  BY <1>3 DEF IndInv, UploadsInv, SealedForItsChat
<1>8. AbortHolds'
  BY <1>1, <1>4 DEF IndInv, UploadsInv, AbortHolds
<1>9. CancelledIsOver'
  BY <1>1, <1>3, <1>5 DEF IndInv, UploadsInv, CancelledIsOver
<1>10. KeptInv'
  BY <1>1, <1>3, KeptStays DEF IndInv
<1> QED
  BY <1>6, <1>7, <1>8, <1>9, <1>10 DEF UploadsInv

LEMMA SendVoiceKeeps ==
  ASSUME IndInv, NEW f \in Items, SendVoice(f)
  PROVE  IndInv'
<1>1. Begin(f, TRUE) /\ Shown(FALSE, gate) /\ UNCHANGED <<chat, gateOf, checks, image, touches>>
  BY DEF SendVoice, Begin
<1>2. ScreenInv
  BY DEF IndInv
<1>3. /\ showVoice' \in BOOLEAN /\ mic' \in BOOLEAN /\ gate' = gate
      /\ voice' \in {"none", "starting", "recording", "stopping", "preview"}
      /\ prompts' \in Nat /\ ending' \in Nat
      /\ MicOff' /\ RecorderShown'
      /\ prompts' + ending' + Present' <= prompts + ending + Present
  BY <1>1, <1>2, ShownCounts DEF ScreenInv, ScreenTypeOK
<1>4. image' \in BOOLEAN /\ UNCHANGED <<gates, touches>>
  BY <1>1, <1>2, <1>3 DEF ScreenInv, ScreenTypeOK, gates
<1>5. ScreenInv'
  BY <1>2, <1>3, <1>4, NoMoreRecorders
<1> QED
  BY <1>1, <1>5, BeginKeeps DEF IndInv

LEMMA SelectFileKeeps ==
  ASSUME IndInv, NEW f \in Items, SelectFile(f) \/ ConfirmImage(f)
  PROVE  IndInv'
<1>1. /\ Begin(f, FALSE) /\ image' \in BOOLEAN
      /\ UNCHANGED <<recorder, chat, gate, gateOf, checks, touches>>
  BY DEF SelectFile, ConfirmImage, Begin, IndInv, ScreenInv, ScreenTypeOK
<1>2. UNCHANGED <<showVoice, voice, mic, prompts, ending, chat, gate, gateOf, checks, touches>>
  BY <1>1 DEF recorder
<1>3. ScreenInv'
  BY <1>1, <1>2 DEF IndInv, ScreenInv, ScreenTypeOK, MicOff, GateRight, RecorderShown,
                    RecordersPaid, Present
<1> QED
  BY <1>1, <1>3, BeginKeeps DEF IndInv

\* An upload that goes on or ends, and is not sent.
LEMMA UploadMoves ==
  ASSUME UploadsInv, NEW f \in Going,
         NEW at \in {"uploading", "stored", "sent", "over"}, NEW key \in Chats \cup {Nobody},
         up' = [up EXCEPT ![f].at = at, ![f].sealedFor = key],
         at # "over" => ClearOrItsKey(f, key),
         at \in {"sent", "over"} => f \in overlapped \/ abort = f,
         f \in unwanted => at = "over" \/ f \in unheeded \cup overlapped,
         bar' \in BOOLEAN,
         abort' = abort \/ (abort' = 0 /\ at \in {"sent", "over"}),
         UNCHANGED <<unwanted, unheeded, overlapped>>
  PROVE  UploadsInv'
<1>1. up \in [Items -> UploadType] /\ Going \subseteq Items /\ f \in Items
  BY DEF UploadsInv, UploadsTypeOK, Going
<1>2. /\ up' \in [Items -> UploadType]
      /\ up'[f].at = at /\ up'[f].sealedFor = key /\ up'[f].to = up[f].to
      /\ up'[f].voice = up[f].voice
      /\ \A g \in Items : g # f => up'[g] = up[g]
  BY <1>1 DEF UploadType
<1>3. UploadsTypeOK'
  BY <1>2 DEF UploadsInv, UploadsTypeOK
<1>4. SealedForItsChat'
  BY <1>2 DEF UploadsInv, SealedForItsChat, ClearOrItsKey
<1>5. AbortHolds'
  <2>1. Going' \subseteq Going
    BY <1>1, <1>2 DEF Going
  <2>2. ASSUME NEW g \in Going', g \notin overlapped PROVE abort' = g
    <3>1. g \in Going /\ abort = g
      BY <2>1, <2>2 DEF UploadsInv, AbortHolds
    <3>2. g = f
      BY <2>2, <3>1 DEF UploadsInv, AbortHolds
    <3>3. at \in {"uploading", "stored"}
      BY <1>2, <2>2, <3>2 DEF Going
    <3> QED
      BY <3>1, <3>3
  <2> QED
    BY <2>1, <2>2 DEF UploadsInv, AbortHolds
<1>6. CancelledIsOver'
  BY <1>1, <1>2 DEF UploadsInv, UploadsTypeOK, CancelledIsOver
<1> QED
  BY <1>3, <1>4, <1>5, <1>6 DEF UploadsInv

LEMMA SealKeeps ==
  ASSUME IndInv, NEW f \in Items, EncryptMedia(f) \/ EncryptBinaryForGroup(f) \/ LeftInClear(f)
  PROVE  IndInv'
<1>1. PICK key : Sealed(f, key) /\ ClearOrItsKey(f, key)
  BY MediaConstants DEF EncryptMedia, EncryptBinaryForGroup, LeftInClear, FileKey, ClearOrItsKey
<1>2. /\ up[f].at = "sealing"
      /\ up' = [up EXCEPT ![f] = [@ EXCEPT !.at = "uploading", !.sealedFor = key]]
      /\ UNCHANGED <<bar, abort, unwanted, unheeded, overlapped, kept>>
      /\ UNCHANGED <<recorder, gates, image, touches>>
  BY <1>1 DEF Sealed, Rest
<1>3. up \in [Items -> UploadType] /\ f \in Going /\ key \in Chats \cup {Nobody} /\ bar \in BOOLEAN
  BY <1>1, <1>2 DEF ClearOrItsKey, IndInv, UploadsInv, UploadsTypeOK, UploadType, Going
<1>4. up' = [up EXCEPT ![f].at = "uploading", ![f].sealedFor = key]
  BY <1>2, <1>3
<1>5. f \in unwanted => f \in unheeded \cup overlapped
  BY <1>2 DEF IndInv, UploadsInv, CancelledIsOver
<1>6. UploadsInv'
  BY <1>1, <1>2, <1>3, <1>4, <1>5, UploadMoves DEF IndInv
<1>7. \A g \in Items : g # f => up'[g] = up[g]
  BY <1>2, <1>3
<1>8. up'[f].at = "uploading"
  BY <1>2, <1>3 DEF UploadType
<1>9. KeptInv'
  BY <1>2, <1>7, <1>8, KeptStays DEF IndInv
<1> QED
  BY <1>2, <1>6, <1>9, ScreenStays DEF IndInv

LEMMA FailKeeps ==
  ASSUME IndInv, NEW f \in Items, UploadFails(f)
  PROVE  IndInv'
<1>1. /\ f \in Going /\ up' = [up EXCEPT ![f].at = "over"] /\ bar' = FALSE /\ abort' = 0
      /\ UNCHANGED <<unwanted, unheeded, overlapped, kept>>
      /\ UNCHANGED <<recorder, gates, image, touches>>
  BY DEF UploadFails, Ended, Rest
<1>2. up \in [Items -> UploadType] /\ up[f].sealedFor \in Chats \cup {Nobody}
  BY DEF IndInv, UploadsInv, UploadsTypeOK, UploadType
<1>3. up' = [up EXCEPT ![f].at = "over", ![f].sealedFor = up[f].sealedFor]
  BY <1>1, <1>2 DEF UploadType
<1>4. f \in overlapped \/ abort = f
  BY <1>1 DEF IndInv, UploadsInv, AbortHolds
<1>5. UploadsInv'
  BY <1>1, <1>2, <1>3, <1>4, UploadMoves DEF IndInv
<1>6. up'[f].at = "over" /\ \A g \in Items : g # f => up'[g] = up[g]
  BY <1>1, <1>2 DEF UploadType
<1>7. KeptInv'
  BY <1>1, <1>6, KeptStays DEF IndInv
<1> QED
  BY <1>1, <1>5, <1>7, ScreenStays DEF IndInv

LEMMA ProgressKeeps ==
  ASSUME IndInv, NEW f \in Items, Progress(f)
  PROVE  IndInv'
<1>1. /\ bar' = TRUE /\ UNCHANGED <<up, abort, unwanted, unheeded, overlapped, kept>>
      /\ UNCHANGED <<recorder, gates, image, touches>>
  BY DEF Progress, Rest
<1>2. UploadsInv'
  BY <1>1 DEF IndInv, UploadsInv, UploadsTypeOK, SealedForItsChat, ClearOrItsKey, AbortHolds, Going,
              CancelledIsOver
<1> QED
  BY <1>1, <1>2, ScreenStays, KeptStays DEF IndInv

LEMMA StoreUploadKeeps ==
  ASSUME IndInv, NEW f \in Items, StoreUpload(f)
  PROVE  IndInv'
<1>1. /\ up[f].at = "uploading" /\ up' = [up EXCEPT ![f].at = "stored"]
      /\ UNCHANGED <<bar, abort, unwanted, unheeded, overlapped, kept>>
      /\ UNCHANGED <<recorder, gates, image, touches>>
  BY DEF StoreUpload, Rest
<1>2. /\ up \in [Items -> UploadType] /\ up[f].sealedFor \in Chats \cup {Nobody}
      /\ bar \in BOOLEAN /\ f \in Going
  BY <1>1 DEF IndInv, UploadsInv, UploadsTypeOK, UploadType, Going
<1>3. up' = [up EXCEPT ![f].at = "stored", ![f].sealedFor = up[f].sealedFor]
  BY <1>1, <1>2 DEF UploadType
<1>4. /\ ClearOrItsKey(f, up[f].sealedFor)
      /\ f \in unwanted => f \in unheeded \cup overlapped
  BY <1>1 DEF IndInv, UploadsInv, SealedForItsChat, ClearOrItsKey, CancelledIsOver
<1>5. UploadsInv'
  BY <1>1, <1>2, <1>3, <1>4, UploadMoves DEF IndInv
<1>6. up'[f].at = "stored" /\ \A g \in Items : g # f => up'[g] = up[g]
  BY <1>1, <1>2 DEF UploadType
<1>7. KeptInv'
  BY <1>1, <1>6, KeptStays DEF IndInv
<1> QED
  BY <1>1, <1>5, <1>7, ScreenStays DEF IndInv

\* The answer: the message goes out, and the key of a direct file waits for it.
LEMMA UploadedKeeps ==
  ASSUME IndInv, NEW f \in Items, Uploaded(f)
  PROVE  IndInv'
<1>1. /\ up[f].at = "stored" /\ up' = [up EXCEPT ![f].at = "sent"] /\ bar' = FALSE /\ abort' = 0
      /\ UNCHANGED <<unwanted, unheeded, overlapped>>
      /\ pending' = IF up[f].to \in Peers THEN pending \cup {f} ELSE pending
      /\ news' = news \cup {f} /\ UNCHANGED <<keys, missed>>
      /\ UNCHANGED <<recorder, gates, image, touches>>
  BY DEF Uploaded, Ended, Rest
<1>2. up \in [Items -> UploadType] /\ up[f].sealedFor \in Chats \cup {Nobody} /\ f \in Going
  BY <1>1 DEF IndInv, UploadsInv, UploadsTypeOK, UploadType, Going
<1>3. up' = [up EXCEPT ![f].at = "sent", ![f].sealedFor = up[f].sealedFor]
  BY <1>1, <1>2 DEF UploadType
<1>4. /\ ClearOrItsKey(f, up[f].sealedFor)
      /\ f \in unwanted => f \in unheeded \cup overlapped
      /\ f \in overlapped \/ abort = f
  BY <1>1, <1>2 DEF IndInv, UploadsInv, SealedForItsChat, ClearOrItsKey, CancelledIsOver, AbortHolds
<1>5. UploadsInv'
  BY <1>1, <1>2, <1>3, <1>4, UploadMoves DEF IndInv
<1>6. /\ up'[f].to = up[f].to
      /\ \A g \in Items : g # f => up'[g] = up[g]
  BY <1>1, <1>2 DEF UploadType
<1>7. KeptInv'
  BY <1>1, <1>6 DEF IndInv, KeptInv, OwnFileKept, OwnKey
<1> QED
  BY <1>1, <1>5, <1>7, ScreenStays DEF IndInv

\* A cancellation reaches the upload the controller holds, or finds it being
\* sealed; what the controller does not hold was overlapped.
LEMMA CancelUploadKeeps ==
  ASSUME IndInv, CancelUpload
  PROVE  IndInv'
<1> DEFINE heeds == abort # 0 /\ up[abort].at # "sealing" /\ abort \notin unheeded
<1>1. /\ unwanted' = unwanted \cup Going
      /\ up' = IF heeds THEN [up EXCEPT ![abort].at = "over"] ELSE up
      /\ abort' = IF heeds THEN 0 ELSE abort
      /\ unheeded' = IF heeds \/ abort = 0 THEN unheeded ELSE unheeded \cup {abort}
      /\ bar' = FALSE /\ UNCHANGED <<overlapped, kept>>
      /\ UNCHANGED <<recorder, gates, image, touches>>
  BY DEF CancelUpload, Rest
<1>2. /\ up \in [Items -> UploadType] /\ Going \subseteq Items /\ abort \in {0} \cup Items
      /\ unwanted \subseteq Items /\ unheeded \subseteq Items
  BY DEF IndInv, UploadsInv, UploadsTypeOK, Going
<1>3. /\ up' \in [Items -> UploadType]
      /\ heeds => abort \in Items /\ up'[abort].at = "over"
      /\ \A g \in Items : up'[g] = up[g] \/ (heeds /\ g = abort)
  BY <1>1, <1>2 DEF UploadType
<1>4. /\ unheeded' \subseteq Items /\ unheeded \subseteq unheeded'
      /\ ~heeds /\ abort # 0 => abort \in unheeded'
  BY <1>1, <1>2
<1> HIDE DEF heeds
<1>5. UploadsTypeOK'
  BY <1>1, <1>2, <1>3, <1>4 DEF IndInv, UploadsInv, UploadsTypeOK
<1>6. SealedForItsChat'
  BY <1>3 DEF IndInv, UploadsInv, SealedForItsChat
<1>7. AbortHolds'
  <2>1. Going' \subseteq Going
    BY <1>3 DEF Going
  <2>2. ASSUME NEW g \in Going', g \notin overlapped PROVE abort' = g
    <3>1. g \in Going /\ g \in Items /\ abort = g
      BY <1>2, <2>1, <2>2 DEF IndInv, UploadsInv, AbortHolds
    <3>2. ~heeds
      BY <1>3, <2>2, <3>1 DEF Going
    <3> QED
      BY <1>1, <3>1, <3>2
  <2> QED
    BY <1>1, <2>1, <2>2 DEF IndInv, UploadsInv, AbortHolds
<1>8. CancelledIsOver'
  <2>1. SUFFICES ASSUME NEW g \in unwanted', g \notin unheeded' \cup overlapped
                 PROVE  up'[g].at = "over"
    BY <1>1 DEF CancelledIsOver
  <2>2. CASE g \in unwanted
    BY <1>2, <1>3, <1>4, <2>1, <2>2 DEF IndInv, UploadsInv, CancelledIsOver
  <2>3. CASE g \in Going
    <3>1. abort = g /\ g \in Items /\ g # 0
      BY <1>2, <2>1, <2>3 DEF IndInv, UploadsInv, AbortHolds, Items
    <3>2. heeds
      BY <1>4, <2>1, <3>1
    <3> QED
      BY <1>3, <3>1, <3>2
  <2> QED
    BY <1>1, <2>1, <2>2, <2>3
<1>9. KeptInv'
  <2>1. \A g \in Items : up'[g].at = "sent" => up[g].at = "sent" /\ up'[g].to = up[g].to
    BY <1>3
  <2> QED
    BY <1>1, <2>1, KeptStays DEF IndInv
<1> QED
  BY <1>1, <1>5, <1>6, <1>7, <1>8, <1>9, ScreenStays DEF IndInv, UploadsInv

\* The echo takes the key where it can be kept, and leaves it otherwise.
LEMMA EchoKeeps ==
  ASSUME IndInv, NEW f \in Items, Echo(f)
  PROVE  IndInv'
<1>1. /\ f \in news /\ news' = news \ {f}
      /\ UNCHANGED <<uploads, recorder, gates, image, touches>>
  BY DEF Echo, Rest
<1>2. UNCHANGED up
  BY <1>1 DEF uploads
<1>3. CASE up[f].to = chat
  <2>1. pending' = pending \ {f} /\ keys' = keys \cup (pending \cap {f}) /\ UNCHANGED missed
    BY <1>3 DEF Echo, KeepKey
  <2> QED
    BY <1>1, <1>2, <2>1, ScreenStays, UploadsStay DEF IndInv, KeptInv, OwnFileKept, OwnKey
<1>4. CASE up[f].to # chat
  <2>1. missed' = missed \cup {f} /\ UNCHANGED <<pending, keys>>
    BY <1>4 DEF Echo
  <2> QED
    BY <1>1, <1>2, <2>1, ScreenStays, UploadsStay DEF IndInv, KeptInv, OwnFileKept, OwnKey
<1> QED
  BY <1>3, <1>4

LEMMA NextKeepsIndInv == IndInv /\ [MediaNext]_mediaVars => IndInv'
<1> SUFFICES ASSUME IndInv, [MediaNext]_mediaVars PROVE IndInv'
  OBVIOUS
<1>1. ASSUME NEW c \in Chats, OpenChat(c) PROVE IndInv'
  BY <1>1, OpenChatKeeps
<1>2. ASSUME NEW p \in Peers, CheckPeerHasV2(p) PROVE IndInv'
  BY <1>2, CheckPeerKeeps
<1>3. CASE AskVoice
  BY <1>3, AskVoiceKeeps
<1>4. CASE MicGranted \/ MicDenied \/ GrantedLate \/ StopRecording \/ Recorded \/ RecordedLate
  BY <1>4, RecorderKeeps
<1>5. CASE CancelVoice
  BY <1>5, CancelVoiceKeeps
<1>6. CASE SelectImage \/ CancelImage
  BY <1>6, ImageKeeps
<1>7. CASE CancelUpload
  BY <1>7, CancelUploadKeeps
<1>8. ASSUME NEW f \in Items,
             \/ SendVoice(f) \/ SelectFile(f) \/ ConfirmImage(f)
             \/ EncryptMedia(f) \/ EncryptBinaryForGroup(f) \/ LeftInClear(f)
             \/ UploadFails(f) \/ Progress(f) \/ StoreUpload(f) \/ Uploaded(f) \/ Echo(f)
      PROVE  IndInv'
  BY <1>8, SendVoiceKeeps, SelectFileKeeps, SealKeeps, FailKeeps, ProgressKeeps,
     StoreUploadKeeps, UploadedKeeps, EchoKeeps
<1>9. CASE UNCHANGED mediaVars
  BY <1>9, ScreenStays, UploadsStay, KeptStays DEF mediaVars, IndInv, uploads
<1> QED
  BY <1>1, <1>2, <1>3, <1>4, <1>5, <1>6, <1>7, <1>8, <1>9 DEF MediaNext

\* Files and voice messages, for any conversations and peers: the microphone
\* is live only under the recorder on the screen (VoiceRecorder.tsx), a file is
\* sealed for the conversation it goes to and can be opened again by its sender
\* (mediaEncryption.ts, cryptoDb.ts), the input opens rightly (peerV2Status of
\* ChatArea.tsx), and a cancelled upload is not sent, but for the two cases in
\* which the one abort controller cannot reach it (uploadFile.ts).
THEOREM MediaSafe == MediaSpec => []MediaInv
<1>1. MediaInit => IndInv
  BY InitIndInv
<1>2. IndInv /\ [MediaNext]_mediaVars => IndInv'
  BY NextKeepsIndInv
<1>3. IndInv => MediaInv
  BY IndInvGivesMediaInv
<1> QED
  BY <1>1, <1>2, <1>3, PTL DEF MediaSpec

-----------------------------------------------------------------------------
(* Conversations: what a handler between its read and its write relies on. *)

RowJobs == {"respond", "delete", "request"}
MemberJobs == {"add", "remove", "role"}
TellJobs == {"notify", "notified"}

JobTyped(j) ==
  /\ j = Job(j.op, j.tab, j.conv, j.to, j.with)
  /\ j.tab \in Tabs /\ j.conv \in 0 .. MaxConvs /\ j.to \in Users
  /\ j.op \in PresenceJobs => j.to = Owner[j.tab]
  /\ j.op = "join" => j.with \subseteq Convs
  /\ j.op \in MemberJobs \cup TellJobs \cup {"opened"} => j.conv \in 1 .. Len(kind)
  /\ j.op \in MemberJobs => kind[j.conv] = "group"
  /\ j.op = "role" => j.with \subseteq Roles \ {"none"}
  /\ j.op = "direct" => j.with \subseteq 1 .. Len(kind)
  /\ j.op \in RowJobs => j.with \subseteq Rows

DirTyped ==
  /\ kind \in Seq({"direct", "group"}) /\ Len(kind) <= MaxConvs
  /\ role \in [Convs -> [Users -> Roles]]
  /\ friends \in SUBSET Rows
  /\ inUser \in SUBSET Tabs /\ rooms \in [Tabs -> SUBSET Convs]
  /\ active \in SUBSET Tabs /\ online \in SUBSET Users
  /\ list \in [Tabs -> SUBSET Convs]
  /\ fetch \in [Tabs -> [at : {"none", "sent", "read"}, seen : SUBSET Convs]]
  /\ added \in [Tabs -> SUBSET Convs]
  /\ ops \in 0 .. MaxOps
  /\ invited \in SUBSET (Convs \X Users) /\ owned \in SUBSET (Convs \X Users)
  /\ late \in SUBSET Tabs /\ muddled \in SUBSET Users
  /\ doubled \in SUBSET ({"direct", "request"} \X SUBSET Users)
JobsTyped == \A j \in jobs : JobTyped(j)

\* Whoever was put into a conversation is a member, and an owner is known to
\* have been one.
Members ==
  /\ \A c \in Convs : c > Len(kind) => role[c] = NoConv
  /\ \A c \in Convs, u \in Users : role[c][u] = "owner" => kind[c] = "group" /\ <<c, u>> \in owned
  /\ \A p \in invited : role[p[1]][p[2]] # "none"

\* A handler that sets a role was called by an owner; one that removes a member
\* was too, or has read that he was none.
OwnRole ==
  \A j \in jobs :
    \/ j.op \notin {"remove", "role"} \/ <<j.conv, Owner[j.tab]>> \in owned
    \/ j.op = "remove" /\ "owner" \notin j.with

\* Unless two asked at once, the one handler has found what there is.
PairOf(j) == Pair(j.tab, j.to)
FoundDirect ==
  \A P \in SUBSET Users : <<"direct", P>> \in doubled \/
    /\ \A c, d \in DirectsOf(P) : c = d
    /\ \A j \in jobs : j.op = "direct" /\ PairOf(j) = P =>
         /\ j.with = DirectsOf(P)
         /\ \A k \in jobs : k.op = "direct" /\ PairOf(k) = P => k = j
FoundRequest ==
  \A P \in SUBSET Users : <<"request", P>> \in doubled \/
    /\ \A f, g \in Between(P) : f = g
    /\ \A j \in jobs : j.op = "request" /\ PairOf(j) = P =>
         /\ j.with = {} => Between(P) = {}
         /\ \A f, g \in j.with : f = g
         /\ \A f \in j.with : \A g \in Between(P) : g.from = f.from /\ g.to = f.to
         /\ \A k \in jobs : k.op = "request" /\ PairOf(k) = P => k = j

\* Unless its connection handlers overlapped, a user has one, and isOnline was
\* right when it began.
There(u) == active \cap Of(u)
Online ==
  \A u \in Users \ muddled :
    /\ ~Overlap(u) => (u \in online <=> There(u) # {})
    /\ \A j \in jobs : j.op \in PresenceJobs /\ j.to = u =>
         /\ \A k \in jobs : k.op \in PresenceJobs /\ k.to = u => k = j
         /\ j.op \in {"read", "join"} => j.tab \in active /\ (u \in online <=> There(u) # {j.tab})
         /\ j.op = "online" => j.tab \in active
         /\ j.op = "leave" => j.tab \in active /\ u \in online
         /\ j.op = "offline" => There(u) = {}

\* A socket of a member who was put into a conversation is in its room, or will
\* be: by the handler that tells him, or by the one that connects the socket.
Hears(t, c) ==
  \/ c \in rooms[t]
  \/ \E j \in jobs : j.op = "notify" /\ j.conv = c /\ j.to = Owner[t]
  \/ \E j \in jobs : j.op = "notified" /\ j.conv = c /\ j.to = Owner[t] /\ t \in j.with
  \/ \E j \in jobs : j.op = "read" /\ j.tab = t
  \/ \E j \in jobs : j.op = "join" /\ j.tab = t /\ c \in j.with
Heard == \A t \in inUser, c \in Convs : <<c, Owner[t]>> \in invited => Hears(t, c)

\* A page that has missed nothing lists the conversation, or will.
Lists(t, c) ==
  \/ \E j \in jobs : j.op \in TellJobs /\ j.conv = c /\ j.to = Owner[t]
  \/ c \in added[t]
  \/ fetch[t].at = "sent"
  \/ fetch[t].at = "read" /\ c \in fetch[t].seen
  \/ fetch[t].at = "none" /\ c \in list[t]
Listed == \A t \in Tabs \ late, c \in Convs : <<c, Owner[t]>> \in invited => Lists(t, c)

DirIndInv ==
  /\ DirTyped /\ JobsTyped /\ Members /\ OwnRole
  /\ FoundDirect /\ FoundRequest /\ Online /\ Heard /\ Listed

Jobs(Ops) == {j \in jobs : j.op \in Ops}

LEMMA KindTyped ==
  ASSUME DirTyped
  PROVE  /\ Len(kind) \in Nat /\ DOMAIN kind = 1 .. Len(kind) /\ 1 .. Len(kind) \subseteq Convs
         /\ \A c \in 1 .. Len(kind) : kind[c] \in {"direct", "group"}
<1>1. kind \in Seq({"direct", "group"}) /\ Len(kind) <= MaxConvs /\ MaxConvs \in Nat
  BY ConversationsConstants DEF DirTyped
<1>2. Len(kind) \in Nat /\ DOMAIN kind = 1 .. Len(kind)
  BY <1>1, LenProperties
<1>3. \A c \in 1 .. Len(kind) : kind[c] \in {"direct", "group"}
  BY <1>1, <1>2, ElementOfSeq
<1> QED
  BY <1>1, <1>2, <1>3 DEF Convs

\* The parts of a job, and of what it becomes.
LEMMA JobParts ==
  ASSUME NEW op, NEW t, NEW c, NEW u, NEW with
  PROVE  /\ Job(op, t, c, u, with).op = op /\ Job(op, t, c, u, with).tab = t
         /\ Job(op, t, c, u, with).conv = c /\ Job(op, t, c, u, with).to = u
         /\ Job(op, t, c, u, with).with = with
BY DEF Job

\* A record with the fields of a job is one.
LEMMA IsJob ==
  ASSUME NEW r, NEW j, DOMAIN j = {"op", "tab", "conv", "to", "with"},
         r = [x \in DOMAIN j |-> r[x]]
  PROVE  r = Job(r.op, r.tab, r.conv, r.to, r.with)
<1> DEFINE q == Job(r.op, r.tab, r.conv, r.to, r.with)
<1>1. q = [x \in {"op", "tab", "conv", "to", "with"} |-> q[x]]
  BY DEF Job
<1>2. \A x \in {"op", "tab", "conv", "to", "with"} : q[x] = r[x]
  BY DEF Job
<1> HIDE DEF q
<1>3. q = r
  BY <1>1, <1>2
<1> QED
  BY <1>3 DEF q

LEMMA JobRenamed ==
  ASSUME NEW j, j = Job(j.op, j.tab, j.conv, j.to, j.with), NEW op
  PROVE  [j EXCEPT !.op = op] = Job(op, j.tab, j.conv, j.to, j.with)
<1> DEFINE r == [j EXCEPT !.op = op]
<1>1. DOMAIN j = {"op", "tab", "conv", "to", "with"}
  BY DEF Job
<1>2. r = [x \in DOMAIN j |-> r[x]]
  OBVIOUS
<1>3. r.op = op /\ r.tab = j.tab /\ r.conv = j.conv /\ r.to = j.to /\ r.with = j.with
  BY <1>1
<1> QED
  BY <1>1, <1>2, <1>3, IsJob

LEMMA JobReread ==
  ASSUME NEW j, j = Job(j.op, j.tab, j.conv, j.to, j.with), NEW with
  PROVE  [j EXCEPT !.with = with] = Job(j.op, j.tab, j.conv, j.to, with)
<1> DEFINE r == [j EXCEPT !.with = with]
<1>1. DOMAIN j = {"op", "tab", "conv", "to", "with"}
  BY DEF Job
<1>2. r = [x \in DOMAIN j |-> r[x]]
  OBVIOUS
<1>3. r.op = j.op /\ r.tab = j.tab /\ r.conv = j.conv /\ r.to = j.to /\ r.with = with
  BY <1>1
<1> QED
  BY <1>1, <1>2, <1>3, IsJob

Moved(j, op, with) == [j EXCEPT !.op = op, !.with = with]

LEMMA JobMoves ==
  ASSUME NEW j, j = Job(j.op, j.tab, j.conv, j.to, j.with), NEW op, NEW with
  PROVE  Moved(j, op, with) = Job(op, j.tab, j.conv, j.to, with)
<1> DEFINE r == [j EXCEPT !.op = op, !.with = with]
<1>1. DOMAIN j = {"op", "tab", "conv", "to", "with"}
  BY DEF Job
<1>2. r = [x \in DOMAIN j |-> r[x]]
  OBVIOUS
<1>3. r.op = op /\ r.tab = j.tab /\ r.conv = j.conv /\ r.to = j.to /\ r.with = with
  BY <1>1
<1> QED
  BY <1>1, <1>2, <1>3, IsJob DEF Moved

\* A conversation is created, or none is; its kind never changes.
KindGrows ==
  /\ Len(kind) \in Nat /\ Len(kind') \in Nat /\ Len(kind) <= Len(kind')
  /\ \A c \in 1 .. Len(kind) : kind'[c] = kind[c]

LEMMA KindSame == ASSUME DirTyped, UNCHANGED kind PROVE KindGrows
BY KindTyped DEF KindGrows

LEMMA JobKept == ASSUME KindGrows, NEW j, JobTyped(j) PROVE JobTyped(j)'
<1>1. \A c \in 1 .. Len(kind) : c \in 1 .. Len(kind')
  BY DEF KindGrows
<1>2. \A c \in 1 .. Len(kind) : kind'[c] = kind[c]
  BY DEF KindGrows
<1> QED
  BY <1>1, <1>2 DEF JobTyped

LEMMA JobsKept ==
  ASSUME KindGrows, JobsTyped, \A j \in jobs' : j \in jobs \/ JobTyped(j)'
  PROVE  JobsTyped'
BY JobKept DEF JobsTyped

LEMMA JobsStayTyped ==
  ASSUME DirTyped, JobsTyped, UNCHANGED kind, \A j \in jobs' : j \in jobs \/ JobTyped(j)
  PROVE  JobsTyped'
BY KindSame, JobKept DEF JobsTyped

\* Steps that leave a part of the invariant alone.

LEMMA DirectStays ==
  ASSUME FoundDirect, DirTyped, KindGrows,
         \A c \in 1 .. Len(kind) : kind[c] = "direct" => role'[c] = role[c],
         \A c \in (Len(kind) + 1) .. Len(kind') : kind'[c] # "direct",
         doubled \subseteq doubled', Jobs({"direct"})' \subseteq Jobs({"direct"})
  PROVE  FoundDirect'
<1>1. ASSUME NEW P PROVE DirectsOf(P)' = DirectsOf(P)
  <2>1. \A c \in 1 .. Len(kind') : c \in 1 .. Len(kind) \/ c \in (Len(kind) + 1) .. Len(kind')
    BY DEF KindGrows
  <2>2. \A c \in 1 .. Len(kind) : c \in 1 .. Len(kind') /\ kind'[c] = kind[c]
    BY DEF KindGrows
  <2> QED
    BY <2>1, <2>2 DEF DirectsOf, IsDirect
<1> SUFFICES ASSUME NEW P \in SUBSET Users, <<"direct", P>> \notin doubled'
             PROVE  /\ \A c, d \in DirectsOf(P)' : c = d
                    /\ \A j \in jobs' : j.op = "direct" /\ PairOf(j) = P =>
                         /\ j.with = DirectsOf(P)'
                         /\ \A k \in jobs' : k.op = "direct" /\ PairOf(k) = P => k = j
  BY DEF FoundDirect, PairOf, Pair
<1>2. \A j \in jobs' : j.op = "direct" => j \in jobs
  BY DEF Jobs
<1>3. /\ \A c, d \in DirectsOf(P) : c = d
      /\ \A j \in jobs : j.op = "direct" /\ PairOf(j) = P =>
           /\ j.with = DirectsOf(P)
           /\ \A k \in jobs : k.op = "direct" /\ PairOf(k) = P => k = j
  BY DEF FoundDirect
<1> QED
  BY <1>1, <1>2, <1>3

LEMMA MembersStay ==
  ASSUME DirIndInv, UNCHANGED <<kind, role, invited, owned>>, doubled \subseteq doubled',
         Jobs({"remove", "role", "direct"})' \subseteq Jobs({"remove", "role", "direct"})
  PROVE  Members' /\ OwnRole' /\ FoundDirect'
<1>1. DirTyped /\ Members /\ OwnRole /\ FoundDirect
  BY DEF DirIndInv
<1>2. Members'
  BY <1>1 DEF Members
<1>3. OwnRole'
  BY <1>1 DEF OwnRole, Jobs
<1>4. \A c \in (Len(kind) + 1) .. Len(kind') : kind'[c] # "direct"
  BY <1>1, KindTyped
<1>5. Jobs({"direct"})' \subseteq Jobs({"direct"})
  BY DEF Jobs
<1>6. FoundDirect'
  BY <1>1, <1>4, <1>5, KindSame, DirectStays
<1> QED
  BY <1>2, <1>3, <1>6

LEMMA FriendsStay ==
  ASSUME DirIndInv, friends' \subseteq friends, doubled \subseteq doubled',
         Jobs({"request"})' \subseteq Jobs({"request"})
  PROVE  FoundRequest'
<1>1. ASSUME NEW P PROVE Between(P)' \subseteq Between(P)
  BY DEF Between
<1> SUFFICES ASSUME NEW P \in SUBSET Users, <<"request", P>> \notin doubled'
             PROVE  /\ \A f, g \in Between(P)' : f = g
                    /\ \A j \in jobs' : j.op = "request" /\ PairOf(j) = P =>
                         /\ j.with = {} => Between(P)' = {}
                         /\ \A f, g \in j.with : f = g
                         /\ \A f \in j.with : \A g \in Between(P)' : g.from = f.from /\ g.to = f.to
                         /\ \A k \in jobs' : k.op = "request" /\ PairOf(k) = P => k = j
  BY DEF FoundRequest, PairOf, Pair
<1>2. \A j \in jobs' : j.op = "request" => j \in jobs
  BY DEF Jobs
<1>3. /\ \A f, g \in Between(P) : f = g
      /\ \A j \in jobs : j.op = "request" /\ PairOf(j) = P =>
           /\ j.with = {} => Between(P) = {}
           /\ \A f, g \in j.with : f = g
           /\ \A f \in j.with : \A g \in Between(P) : g.from = f.from /\ g.to = f.to
           /\ \A k \in jobs : k.op = "request" /\ PairOf(k) = P => k = j
  BY DEF FoundRequest, DirIndInv
<1> QED
  BY <1>1, <1>2, <1>3

\* One user's share of Online.
OnlineFor(u) ==
  /\ (\A j \in jobs : j.op \in PresenceJobs => j.to # u) => (u \in online <=> There(u) # {})
  /\ \A j \in jobs : j.op \in PresenceJobs /\ j.to = u =>
       /\ \A k \in jobs : k.op \in PresenceJobs /\ k.to = u => k = j
       /\ j.op \in {"read", "join"} => j.tab \in active /\ (u \in online <=> There(u) # {j.tab})
       /\ j.op = "online" => j.tab \in active
       /\ j.op = "leave" => j.tab \in active /\ u \in online
       /\ j.op = "offline" => There(u) = {}

LEMMA Overlaps ==
  ASSUME JobsTyped, NEW u \in Users
  PROVE  Overlap(u) <=> \E j \in jobs : j.op \in PresenceJobs /\ j.to = u
<1>1. \A j \in jobs : j.op \in PresenceJobs => j.tab \in Tabs /\ j.to = Owner[j.tab]
  BY DEF JobsTyped, JobTyped
<1> QED
  BY <1>1 DEF Overlap, Busy, Of

LEMMA OverlapsNext ==
  ASSUME JobsTyped', NEW u \in Users
  PROVE  Overlap(u)' <=> \E j \in jobs' : j.op \in PresenceJobs /\ j.to = u
<1>1. \A j \in jobs' : j.op \in PresenceJobs => j.tab \in Tabs /\ j.to = Owner[j.tab]
  BY DEF JobsTyped, JobTyped
<1> QED
  BY <1>1 DEF Overlap, Busy, Of

LEMMA OnlineEach ==
  ASSUME JobsTyped PROVE Online <=> \A u \in Users \ muddled : OnlineFor(u)
BY Overlaps DEF Online, OnlineFor

LEMMA OnlineEachNext ==
  ASSUME JobsTyped' PROVE Online' <=> \A u \in Users \ muddled' : OnlineFor(u)'
BY OverlapsNext DEF Online, OnlineFor

LEMMA PresenceStays ==
  ASSUME DirIndInv, JobsTyped', UNCHANGED presence, Jobs(PresenceJobs)' = Jobs(PresenceJobs)
  PROVE  Online'
<1> SUFFICES ASSUME NEW u \in Users \ muddled' PROVE OnlineFor(u)'
  BY OnlineEachNext
<1>1. OnlineFor(u)
  BY OnlineEach DEF DirIndInv, presence
<1>2. There(u)' = There(u) /\ active' = active /\ online' = online
  BY DEF There, presence, Of
<1>3. \A j : j \in jobs' /\ j.op \in PresenceJobs <=> j \in jobs /\ j.op \in PresenceJobs
  BY DEF Jobs
<1>4. \A op \in {"read", "join", "online", "leave", "offline"} : op \in PresenceJobs
  BY DEF PresenceJobs
<1> QED
  BY <1>1, <1>2, <1>3, <1>4 DEF OnlineFor

LEMMA HeardStays ==
  ASSUME DirIndInv, inUser' \subseteq inUser, invited' \subseteq invited,
         \A t \in inUser' : rooms[t] \subseteq rooms'[t],
         Jobs({"notify", "notified", "read", "join"}) \subseteq jobs'
  PROVE  Heard'
<1> SUFFICES ASSUME NEW t \in inUser', NEW c \in Convs, <<c, Owner[t]>> \in invited'
             PROVE  Hears(t, c)'
  BY DEF Heard
<1>1. Hears(t, c)
  BY DEF Heard, DirIndInv
<1> QED
  BY <1>1 DEF Hears, Jobs

LEMMA ListedStays ==
  ASSUME DirIndInv, late \subseteq late', invited' \subseteq invited,
         \A t \in Tabs \ late' : added[t] \subseteq added'[t] /\ fetch'[t] = fetch[t] /\ list[t] \subseteq list'[t],
         Jobs(TellJobs) \subseteq jobs'
  PROVE  Listed'
<1> SUFFICES ASSUME NEW t \in Tabs \ late', NEW c \in Convs, <<c, Owner[t]>> \in invited'
             PROVE  Lists(t, c)'
  BY DEF Listed
<1>1. Lists(t, c)
  BY DEF Listed, DirIndInv
<1> QED
  BY <1>1 DEF Lists, Jobs

\* Both, for the handlers that change neither sockets nor pages.
LEMMA ReachStays ==
  ASSUME DirIndInv, UNCHANGED sockets, UNCHANGED pages, invited' \subseteq invited,
         Jobs({"notify", "notified", "read", "join"}) \subseteq jobs'
  PROVE  Heard' /\ Listed'
<1>1. Jobs(TellJobs) \subseteq jobs'
  BY DEF Jobs, TellJobs
<1> QED
  BY <1>1, HeardStays, ListedStays DEF sockets, pages

-----------------------------------------------------------------------------
(* Connecting and disconnecting.                                           *)

LEMMA OtherOnline ==
  ASSUME JobsTyped, NEW u \in Users, OnlineFor(u), There(u)' = There(u), u \in online' <=> u \in online,
         \A j : j \in jobs' /\ j.op \in PresenceJobs /\ j.to = u
                <=> j \in jobs /\ j.op \in PresenceJobs /\ j.to = u
  PROVE  OnlineFor(u)'
<1>1. \A op \in {"read", "join", "online", "leave", "offline"} : op \in PresenceJobs
  BY DEF PresenceJobs
<1>2. \A j \in jobs : j.op \in PresenceJobs /\ j.to = u => (j.tab \in active' <=> j.tab \in active)
  BY DEF JobsTyped, JobTyped, There, Of
<1> QED
  BY <1>1, <1>2 DEF OnlineFor

LEMMA ConnectKeeps ==
  ASSUME DirIndInv, NEW t \in Tabs, NEW reload \in BOOLEAN, Connect(t, reload)
  PROVE  DirIndInv'
<1> DEFINE new == Job("read", t, 0, Owner[t], {})
<1>1. DirTyped /\ JobsTyped /\ Members /\ Heard /\ Listed
  BY DEF DirIndInv
<1>2. /\ jobs' = jobs \cup {new} /\ inUser' = inUser \cup {t} /\ active' = active \cup {t}
      /\ t \notin active /\ muddled' = muddled \cup {u \in {Owner[t]} : Overlap(u)}
      /\ ops' = ops + 1 /\ ops < MaxOps
      /\ UNCHANGED <<kind, role, invited, owned, friends, doubled, online, rooms, added>>
  BY DEF Connect, Serve, members, contacts
<1>3. /\ reload => /\ fetch' = [fetch EXCEPT ![t] = [at |-> "sent", seen |-> {}]]
                   /\ list' = [list EXCEPT ![t] = {}] /\ late' = late \ {t}
      /\ ~reload => fetch' = fetch /\ list' = list /\ late' = late
  BY DEF Connect
<1>4. new.op = "read" /\ new.tab = t /\ new.to = Owner[t] /\ new.conv = 0 /\ new.with = {}
  BY JobParts
<1>5. Owner[t] \in Users
  BY ConversationsConstants
<1> HIDE DEF new
<1>6. DirTyped'
  <2>1. /\ fetch' \in [Tabs -> [at : {"none", "sent", "read"}, seen : SUBSET Convs]]
        /\ list' \in [Tabs -> SUBSET Convs] /\ late' \in SUBSET Tabs
    <3>1. [at |-> "sent", seen |-> {}] \in [at : {"none", "sent", "read"}, seen : SUBSET Convs]
      OBVIOUS
    <3> QED
      BY <1>1, <1>3, <3>1 DEF DirTyped
  <2>2. ops' \in 0 .. MaxOps /\ muddled' \in SUBSET Users
    BY <1>1, <1>2, <1>5, ConversationsConstants DEF DirTyped
  <2>3. inUser' \in SUBSET Tabs /\ active' \in SUBSET Tabs
    BY <1>1, <1>2 DEF DirTyped
  <2> QED
    BY <1>1, <1>2, <2>1, <2>2, <2>3 DEF DirTyped
<1>7. JobTyped(new)
  <2>1. new = Job(new.op, new.tab, new.conv, new.to, new.with) /\ 0 \in 0 .. MaxConvs
    BY <1>4, ConversationsConstants DEF new
  <2> QED
    BY <1>4, <1>5, <2>1 DEF JobTyped, PresenceJobs, MemberJobs, TellJobs, RowJobs
<1>8. JobsTyped'
  BY <1>1, <1>2, <1>7, JobsStayTyped
<1>9. /\ Jobs({"remove", "role", "direct"})' \subseteq Jobs({"remove", "role", "direct"})
      /\ Jobs({"request"})' \subseteq Jobs({"request"})
  BY <1>2, <1>4 DEF Jobs
<1>10. Members' /\ OwnRole' /\ FoundDirect'
  BY <1>2, <1>9, MembersStay
<1>11. FoundRequest'
  BY <1>2, <1>9, FriendsStay
<1>12. Online'
  <2> SUFFICES ASSUME NEW u \in Users \ muddled' PROVE OnlineFor(u)'
    BY <1>8, OnlineEachNext
  <2>1. OnlineFor(u)
    BY <1>1, <1>2, OnlineEach DEF DirIndInv
  <2>2. CASE u = Owner[t]
    <3>1. ~Overlap(u)
      BY <1>2, <2>2
    <3>2. \A j \in jobs : ~(j.op \in PresenceJobs /\ j.to = u)
      BY <1>1, <3>1, Overlaps
    <3>3. u \in online <=> There(u) # {}
      BY <2>1, <3>2 DEF OnlineFor
    <3>4. There(u)' = There(u) \cup {t} /\ t \notin There(u)
      BY <1>2, <2>2 DEF There, Of
    <3>5. (There(u)' # {t}) <=> (There(u) # {})
      BY <3>4
    <3>6. \A j \in jobs' : j.op \in PresenceJobs /\ j.to = u => j = new
      BY <1>2, <3>2
    <3> QED
      BY <1>2, <1>4, <2>2, <3>3, <3>5, <3>6 DEF OnlineFor, PresenceJobs
  <2>3. CASE u # Owner[t]
    <3>1. There(u)' = There(u)
      BY <1>2, <2>3 DEF There, Of
    <3> QED
      BY <1>1, <1>2, <1>4, <2>1, <2>3, <3>1, OtherOnline
  <2> QED
    BY <2>2, <2>3
<1>13. Heard'
  <2> SUFFICES ASSUME NEW v \in inUser', NEW c \in Convs, <<c, Owner[v]>> \in invited'
               PROVE  Hears(v, c)'
    BY DEF Heard
  <2>1. v = t => \E j \in jobs' : j.op = "read" /\ j.tab = v
    BY <1>2, <1>4
  <2>2. v # t => Hears(v, c)
    BY <1>1, <1>2 DEF Heard
  <2> QED
    BY <1>2, <2>1, <2>2 DEF Hears
<1>14. Listed'
  <2> SUFFICES ASSUME NEW v \in Tabs \ late', NEW c \in Convs, <<c, Owner[v]>> \in invited'
               PROVE  Lists(v, c)'
    BY DEF Listed
  <2>1. CASE v = t /\ reload
    <3>1. fetch'[v].at = "sent"
      BY <1>1, <1>3, <2>1 DEF DirTyped
    <3> QED
      BY <3>1 DEF Lists
  <2>2. CASE ~(v = t /\ reload)
    <3>1. v \notin late /\ fetch'[v] = fetch[v] /\ list'[v] = list[v]
      BY <1>1, <1>3, <2>2 DEF DirTyped
    <3>2. Lists(v, c)
      BY <1>1, <1>2, <3>1 DEF Listed
    <3> QED
      BY <1>2, <3>1, <3>2 DEF Lists
  <2> QED
    BY <2>1, <2>2
<1> QED
  BY <1>6, <1>8, <1>10, <1>11, <1>12, <1>13, <1>14 DEF DirIndInv

LEMMA ReadMembershipsKeeps ==
  ASSUME DirIndInv, ReadMemberships
  PROVE  DirIndInv'
<1>1. DirTyped /\ JobsTyped /\ Members /\ Heard
  BY DEF DirIndInv
<1>2. PICK j \in jobs : /\ j.op = "read"
                        /\ Becomes(j, [j EXCEPT !.op = "join", !.with = Mine(Owner[j.tab])])
                        /\ UNCHANGED <<members, contacts, sockets, presence, pages, ops>>
  BY DEF ReadMemberships
<1> DEFINE new == Job("join", j.tab, j.conv, j.to, Mine(Owner[j.tab]))
<1>3. JobTyped(j)
  BY <1>1 DEF JobsTyped
<1>4. j = Job(j.op, j.tab, j.conv, j.to, j.with) /\ j.tab \in Tabs /\ j.to = Owner[j.tab] /\ j.to \in Users
  BY <1>2, <1>3 DEF JobTyped, PresenceJobs
<1>5. [j EXCEPT !.op = "join", !.with = Mine(Owner[j.tab])] = new
  <2>1. j = Job(j.op, j.tab, j.conv, j.to, j.with)
    BY <1>4
  <2>2. Moved(j, "join", Mine(Owner[j.tab])) = Job("join", j.tab, j.conv, j.to, Mine(Owner[j.tab]))
    BY <2>1, JobMoves
  <2> QED
    BY <2>2 DEF Moved
<1>6. /\ jobs' = (jobs \ {j}) \cup {new}
      /\ UNCHANGED <<kind, role, invited, owned, friends, doubled, inUser, rooms, active, online, muddled,
                     list, fetch, added, late, ops>>
  BY <1>2, <1>5 DEF Becomes, members, contacts, sockets, presence, pages
<1>7. new.op = "join" /\ new.tab = j.tab /\ new.to = j.to /\ new.conv = j.conv /\ new.with = Mine(Owner[j.tab])
  BY JobParts
<1> HIDE DEF new
<1>8. DirTyped'
  BY <1>1, <1>6 DEF DirTyped
<1>9. JobTyped(new)
  <2>1. Mine(Owner[j.tab]) \subseteq Convs
    BY DEF Mine
  <2>2. new = Job(new.op, new.tab, new.conv, new.to, new.with)
    BY <1>7 DEF new
  <2> QED
    BY <1>3, <1>4, <1>7, <2>1, <2>2 DEF JobTyped, PresenceJobs, MemberJobs, TellJobs, RowJobs
<1>10. JobsTyped'
  BY <1>1, <1>6, <1>9, JobsStayTyped
<1>11. /\ Jobs({"remove", "role", "direct"})' \subseteq Jobs({"remove", "role", "direct"})
       /\ Jobs({"request"})' \subseteq Jobs({"request"})
       /\ Jobs(TellJobs) \subseteq jobs'
  BY <1>2, <1>6, <1>7 DEF Jobs, TellJobs
<1>12. Members' /\ OwnRole' /\ FoundDirect'
  BY <1>6, <1>11, MembersStay
<1>13. FoundRequest'
  BY <1>6, <1>11, FriendsStay
<1>14. Online'
  <2> SUFFICES ASSUME NEW u \in Users \ muddled' PROVE OnlineFor(u)'
    BY <1>10, OnlineEachNext
  <2>1. OnlineFor(u)
    BY <1>1, <1>6, OnlineEach DEF DirIndInv
  <2>2. There(u)' = There(u)
    BY <1>6 DEF There, Of
  <2>3. CASE u = j.to
    <3>1. /\ \A k \in jobs : k.op \in PresenceJobs /\ k.to = u => k = j
          /\ j.tab \in active /\ (u \in online <=> There(u) # {j.tab})
      BY <1>2, <2>1, <2>3 DEF OnlineFor, PresenceJobs
    <3>2. \A k \in jobs' : k.op \in PresenceJobs /\ k.to = u => k = new
      BY <1>6, <3>1
    <3> QED
      BY <1>6, <1>7, <2>2, <2>3, <3>1, <3>2 DEF OnlineFor, PresenceJobs
  <2>4. CASE u # j.to
    BY <1>1, <1>6, <1>7, <2>1, <2>2, <2>4, OtherOnline
  <2> QED
    BY <2>3, <2>4
<1>15. Heard'
  <2> SUFFICES ASSUME NEW v \in inUser', NEW c \in Convs, <<c, Owner[v]>> \in invited'
               PROVE  Hears(v, c)'
    BY DEF Heard
  <2>1. Hears(v, c)
    BY <1>1, <1>6 DEF Heard
  <2>2. CASE v = j.tab
    <3>1. role[c][Owner[v]] # "none"
      BY <1>1, <1>6 DEF Members
    <3>2. c \in new.with
      BY <1>7, <2>2, <3>1 DEF Mine
    <3> QED
      BY <1>6, <1>7, <2>2, <3>2 DEF Hears
  <2>3. CASE v # j.tab
    BY <1>2, <1>6, <2>1, <2>3 DEF Hears
  <2> QED
    BY <2>2, <2>3
<1>16. Listed'
  BY <1>6, <1>11, ListedStays
<1> QED
  BY <1>8, <1>10, <1>12, <1>13, <1>14, <1>15, <1>16 DEF DirIndInv

LEMMA JoinRoomsKeeps ==
  ASSUME DirIndInv, JoinRooms
  PROVE  DirIndInv'
<1>1. DirTyped /\ JobsTyped /\ Heard
  BY DEF DirIndInv
<1>2. PICK j \in jobs :
        /\ j.op = "join"
        /\ rooms' = IF j.tab \in inUser THEN [rooms EXCEPT ![j.tab] = @ \cup j.with] ELSE rooms
        /\ IF Cardinality(active \cap Of(Owner[j.tab])) = 1
           THEN Becomes(j, [j EXCEPT !.op = "online", !.with = {}]) ELSE Ends(j)
        /\ UNCHANGED <<members, contacts, inUser, presence, pages, ops>>
  BY DEF JoinRooms
<1> DEFINE new == Job("online", j.tab, j.conv, j.to, {})
<1>3. JobTyped(j)
  BY <1>1 DEF JobsTyped
<1>4. /\ j = Job(j.op, j.tab, j.conv, j.to, j.with) /\ j.tab \in Tabs /\ j.to = Owner[j.tab]
      /\ j.to \in Users /\ j.with \subseteq Convs
  BY <1>2, <1>3 DEF JobTyped, PresenceJobs
<1>5. [j EXCEPT !.op = "online", !.with = {}] = new
  <2>1. j = Job(j.op, j.tab, j.conv, j.to, j.with)
    BY <1>4
  <2>2. Moved(j, "online", {}) = Job("online", j.tab, j.conv, j.to, {})
    BY <2>1, JobMoves
  <2> QED
    BY <2>2 DEF Moved
<1>6. /\ UNCHANGED <<kind, role, invited, owned, friends, doubled, inUser, active, online, muddled,
                     list, fetch, added, late, ops>>
      /\ IF Cardinality(There(j.to)) = 1 THEN jobs' = (jobs \ {j}) \cup {new} ELSE jobs' = jobs \ {j}
  BY <1>2, <1>4, <1>5 DEF Becomes, Ends, There, members, contacts, presence, pages
<1>7. new.op = "online" /\ new.tab = j.tab /\ new.to = j.to /\ new.conv = j.conv /\ new.with = {}
  BY JobParts
<1>8. \A v \in Tabs : rooms'[v] = IF v = j.tab /\ v \in inUser THEN rooms[v] \cup j.with ELSE rooms[v]
  BY <1>1, <1>2 DEF DirTyped
<1>9. rooms' \in [Tabs -> SUBSET Convs]
  BY <1>1, <1>2, <1>4 DEF DirTyped
<1> HIDE DEF new
<1>10. DirTyped'
  BY <1>1, <1>6, <1>9 DEF DirTyped
<1>11. JobTyped(new)
  <2>1. new = Job(new.op, new.tab, new.conv, new.to, new.with)
    BY <1>7 DEF new
  <2> QED
    BY <1>3, <1>4, <1>7, <2>1 DEF JobTyped, PresenceJobs, MemberJobs, TellJobs, RowJobs
<1>12. JobsTyped'
  BY <1>1, <1>6, <1>11, JobsStayTyped
<1>13. /\ Jobs({"remove", "role", "direct"})' \subseteq Jobs({"remove", "role", "direct"})
       /\ Jobs({"request"})' \subseteq Jobs({"request"})
       /\ Jobs(TellJobs) \subseteq jobs'
  BY <1>2, <1>6, <1>7 DEF Jobs, TellJobs
<1>14. Members' /\ OwnRole' /\ FoundDirect'
  BY <1>6, <1>13, MembersStay
<1>15. FoundRequest'
  BY <1>6, <1>13, FriendsStay
<1>16. Online'
  <2> SUFFICES ASSUME NEW u \in Users \ muddled' PROVE OnlineFor(u)'
    BY <1>12, OnlineEachNext
  <2>1. OnlineFor(u)
    BY <1>1, <1>6, OnlineEach DEF DirIndInv
  <2>2. There(u)' = There(u)
    BY <1>6 DEF There, Of
  <2>3. CASE u = j.to
    <3>1. /\ \A k \in jobs : k.op \in PresenceJobs /\ k.to = u => k = j
          /\ j.tab \in active /\ (u \in online <=> There(u) # {j.tab})
      BY <1>2, <2>1, <2>3 DEF OnlineFor, PresenceJobs
    <3>2. j.tab \in There(u)
      BY <1>4, <2>3, <3>1 DEF There, Of
    <3>3. CASE Cardinality(There(u)) = 1
      <4>1. \A k \in jobs' : k.op \in PresenceJobs /\ k.to = u => k = new
        BY <1>6, <2>3, <3>1, <3>3
      <4> QED
        BY <1>6, <1>7, <2>3, <3>1, <3>3, <4>1 DEF OnlineFor, PresenceJobs
    <3>4. CASE Cardinality(There(u)) # 1
      <4>1. There(u) # {j.tab}
        BY <3>4, FS_Singleton
      <4>2. \A k \in jobs' : ~(k.op \in PresenceJobs /\ k.to = u)
        BY <1>6, <2>3, <3>1, <3>4
      <4> QED
        BY <1>6, <2>2, <3>1, <3>2, <4>1, <4>2 DEF OnlineFor
    <3> QED
      BY <3>3, <3>4
  <2>4. CASE u # j.to
    BY <1>1, <1>6, <1>7, <2>1, <2>2, <2>4, OtherOnline
  <2> QED
    BY <2>3, <2>4
<1>17. Heard'
  <2> SUFFICES ASSUME NEW v \in inUser', NEW c \in Convs, <<c, Owner[v]>> \in invited'
               PROVE  Hears(v, c)'
    BY DEF Heard
  <2>1. Hears(v, c) /\ v \in inUser /\ v \in Tabs
    BY <1>1, <1>6 DEF Heard, DirTyped
  <2>2. rooms[v] \subseteq rooms'[v] /\ (v = j.tab => j.with \subseteq rooms'[v])
    BY <1>8, <2>1
  <2>3. \A k \in jobs : k \in jobs' \/ k = j
    BY <1>6
  <2> QED
    BY <1>2, <2>1, <2>2, <2>3 DEF Hears
<1>18. Listed'
  BY <1>6, <1>13, ListedStays
<1> QED
  BY <1>10, <1>12, <1>14, <1>15, <1>16, <1>17, <1>18 DEF DirIndInv

LEMMA SetOnlineKeeps ==
  ASSUME DirIndInv, SetOnline
  PROVE  DirIndInv'
<1>1. DirTyped /\ JobsTyped
  BY DEF DirIndInv
<1>2. PICK j \in jobs : /\ j.op = "online" /\ jobs' = jobs \ {j}
                        /\ online' = online \cup {Owner[j.tab]}
                        /\ UNCHANGED <<members, contacts, sockets, active, muddled, pages, ops>>
  BY DEF SetOnline, Ends
<1>3. JobTyped(j)
  BY <1>1 DEF JobsTyped
<1>4. j.tab \in Tabs /\ j.to = Owner[j.tab] /\ j.to \in Users
  BY <1>2, <1>3 DEF JobTyped, PresenceJobs
<1>5. UNCHANGED <<kind, role, invited, owned, friends, doubled, inUser, rooms, active, muddled, list, fetch, added, late, ops>>
  BY <1>2 DEF members, contacts, sockets, pages
<1>6. DirTyped'
  BY <1>1, <1>2, <1>4, <1>5 DEF DirTyped
<1>7. JobsTyped'
  BY <1>1, <1>2, <1>5, JobsStayTyped
<1>8. /\ Jobs({"remove", "role", "direct"})' \subseteq Jobs({"remove", "role", "direct"})
      /\ Jobs({"request"})' \subseteq Jobs({"request"})
      /\ Jobs({"notify", "notified", "read", "join"}) \subseteq jobs'
  BY <1>2 DEF Jobs
<1>9. Members' /\ OwnRole' /\ FoundDirect'
  BY <1>5, <1>8, MembersStay
<1>10. FoundRequest'
  BY <1>5, <1>8, FriendsStay
<1>11. Online'
  <2> SUFFICES ASSUME NEW u \in Users \ muddled' PROVE OnlineFor(u)'
    BY <1>7, OnlineEachNext
  <2>1. OnlineFor(u)
    BY <1>1, <1>5, OnlineEach DEF DirIndInv
  <2>2. There(u)' = There(u)
    BY <1>5 DEF There, Of
  <2>3. CASE u = j.to
    <3>1. /\ \A k \in jobs : k.op \in PresenceJobs /\ k.to = u => k = j
          /\ j.tab \in active
      BY <1>2, <2>1, <2>3 DEF OnlineFor, PresenceJobs
    <3>2. j.tab \in There(u)
      BY <1>4, <2>3, <3>1 DEF There, Of
    <3>3. u \in online'
      BY <1>2, <1>4, <2>3
    <3>4. \A k \in jobs' : ~(k.op \in PresenceJobs /\ k.to = u)
      BY <1>2, <3>1
    <3> QED
      BY <2>2, <3>2, <3>3, <3>4 DEF OnlineFor
  <2>4. CASE u # j.to
    BY <1>1, <1>2, <1>4, <2>1, <2>2, <2>4, OtherOnline
  <2> QED
    BY <2>3, <2>4
<1>12. Heard' /\ Listed'
  BY <1>5, <1>8, ReachStays DEF sockets, pages
<1> QED
  BY <1>6, <1>7, <1>9, <1>10, <1>11, <1>12 DEF DirIndInv

LEMMA DisconnectKeeps ==
  ASSUME DirIndInv, NEW t \in Tabs, Disconnect(t)
  PROVE  DirIndInv'
<1> DEFINE new == Job("leave", t, 0, Owner[t], {})
<1>1. DirTyped /\ JobsTyped
  BY DEF DirIndInv
<1>2. /\ jobs' = jobs \cup {new} /\ inUser' = inUser \ {t} /\ rooms' = [rooms EXCEPT ![t] = {}]
      /\ added' = [added EXCEPT ![t] = {}] /\ late' = IF added[t] = {} THEN late ELSE late \cup {t}
      /\ t \in active /\ muddled' = muddled \cup {u \in {Owner[t]} : Overlap(u)}
      /\ ops' = ops + 1 /\ ops < MaxOps
      /\ UNCHANGED <<kind, role, invited, owned, friends, doubled, active, online, list, fetch>>
  BY DEF Disconnect, Serve, members, contacts
<1>3. new.op = "leave" /\ new.tab = t /\ new.to = Owner[t] /\ new.conv = 0 /\ new.with = {}
  BY JobParts
<1>4. Owner[t] \in Users
  BY ConversationsConstants
<1>5. JobTyped(new)
  <2>1. new = Job(new.op, new.tab, new.conv, new.to, new.with) /\ 0 \in 0 .. MaxConvs
    BY <1>3, ConversationsConstants
  <2> HIDE DEF new
  <2> QED
    BY <1>3, <1>4, <2>1 DEF JobTyped, PresenceJobs, MemberJobs, TellJobs, RowJobs
<1> HIDE DEF new
<1>6. DirTyped'
  <2>1. /\ rooms' \in [Tabs -> SUBSET Convs] /\ added' \in [Tabs -> SUBSET Convs]
        /\ late' \in SUBSET Tabs
    BY <1>1, <1>2 DEF DirTyped
  <2>2. ops' \in 0 .. MaxOps /\ muddled' \in SUBSET Users
    BY <1>1, <1>2, <1>4, ConversationsConstants DEF DirTyped
  <2> QED
    BY <1>1, <1>2, <2>1, <2>2 DEF DirTyped
<1>7. JobsTyped'
  BY <1>1, <1>2, <1>5, JobsStayTyped
<1>8. /\ Jobs({"remove", "role", "direct"})' \subseteq Jobs({"remove", "role", "direct"})
      /\ Jobs({"request"})' \subseteq Jobs({"request"})
      /\ Jobs({"notify", "notified", "read", "join"}) \subseteq jobs'
      /\ Jobs(TellJobs) \subseteq jobs'
  BY <1>2, <1>3 DEF Jobs
<1>9. Members' /\ OwnRole' /\ FoundDirect'
  BY <1>2, <1>8, MembersStay
<1>10. FoundRequest'
  BY <1>2, <1>8, FriendsStay
<1>11. Online'
  <2> SUFFICES ASSUME NEW u \in Users \ muddled' PROVE OnlineFor(u)'
    BY <1>7, OnlineEachNext
  <2>1. OnlineFor(u)
    BY <1>1, <1>2, OnlineEach DEF DirIndInv
  <2>2. There(u)' = There(u)
    BY <1>2 DEF There, Of
  <2>3. CASE u = Owner[t]
    <3>1. \A j \in jobs : ~(j.op \in PresenceJobs /\ j.to = u)
      BY <1>1, <1>2, <2>3, Overlaps
    <3>2. t \in There(u)
      BY <1>2, <2>3 DEF There, Of
    <3>3. u \in online
      BY <2>1, <3>1, <3>2 DEF OnlineFor
    <3>4. \A j \in jobs' : j.op \in PresenceJobs /\ j.to = u => j = new
      BY <1>2, <3>1
    <3> QED
      BY <1>2, <1>3, <2>3, <3>3, <3>4 DEF OnlineFor, PresenceJobs
  <2>4. CASE u # Owner[t]
    BY <1>1, <1>2, <1>3, <2>1, <2>2, <2>4, OtherOnline
  <2> QED
    BY <2>3, <2>4
<1>12. Heard'
  <2>1. \A v \in inUser' : rooms'[v] = rooms[v]
    BY <1>1, <1>2 DEF DirTyped
  <2> QED
    BY <1>2, <1>8, <2>1, HeardStays
<1>13. Listed'
  <2>1. late \subseteq late' /\ \A v \in Tabs \ late' : added'[v] = added[v]
    BY <1>1, <1>2 DEF DirTyped
  <2> QED
    BY <1>2, <1>8, <2>1, ListedStays
<1> QED
  BY <1>6, <1>7, <1>9, <1>10, <1>11, <1>12, <1>13 DEF DirIndInv

LEMMA LeaveKeeps ==
  ASSUME DirIndInv, Leave
  PROVE  DirIndInv'
<1>1. DirTyped /\ JobsTyped
  BY DEF DirIndInv
<1>2. PICK j \in jobs :
        /\ j.op = "leave" /\ active' = active \ {j.tab}
        /\ IF active \cap Of(j.to) = {j.tab} THEN Becomes(j, [j EXCEPT !.op = "offline"]) ELSE Ends(j)
        /\ UNCHANGED <<members, contacts, sockets, online, muddled, pages, ops>>
  BY DEF Leave
<1> DEFINE new == Job("offline", j.tab, j.conv, j.to, j.with)
<1>3. JobTyped(j)
  BY <1>1 DEF JobsTyped
<1>4. /\ j = Job(j.op, j.tab, j.conv, j.to, j.with) /\ j.tab \in Tabs /\ j.to = Owner[j.tab]
      /\ j.to \in Users
  BY <1>2, <1>3 DEF JobTyped, PresenceJobs
<1>5. [j EXCEPT !.op = "offline"] = new
  BY <1>4, JobRenamed
<1>6. /\ UNCHANGED <<kind, role, invited, owned, friends, doubled, inUser, rooms, online, muddled,
                     list, fetch, added, late, ops>>
      /\ IF There(j.to) = {j.tab} THEN jobs' = (jobs \ {j}) \cup {new} ELSE jobs' = jobs \ {j}
  BY <1>2, <1>5 DEF Becomes, Ends, There, members, contacts, sockets, pages
<1>7. new.op = "offline" /\ new.tab = j.tab /\ new.to = j.to /\ new.conv = j.conv /\ new.with = j.with
  BY JobParts
<1>8. JobTyped(new)
  <2>1. new = Job(new.op, new.tab, new.conv, new.to, new.with)
    BY <1>7
  <2> HIDE DEF new
  <2> QED
    BY <1>3, <1>4, <1>7, <2>1 DEF JobTyped, PresenceJobs, MemberJobs, TellJobs, RowJobs
<1> HIDE DEF new
<1>9. DirTyped'
  BY <1>1, <1>2, <1>6 DEF DirTyped
<1>10. JobsTyped'
  BY <1>1, <1>6, <1>8, JobsStayTyped
<1>11. /\ Jobs({"remove", "role", "direct"})' \subseteq Jobs({"remove", "role", "direct"})
       /\ Jobs({"request"})' \subseteq Jobs({"request"})
       /\ Jobs({"notify", "notified", "read", "join"}) \subseteq jobs'
  BY <1>2, <1>6, <1>7 DEF Jobs
<1>12. Members' /\ OwnRole' /\ FoundDirect'
  BY <1>6, <1>11, MembersStay
<1>13. FoundRequest'
  BY <1>6, <1>11, FriendsStay
<1>14. Online'
  <2> SUFFICES ASSUME NEW u \in Users \ muddled' PROVE OnlineFor(u)'
    BY <1>10, OnlineEachNext
  <2>1. OnlineFor(u)
    BY <1>1, <1>6, OnlineEach DEF DirIndInv
  <2>2. There(u)' = There(u) \ {j.tab}
    BY <1>2 DEF There, Of
  <2>3. CASE u = j.to
    <3>1. /\ \A k \in jobs : k.op \in PresenceJobs /\ k.to = u => k = j
          /\ j.tab \in active /\ u \in online
      BY <1>2, <2>1, <2>3 DEF OnlineFor, PresenceJobs
    <3>2. j.tab \in There(u)
      BY <1>4, <2>3, <3>1 DEF There, Of
    <3>3. CASE There(u) = {j.tab}
      <4>1. There(u)' = {}
        BY <2>2, <3>3
      <4>2. \A k \in jobs' : k.op \in PresenceJobs /\ k.to = u => k = new
        BY <1>6, <2>3, <3>1, <3>3
      <4>3. new \in jobs'
        BY <1>6, <2>3, <3>3
      <4> QED
        BY <1>7, <2>3, <4>1, <4>2, <4>3 DEF OnlineFor, PresenceJobs
    <3>4. CASE There(u) # {j.tab}
      <4>1. There(u)' # {}
        BY <2>2, <3>2, <3>4
      <4>2. \A k \in jobs' : ~(k.op \in PresenceJobs /\ k.to = u)
        BY <1>6, <2>3, <3>1, <3>4
      <4> QED
        BY <1>6, <3>1, <4>1, <4>2 DEF OnlineFor
    <3> QED
      BY <3>3, <3>4
  <2>4. CASE u # j.to
    <3>1. There(u)' = There(u)
      BY <1>4, <2>2, <2>4 DEF There, Of
    <3> QED
      BY <1>1, <1>6, <1>7, <2>1, <2>4, <3>1, OtherOnline
  <2> QED
    BY <2>3, <2>4
<1>15. Heard' /\ Listed'
  BY <1>6, <1>11, ReachStays DEF sockets, pages
<1> QED
  BY <1>9, <1>10, <1>12, <1>13, <1>14, <1>15 DEF DirIndInv

LEMMA SetOfflineKeeps ==
  ASSUME DirIndInv, SetOffline
  PROVE  DirIndInv'
<1>1. DirTyped /\ JobsTyped
  BY DEF DirIndInv
<1>2. PICK j \in jobs : /\ j.op = "offline" /\ jobs' = jobs \ {j} /\ online' = online \ {j.to}
                        /\ UNCHANGED <<members, contacts, sockets, active, muddled, pages, ops>>
  BY DEF SetOffline, Ends
<1>3. UNCHANGED <<kind, role, invited, owned, friends, doubled, inUser, rooms, active, muddled, list, fetch, added, late, ops>>
  BY <1>2 DEF members, contacts, sockets, pages
<1>4. DirTyped'
  BY <1>1, <1>2, <1>3 DEF DirTyped
<1>5. JobsTyped'
  BY <1>1, <1>2, <1>3, JobsStayTyped
<1>6. /\ Jobs({"remove", "role", "direct"})' \subseteq Jobs({"remove", "role", "direct"})
      /\ Jobs({"request"})' \subseteq Jobs({"request"})
      /\ Jobs({"notify", "notified", "read", "join"}) \subseteq jobs'
  BY <1>2 DEF Jobs
<1>7. Members' /\ OwnRole' /\ FoundDirect'
  BY <1>3, <1>6, MembersStay
<1>8. FoundRequest'
  BY <1>3, <1>6, FriendsStay
<1>9. Online'
  <2> SUFFICES ASSUME NEW u \in Users \ muddled' PROVE OnlineFor(u)'
    BY <1>5, OnlineEachNext
  <2>1. OnlineFor(u)
    BY <1>1, <1>3, OnlineEach DEF DirIndInv
  <2>2. There(u)' = There(u)
    BY <1>3 DEF There, Of
  <2>3. CASE u = j.to
    <3>1. /\ \A k \in jobs : k.op \in PresenceJobs /\ k.to = u => k = j
          /\ There(u) = {}
      BY <1>2, <2>1, <2>3 DEF OnlineFor, PresenceJobs
    <3>2. \A k \in jobs' : ~(k.op \in PresenceJobs /\ k.to = u)
      BY <1>2, <3>1
    <3>3. u \notin online'
      BY <1>2, <2>3
    <3> QED
      BY <2>2, <3>1, <3>2, <3>3 DEF OnlineFor
  <2>4. CASE u # j.to
    BY <1>1, <1>2, <2>1, <2>2, <2>4, OtherOnline
  <2> QED
    BY <2>3, <2>4
<1>10. Heard' /\ Listed'
  BY <1>3, <1>6, ReachStays DEF sockets, pages
<1> QED
  BY <1>4, <1>5, <1>7, <1>8, <1>9, <1>10 DEF DirIndInv

LEMMA RestartKeeps ==
  ASSUME DirIndInv, Restart
  PROVE  DirIndInv'
<1>1. DirTyped /\ JobsTyped
  BY DEF DirIndInv
<1>2. /\ inUser' = {} /\ rooms' = [t \in Tabs |-> {}] /\ active' = {} /\ jobs' = {}
      /\ added' = [t \in Tabs |-> {}] /\ fetch' = [t \in Tabs |-> NoFetch]
      /\ late' = Tabs /\ muddled' = Users /\ ops' = ops + 1 /\ ops < MaxOps
      /\ UNCHANGED <<kind, role, invited, owned, friends, doubled, online, list>>
  BY DEF Restart, Serve, members, contacts
<1>3. DirTyped'
  <2>1. ops' \in 0 .. MaxOps
    BY <1>1, <1>2, ConversationsConstants DEF DirTyped
  <2>2. NoFetch \in [at : {"none", "sent", "read"}, seen : SUBSET Convs]
    BY DEF NoFetch
  <2>3. rooms' \in [Tabs -> SUBSET Convs] /\ added' \in [Tabs -> SUBSET Convs]
    BY <1>2
  <2>4. fetch' \in [Tabs -> [at : {"none", "sent", "read"}, seen : SUBSET Convs]]
    BY <1>2, <2>2
  <2> QED
    BY <1>1, <1>2, <2>1, <2>3, <2>4 DEF DirTyped
<1>4. JobsTyped'
  BY <1>2 DEF JobsTyped
<1>5. Members' /\ OwnRole' /\ FoundDirect'
  <2>1. Jobs({"remove", "role", "direct"})' \subseteq Jobs({"remove", "role", "direct"})
    BY <1>2 DEF Jobs
  <2> QED
    BY <1>2, <2>1, MembersStay
<1>6. FoundRequest'
  <2>1. Jobs({"request"})' \subseteq Jobs({"request"})
    BY <1>2 DEF Jobs
  <2> QED
    BY <1>2, <2>1, FriendsStay
<1>7. Online' /\ Heard' /\ Listed'
  BY <1>2 DEF Online, Heard, Listed
<1> QED
  BY <1>3, <1>4, <1>5, <1>6, <1>7 DEF DirIndInv

-----------------------------------------------------------------------------
(* Conversations.                                                          *)

\* What a conversation's creation leaves: the rows that were there, and one more.
LEMMA Created ==
  ASSUME DirTyped, Members, NEW k \in {"direct", "group"}, NEW rs \in [Users -> Roles], NewConv(k, rs)
  PROVE  /\ kind' \in Seq({"direct", "group"}) /\ Len(kind') <= MaxConvs /\ Len(kind') = Len(kind) + 1
         /\ KindGrows /\ kind'[Len(kind) + 1] = k /\ Len(kind) + 1 \in Convs
         /\ role' \in [Convs -> [Users -> Roles]]
         /\ role[Len(kind) + 1] = NoConv /\ role'[Len(kind) + 1] = rs
         /\ \A c \in Convs : c # Len(kind) + 1 => role'[c] = role[c]
<1>1. kind \in Seq({"direct", "group"}) /\ Len(kind) \in Nat /\ Len(kind) < MaxConvs /\ MaxConvs \in Nat
  BY KindTyped, ConversationsConstants DEF DirTyped, NewConv
<1>2. kind' = Append(kind, k) /\ role' = [role EXCEPT ![Len(kind) + 1] = rs]
  BY DEF NewConv
<1>3. /\ kind' \in Seq({"direct", "group"}) /\ Len(kind') = Len(kind) + 1
      /\ \A c \in 1 .. Len(kind) : kind'[c] = kind[c]
      /\ kind'[Len(kind) + 1] = k
  BY <1>1, <1>2, AppendProperties
<1>4. Len(kind) + 1 \in Convs
  BY <1>1 DEF Convs
<1>5. role[Len(kind) + 1] = NoConv
  BY <1>1, <1>4 DEF Members
<1>6. /\ role' \in [Convs -> [Users -> Roles]] /\ role'[Len(kind) + 1] = rs
      /\ \A c \in Convs : c # Len(kind) + 1 => role'[c] = role[c]
  BY <1>2, <1>4 DEF DirTyped
<1>7. Len(kind) <= Len(kind') /\ Len(kind') <= MaxConvs /\ Len(kind') \in Nat
  BY <1>1, <1>3
<1> QED
  BY <1>1, <1>3, <1>4, <1>5, <1>6, <1>7 DEF KindGrows

LEMMA OpenDirectKeeps ==
  ASSUME DirIndInv, NEW t \in Tabs, NEW u \in Users, OpenDirect(t, u)
  PROVE  DirIndInv'
<1> DEFINE P == Pair(t, u)
<1> DEFINE new == Job("direct", t, 0, u, DirectsOf(P))
<1>1. DirTyped /\ JobsTyped /\ Members /\ OwnRole /\ FoundDirect
  BY DEF DirIndInv
<1>2. /\ jobs' = jobs \cup {new} /\ doubled' = doubled \cup Doubles("direct", P)
      /\ ops' = ops + 1 /\ ops < MaxOps
      /\ UNCHANGED <<kind, role, invited, owned, friends>> /\ UNCHANGED sockets
      /\ UNCHANGED presence /\ UNCHANGED pages
  BY DEF OpenDirect, Serve, members
<1>3. new.op = "direct" /\ new.tab = t /\ new.to = u /\ new.conv = 0 /\ new.with = DirectsOf(P)
  BY JobParts
<1>4. P \in SUBSET Users
  BY ConversationsConstants DEF Pair
<1>5. JobTyped(new)
  <2>1. new = Job(new.op, new.tab, new.conv, new.to, new.with) /\ 0 \in 0 .. MaxConvs
    BY <1>3, ConversationsConstants
  <2>2. DirectsOf(P) \subseteq 1 .. Len(kind)
    BY DEF DirectsOf
  <2> HIDE DEF new, P
  <2> QED
    BY <1>3, <2>1, <2>2 DEF JobTyped, PresenceJobs, MemberJobs, TellJobs, RowJobs
<1>6. PairOf(new) = P
  BY <1>3 DEF PairOf
<1> HIDE DEF new, P
<1>7. \A x \in doubled' : x \in doubled \/ (x = <<"direct", P>> /\ \E j \in jobs : j.op = "direct" /\ PairOf(j) = P)
  BY <1>2 DEF Doubles, PairOf
<1>8. \A j \in jobs : j.op = "direct" /\ PairOf(j) = P => <<"direct", P>> \in doubled'
  BY <1>2 DEF Doubles, PairOf
<1>9. DirTyped'
  <2>1. ops' \in 0 .. MaxOps
    BY <1>1, <1>2, ConversationsConstants DEF DirTyped
  <2>2. doubled' \in SUBSET ({"direct", "request"} \X SUBSET Users)
    BY <1>1, <1>4, <1>7 DEF DirTyped
  <2> QED
    BY <1>1, <1>2, <2>1, <2>2 DEF DirTyped, sockets, presence, pages
<1>10. JobsTyped'
  BY <1>1, <1>2, <1>5, JobsStayTyped
<1>11. /\ Jobs({"request"})' \subseteq Jobs({"request"})
       /\ Jobs(PresenceJobs)' = Jobs(PresenceJobs)
       /\ Jobs({"notify", "notified", "read", "join"}) \subseteq jobs'
  BY <1>2, <1>3 DEF Jobs, PresenceJobs
<1>12. Members'
  BY <1>1, <1>2 DEF Members
<1>13. OwnRole'
  BY <1>1, <1>2, <1>3 DEF OwnRole
<1>14. FoundDirect'
  <2> SUFFICES ASSUME NEW Q \in SUBSET Users, <<"direct", Q>> \notin doubled'
               PROVE  /\ \A c, d \in DirectsOf(Q)' : c = d
                      /\ \A j \in jobs' : j.op = "direct" /\ PairOf(j) = Q =>
                           /\ j.with = DirectsOf(Q)'
                           /\ \A k \in jobs' : k.op = "direct" /\ PairOf(k) = Q => k = j
    BY DEF FoundDirect, PairOf, Pair
  <2>1. DirectsOf(Q)' = DirectsOf(Q)
    BY <1>2 DEF DirectsOf, IsDirect
  <2>2. /\ \A c, d \in DirectsOf(Q) : c = d
        /\ \A j \in jobs : j.op = "direct" /\ PairOf(j) = Q =>
             /\ j.with = DirectsOf(Q)
             /\ \A k \in jobs : k.op = "direct" /\ PairOf(k) = Q => k = j
    BY <1>1, <1>2 DEF FoundDirect
  <2>3. CASE Q = P
    <3>1. \A j \in jobs' : j.op = "direct" /\ PairOf(j) = Q => j = new
      BY <1>2, <1>8, <2>3
    <3> QED
      BY <1>3, <2>1, <2>2, <2>3, <3>1
  <2>4. CASE Q # P
    <3>1. \A j \in jobs' : j.op = "direct" /\ PairOf(j) = Q => j \in jobs
      BY <1>2, <1>6, <2>4
    <3> QED
      BY <2>1, <2>2, <3>1
  <2> QED
    BY <2>3, <2>4
<1>15. FoundRequest'
  BY <1>2, <1>11, FriendsStay
<1>16. Online'
  BY <1>2, <1>10, <1>11, PresenceStays
<1>17. Heard' /\ Listed'
  BY <1>2, <1>11, ReachStays
<1> QED
  BY <1>9, <1>10, <1>12, <1>13, <1>14, <1>15, <1>16, <1>17 DEF DirIndInv

LEMMA CreateDirectKeeps ==
  ASSUME DirIndInv, CreateDirect
  PROVE  DirIndInv'
<1>1. DirTyped /\ JobsTyped /\ Members /\ OwnRole /\ FoundDirect
  BY DEF DirIndInv
<1> DEFINE Both(j) == [u \in Users |-> IF u \in Pair(j.tab, j.to) THEN "member" ELSE "none"]
<1>2. PICK j \in jobs :
        /\ j.op = "direct"
        /\ \/ /\ j.with # {}
              /\ \E c \in j.with : Becomes(j, [j EXCEPT !.op = "opened", !.conv = c, !.with = {}])
              /\ UNCHANGED <<kind, role>>
           \/ /\ j.with = {}
              /\ NewConv("direct", Both(j))
              /\ Becomes(j, [j EXCEPT !.op = "opened", !.conv = Len(kind) + 1, !.with = {}])
        /\ UNCHANGED <<invited, owned, contacts, sockets, presence, pages, ops>>
  BY DEF CreateDirect
<1>3. JobTyped(j)
  BY <1>1 DEF JobsTyped
<1>4. j = Job(j.op, j.tab, j.conv, j.to, j.with) /\ j.tab \in Tabs /\ j.to \in Users /\ j.with \subseteq 1 .. Len(kind)
  BY <1>2, <1>3 DEF JobTyped
<1>5. \A c : [j EXCEPT !.op = "opened", !.conv = c, !.with = {}] = Job("opened", j.tab, c, j.to, {})
  <2> SUFFICES ASSUME NEW c
               PROVE  [j EXCEPT !.op = "opened", !.conv = c, !.with = {}] = Job("opened", j.tab, c, j.to, {})
    OBVIOUS
  <2> DEFINE r == [j EXCEPT !.op = "opened", !.conv = c, !.with = {}]
  <2>1. DOMAIN j = {"op", "tab", "conv", "to", "with"}
    BY <1>4 DEF Job
  <2>2. r = [x \in DOMAIN j |-> r[x]]
    OBVIOUS
  <2>3. r.op = "opened" /\ r.tab = j.tab /\ r.conv = c /\ r.to = j.to /\ r.with = {}
    BY <2>1
  <2> HIDE DEF r
  <2>4. r = Job("opened", j.tab, c, j.to, {})
    BY <2>1, <2>2, <2>3, IsJob
  <2> QED
    BY <2>4 DEF r
<1>6. PICK c : /\ jobs' = (jobs \ {j}) \cup {Job("opened", j.tab, c, j.to, {})}
               /\ \/ j.with # {} /\ c \in j.with /\ UNCHANGED <<kind, role>>
                  \/ j.with = {} /\ c = Len(kind) + 1 /\ NewConv("direct", Both(j))
  BY <1>2, <1>5 DEF Becomes
<1> DEFINE new == Job("opened", j.tab, c, j.to, {})
<1>7. new.op = "opened" /\ new.tab = j.tab /\ new.to = j.to /\ new.conv = c /\ new.with = {}
  BY JobParts
<1>8. new = Job(new.op, new.tab, new.conv, new.to, new.with)
  BY <1>7
<1>9. jobs' = (jobs \ {j}) \cup {new}
  BY <1>6
<1> HIDE DEF new
<1>10. UNCHANGED <<invited, owned, friends, doubled>> /\ UNCHANGED sockets /\ UNCHANGED presence /\ UNCHANGED pages /\ ops' = ops
  BY <1>2 DEF contacts
<1>11. Both(j) \in [Users -> Roles] /\ {u \in Users : Both(j)[u] # "none"} = Pair(j.tab, j.to)
  BY <1>4, ConversationsConstants DEF Roles, Pair
<1> HIDE DEF Both
<1>12. /\ Jobs({"remove", "role", "direct"})' \subseteq Jobs({"remove", "role", "direct"})
       /\ Jobs({"request"})' \subseteq Jobs({"request"})
       /\ Jobs(PresenceJobs)' = Jobs(PresenceJobs)
       /\ Jobs({"notify", "notified", "read", "join"}) \subseteq jobs'
  BY <1>2, <1>7, <1>9 DEF Jobs, PresenceJobs
<1>13. FoundRequest'
  BY <1>10, <1>12, FriendsStay
<1>14. Heard' /\ Listed'
  BY <1>10, <1>12, ReachStays
<1>15. DirTyped' /\ JobsTyped' /\ Members' /\ OwnRole' /\ FoundDirect'
  <2>1. CASE j.with # {}
    <3>1. c \in 1 .. Len(kind) /\ UNCHANGED <<kind, role>>
      BY <1>4, <1>6, <2>1
    <3>2. DirTyped'
      BY <1>1, <1>10, <3>1 DEF DirTyped, sockets, presence, pages
    <3>3. JobTyped(new)
      <4>1. c \in 0 .. MaxConvs
        BY <1>1, <3>1, KindTyped, ConversationsConstants DEF Convs
      <4> QED
        BY <1>4, <1>7, <1>8, <3>1, <4>1 DEF JobTyped, PresenceJobs, MemberJobs, TellJobs, RowJobs
    <3>4. JobsTyped'
      BY <1>1, <1>9, <3>1, <3>3, JobsStayTyped
    <3> QED
      BY <1>10, <1>12, <3>1, <3>2, <3>4, MembersStay
  <2>2. CASE j.with = {}
    <3>1. c = Len(kind) + 1 /\ NewConv("direct", Both(j))
      BY <1>6, <2>2
    <3>2. /\ kind' \in Seq({"direct", "group"}) /\ Len(kind') <= MaxConvs /\ Len(kind') = Len(kind) + 1
          /\ KindGrows /\ kind'[c] = "direct" /\ c \in Convs /\ role' \in [Convs -> [Users -> Roles]]
          /\ role[c] = NoConv /\ role'[c] = Both(j) /\ \A d \in Convs : d # c => role'[d] = role[d]
      BY <1>1, <1>11, <3>1, Created
    <3>3. Len(kind) \in Nat /\ 1 .. Len(kind) \subseteq Convs
      BY <1>1, KindTyped
    <3>4. DirTyped'
      BY <1>1, <1>10, <3>2 DEF DirTyped, sockets, presence, pages
    <3>5. JobTyped(new)'
      <4>1. c \in 0 .. MaxConvs /\ c \in 1 .. Len(kind')
        BY <3>1, <3>2, <3>3, ConversationsConstants DEF Convs
      <4> QED
        BY <1>4, <1>7, <1>8, <4>1 DEF JobTyped, PresenceJobs, MemberJobs, TellJobs, RowJobs
    <3>6. JobsTyped'
      BY <1>1, <1>9, <3>2, <3>5, JobsKept
    <3>7. \A u \in Users : role'[c][u] \in {"member", "none"}
      BY <3>2 DEF Both
    <3>8. \A d \in Convs : d # c /\ role'[d] # NoConv => d <= Len(kind)
      BY <1>1, <3>2, <3>3 DEF Members, Convs
    <3>9. Members'
      <4>1. \A d \in Convs : d > Len(kind') => role'[d] = NoConv
        BY <1>1, <3>1, <3>2, <3>3 DEF Members, Convs
      <4>2. ASSUME NEW d \in Convs, NEW u \in Users, role'[d][u] = "owner"
            PROVE  kind'[d] = "group" /\ <<d, u>> \in owned'
        <5>1. d # c /\ role'[d] = role[d]
          BY <3>2, <3>7, <4>2
        <5>2. role[d] # NoConv
          BY <4>2, <5>1 DEF NoConv
        <5>3. d \in 1 .. Len(kind)
          BY <3>3, <3>8, <5>1, <5>2 DEF Convs
        <5> QED
          BY <1>1, <1>10, <3>2, <4>2, <5>1, <5>3 DEF Members, KindGrows
      <4>3. \A p \in invited' : role'[p[1]][p[2]] # "none"
        <5>1. \A p \in invited : p[1] \in Convs /\ p[2] \in Users /\ role[p[1]][p[2]] # "none"
          BY <1>1 DEF Members, DirTyped
        <5>2. \A p \in invited : p[1] # c
          BY <3>2, <5>1 DEF NoConv
        <5> QED
          BY <1>10, <3>2, <5>1, <5>2
      <4> QED
        BY <4>1, <4>2, <4>3 DEF Members
    <3>10. OwnRole'
      BY <1>1, <1>7, <1>9, <1>10 DEF OwnRole
    <3>11. FoundDirect'
      <4> SUFFICES ASSUME NEW P \in SUBSET Users, <<"direct", P>> \notin doubled'
                   PROVE  /\ \A d, e \in DirectsOf(P)' : d = e
                          /\ \A k \in jobs' : k.op = "direct" /\ PairOf(k) = P =>
                               /\ k.with = DirectsOf(P)'
                               /\ \A l \in jobs' : l.op = "direct" /\ PairOf(l) = P => l = k
        BY DEF FoundDirect, PairOf, Pair
      <4>1. /\ \A d, e \in DirectsOf(P) : d = e
            /\ \A k \in jobs : k.op = "direct" /\ PairOf(k) = P =>
                 /\ k.with = DirectsOf(P)
                 /\ \A l \in jobs : l.op = "direct" /\ PairOf(l) = P => l = k
        BY <1>1, <1>10 DEF FoundDirect
      <4>2. \A d \in 1 .. Len(kind) : d # c /\ (IsDirect(d, P)' <=> IsDirect(d, P))
        BY <3>1, <3>2, <3>3 DEF IsDirect, KindGrows
      <4>3. IsDirect(c, P)' <=> P = PairOf(j)
        BY <1>11, <3>2 DEF IsDirect, PairOf
      <4>4. 1 .. Len(kind') = 1 .. Len(kind) \cup {c}
        BY <3>1, <3>2, <3>3
      <4>5. \A k \in jobs' : k.op = "direct" => k \in jobs /\ k # j
        BY <1>7, <1>9
      <4>6. CASE P = PairOf(j)
        <5>1. DirectsOf(P) = {} /\ \A l \in jobs : l.op = "direct" /\ PairOf(l) = P => l = j
          BY <1>2, <2>2, <4>1, <4>6
        <5>2. \A d \in DirectsOf(P)' : d = c
          BY <4>2, <4>4, <5>1 DEF DirectsOf
        <5> QED
          BY <4>5, <5>1, <5>2
      <4>7. CASE P # PairOf(j)
        <5>1. DirectsOf(P)' = DirectsOf(P)
          BY <4>2, <4>3, <4>4, <4>7 DEF DirectsOf
        <5> QED
          BY <4>1, <4>5, <5>1
      <4> QED
        BY <4>6, <4>7
    <3> QED
      BY <3>4, <3>6, <3>9, <3>10, <3>11
  <2> QED
    BY <2>1, <2>2
<1>16. Online'
  BY <1>10, <1>12, <1>15, PresenceStays
<1> QED
  BY <1>13, <1>14, <1>15, <1>16 DEF DirIndInv

LEMMA CreateGroupKeeps ==
  ASSUME DirIndInv, NEW t \in Tabs, NEW others \in SUBSET Users, CreateGroup(t, others)
  PROVE  DirIndInv'
<1>0. PICK c : c = Len(kind) + 1
  OBVIOUS
<1> DEFINE rs == [u \in Users |-> IF u = Owner[t] THEN "owner" ELSE IF u \in others THEN "member" ELSE "none"]
<1>1. DirTyped /\ JobsTyped /\ Members /\ OwnRole /\ FoundDirect /\ Heard /\ Listed
  BY DEF DirIndInv
<1>2. /\ Owner[t] \notin others /\ ops' = ops + 1 /\ ops < MaxOps /\ NewConv("group", rs)
      /\ invited' = invited \cup ({c} \X others) /\ owned' = owned \cup {<<c, Owner[t]>>}
      /\ jobs' = jobs \cup {Job("notify", t, c, u, {}) : u \in others}
                      \cup {Job("opened", t, c, u, {}) : u \in {v \in {Owner[t]} : others = {}}}
      /\ UNCHANGED <<friends, doubled>> /\ UNCHANGED sockets /\ UNCHANGED presence /\ UNCHANGED pages
  BY <1>0 DEF CreateGroup, Serve, contacts
<1>3. Owner[t] \in Users
  BY ConversationsConstants
<1>4. rs \in [Users -> Roles] /\ \A u \in Users : rs[u] = "owner" <=> u = Owner[t]
  BY <1>3 DEF Roles
<1>5. \A u \in others : rs[u] = "member"
  BY <1>2
<1> HIDE DEF rs
<1>6. /\ kind' \in Seq({"direct", "group"}) /\ Len(kind') <= MaxConvs /\ Len(kind') = Len(kind) + 1
      /\ KindGrows /\ kind'[c] = "group" /\ c \in Convs /\ role' \in [Convs -> [Users -> Roles]]
      /\ role[c] = NoConv /\ role'[c] = rs /\ \A d \in Convs : d # c => role'[d] = role[d]
  BY <1>0, <1>1, <1>2, <1>4, Created
<1>7. Len(kind) \in Nat /\ 1 .. Len(kind) \subseteq Convs
  BY <1>1, KindTyped
<1>8. \A u \in others : Job("notify", t, c, u, {}) \in jobs'
  BY <1>2
<1>9. \A k \in jobs' : k \in jobs \/ \E u \in Users, op \in {"notify", "opened"} : k = Job(op, t, c, u, {})
  BY <1>2, <1>3
<1>10. ASSUME NEW k, NEW u \in Users, NEW op \in {"notify", "opened"}, k = Job(op, t, c, u, {})
       PROVE  k.op = op /\ JobTyped(k)'
  <2>1. k.op = op /\ k.tab = t /\ k.to = u /\ k.conv = c /\ k.with = {}
    BY <1>10, JobParts
  <2>2. k = Job(k.op, k.tab, k.conv, k.to, k.with)
    BY <1>10, <2>1
  <2>3. c \in 0 .. MaxConvs /\ c \in 1 .. Len(kind')
    BY <1>0, <1>6, <1>7, ConversationsConstants DEF Convs
  <2>4. op \notin PresenceJobs /\ op \notin MemberJobs /\ op \notin RowJobs /\ op \notin {"join", "role", "direct"}
    BY DEF PresenceJobs, MemberJobs, RowJobs
  <2> QED
    BY <2>1, <2>2, <2>3, <2>4 DEF JobTyped
<1>11. \A k \in jobs' : k \in jobs \/ k.op \in {"notify", "opened"}
  BY <1>9, <1>10
<1>12. jobs \subseteq jobs'
  BY <1>2
<1>13. /\ Jobs({"request"})' \subseteq Jobs({"request"})
       /\ Jobs({"direct"})' \subseteq Jobs({"direct"})
       /\ Jobs({"remove", "role"})' \subseteq Jobs({"remove", "role"})
       /\ Jobs(PresenceJobs)' = Jobs(PresenceJobs)
  BY <1>11, <1>12 DEF Jobs, PresenceJobs
<1>14. DirTyped'
  <2>1. ops' \in 0 .. MaxOps
    BY <1>1, <1>2, ConversationsConstants DEF DirTyped
  <2>2. invited' \in SUBSET (Convs \X Users) /\ owned' \in SUBSET (Convs \X Users)
    BY <1>1, <1>2, <1>6, ConversationsConstants DEF DirTyped
  <2> QED
    BY <1>1, <1>2, <1>6, <2>1, <2>2 DEF DirTyped, sockets, presence, pages
<1>15. JobsTyped'
  BY <1>1, <1>6, <1>9, <1>10, JobsKept
<1>16. \A d \in Convs : d # c /\ role'[d] # NoConv => d \in 1 .. Len(kind)
  BY <1>0, <1>1, <1>6, <1>7 DEF Members, Convs
<1>17. Members'
  <2>1. \A d \in Convs : d > Len(kind') => role'[d] = NoConv
    BY <1>0, <1>1, <1>6, <1>7 DEF Members, Convs
  <2>2. ASSUME NEW d \in Convs, NEW u \in Users, role'[d][u] = "owner"
        PROVE  kind'[d] = "group" /\ <<d, u>> \in owned'
    <3>1. CASE d = c
      BY <1>2, <1>4, <1>6, <2>2, <3>1 DEF rs
    <3>2. CASE d # c
      <4>1. role'[d] = role[d] /\ role[d] # NoConv
        BY <1>6, <2>2, <3>2 DEF NoConv
      <4> QED
        BY <1>1, <1>2, <1>6, <1>16, <2>2, <3>2, <4>1 DEF Members, KindGrows
    <3> QED
      BY <3>1, <3>2
  <2>3. ASSUME NEW p \in invited' PROVE role'[p[1]][p[2]] # "none"
    <3>1. CASE p \in invited
      <4>1. p[1] \in Convs /\ p[2] \in Users /\ role[p[1]][p[2]] # "none"
        BY <1>1, <3>1 DEF Members, DirTyped
      <4>2. p[1] # c
        BY <1>6, <4>1 DEF NoConv
      <4> QED
        BY <1>6, <4>1, <4>2
    <3>2. CASE p \in {c} \X others
      BY <1>5, <1>6, <3>2
    <3> QED
      BY <1>2, <2>3, <3>1, <3>2
  <2> QED
    BY <2>1, <2>2, <2>3 DEF Members
<1>18. OwnRole'
  BY <1>1, <1>2, <1>11 DEF OwnRole
<1>19. FoundDirect'
  <2>1. \A d \in 1 .. Len(kind) : role'[d] = role[d]
    BY <1>0, <1>6, <1>7
  <2>2. \A d \in (Len(kind) + 1) .. Len(kind') : kind'[d] # "direct"
    BY <1>0, <1>6, <1>7
  <2> QED
    BY <1>1, <1>2, <1>6, <1>13, <2>1, <2>2, DirectStays
<1>20. FoundRequest'
  BY <1>2, <1>13, FriendsStay
<1>21. Online'
  BY <1>2, <1>13, <1>15, PresenceStays
<1>22. ASSUME NEW v \in Tabs, NEW d \in Convs, <<d, Owner[v]>> \in invited', <<d, Owner[v]>> \notin invited
       PROVE  \E j \in jobs' : j.op = "notify" /\ j.conv = d /\ j.to = Owner[v]
  <2>1. d = c /\ Owner[v] \in others
    BY <1>2, <1>22
  <2>2. Job("notify", t, c, Owner[v], {}) \in jobs'
    BY <1>8, <2>1
  <2> QED
    BY <2>1, <2>2, JobParts
<1>23. Heard'
  <2> SUFFICES ASSUME NEW v \in inUser', NEW d \in Convs, <<d, Owner[v]>> \in invited'
               PROVE  Hears(v, d)'
    BY DEF Heard
  <2>1. v \in inUser /\ v \in Tabs /\ rooms' = rooms
    BY <1>1, <1>2 DEF sockets, DirTyped
  <2>2. CASE <<d, Owner[v]>> \in invited
    BY <1>1, <1>12, <2>1, <2>2 DEF Heard, Hears
  <2>3. CASE <<d, Owner[v]>> \notin invited
    BY <1>22, <2>1, <2>3 DEF Hears
  <2> QED
    BY <2>2, <2>3
<1>24. Listed'
  <2> SUFFICES ASSUME NEW v \in Tabs \ late', NEW d \in Convs, <<d, Owner[v]>> \in invited'
               PROVE  Lists(v, d)'
    BY DEF Listed
  <2>1. v \in Tabs \ late /\ list' = list /\ fetch' = fetch /\ added' = added
    BY <1>2 DEF pages
  <2>2. CASE <<d, Owner[v]>> \in invited
    BY <1>1, <1>12, <2>1, <2>2 DEF Listed, Lists
  <2>3. CASE <<d, Owner[v]>> \notin invited
    BY <1>22, <2>3 DEF Lists, TellJobs
  <2> QED
    BY <2>2, <2>3
<1> QED
  BY <1>14, <1>15, <1>17, <1>18, <1>19, <1>20, <1>21, <1>23, <1>24 DEF DirIndInv

LEMMA OpenedKeeps ==
  ASSUME DirIndInv, Opened
  PROVE  DirIndInv'
<1>1. DirTyped /\ JobsTyped
  BY DEF DirIndInv
<1>2. PICK j \in jobs :
        /\ j.op = "opened" /\ jobs' = jobs \ {j}
        /\ list' = [list EXCEPT ![j.tab] = @ \cup {j.conv}]
        /\ rooms' = IF j.tab \in inUser THEN [rooms EXCEPT ![j.tab] = @ \cup {j.conv}] ELSE rooms
        /\ UNCHANGED <<members, contacts, inUser, presence, fetch, added, late, ops>>
  BY DEF Opened, Ends
<1>3. UNCHANGED <<kind, role, invited, owned, friends, doubled, inUser, fetch, added, late, ops>> /\ UNCHANGED presence
  BY <1>2 DEF members, contacts
<1>4. j.tab \in Tabs /\ j.conv \in Convs
  <2>1. JobTyped(j)
    BY <1>1 DEF JobsTyped
  <2> QED
    BY <1>1, <1>2, <2>1, KindTyped DEF JobTyped
<1>5. /\ rooms' \in [Tabs -> SUBSET Convs] /\ list' \in [Tabs -> SUBSET Convs]
      /\ \A v \in Tabs : rooms[v] \subseteq rooms'[v] /\ list[v] \subseteq list'[v]
  BY <1>1, <1>2, <1>4 DEF DirTyped
<1>6. DirTyped'
  BY <1>1, <1>3, <1>5 DEF DirTyped, presence
<1>7. JobsTyped'
  BY <1>1, <1>2, <1>3, JobsStayTyped
<1>8. /\ Jobs({"remove", "role", "direct"})' \subseteq Jobs({"remove", "role", "direct"})
      /\ Jobs({"request"})' \subseteq Jobs({"request"})
      /\ Jobs(PresenceJobs)' = Jobs(PresenceJobs)
      /\ Jobs({"notify", "notified", "read", "join"}) \subseteq jobs'
      /\ Jobs(TellJobs) \subseteq jobs'
  BY <1>2 DEF Jobs, PresenceJobs, TellJobs
<1>9. Members' /\ OwnRole' /\ FoundDirect'
  BY <1>3, <1>8, MembersStay
<1>10. FoundRequest'
  BY <1>3, <1>8, FriendsStay
<1>11. Online'
  BY <1>3, <1>7, <1>8, PresenceStays
<1>12. Heard' /\ Listed'
  <2>1. inUser' \subseteq Tabs
    BY <1>1, <1>3 DEF DirTyped
  <2>2. Heard'
    BY <1>3, <1>5, <1>8, <2>1, HeardStays
  <2>3. Listed'
    BY <1>3, <1>5, <1>8, ListedStays
  <2> QED
    BY <2>2, <2>3
<1> QED
  BY <1>6, <1>7, <1>9, <1>10, <1>11, <1>12 DEF DirIndInv

\* A handler has read and will write a row.
LEMMA BeginsKeeps ==
  ASSUME DirIndInv, NEW new, JobTyped(new), new.op \in {"add", "remove", "role", "respond", "delete"},
         \/ new.op \notin {"remove", "role"} \/ <<new.conv, Owner[new.tab]>> \in owned
         \/ new.op = "remove" /\ "owner" \notin new.with,
         jobs' = jobs \cup {new}, Serve,
         UNCHANGED <<members, contacts, sockets, presence, pages>>
  PROVE  DirIndInv'
<1>1. DirTyped /\ JobsTyped /\ Members /\ OwnRole /\ FoundDirect
  BY DEF DirIndInv
<1>2. /\ UNCHANGED <<kind, role, invited, owned, friends, doubled>> /\ UNCHANGED sockets
      /\ UNCHANGED presence /\ UNCHANGED pages
  BY DEF members, contacts
<1>3. DirTyped'
  <2>1. ops' \in 0 .. MaxOps
    BY <1>1, ConversationsConstants DEF DirTyped, Serve
  <2> QED
    BY <1>1, <1>2, <2>1 DEF DirTyped, sockets, presence, pages
<1>4. JobsTyped'
  BY <1>1, <1>2, JobsStayTyped
<1>5. /\ Jobs({"direct"})' \subseteq Jobs({"direct"})
      /\ Jobs({"request"})' \subseteq Jobs({"request"})
      /\ Jobs(PresenceJobs)' = Jobs(PresenceJobs)
      /\ Jobs({"notify", "notified", "read", "join"}) \subseteq jobs'
  BY DEF Jobs, PresenceJobs
<1>6. Members'
  BY <1>1, <1>2 DEF Members
<1>7. OwnRole'
  BY <1>1, <1>2 DEF OwnRole
<1>8. FoundDirect'
  <2>1. \A c \in (Len(kind) + 1) .. Len(kind') : kind'[c] # "direct"
    BY <1>1, <1>2, KindTyped
  <2> QED
    BY <1>1, <1>2, <1>5, <2>1, KindSame, DirectStays
<1>9. FoundRequest'
  BY <1>2, <1>5, FriendsStay
<1>10. Online'
  BY <1>2, <1>4, <1>5, PresenceStays
<1>11. Heard' /\ Listed'
  BY <1>2, <1>5, ReachStays
<1> QED
  BY <1>3, <1>4, <1>6, <1>7, <1>8, <1>9, <1>10, <1>11 DEF DirIndInv

LEMMA MemberBeginsKeeps ==
  ASSUME DirIndInv, NEW t \in Tabs, NEW c \in 1 .. Len(kind), NEW u \in Users,
         \/ AddMember(t, c, u)
         \/ RemoveMember(t, c, u)
         \/ \E r \in {"member", "admin", "owner"} : SetRole(t, c, u, r)
  PROVE  DirIndInv'
<1>1. DirTyped /\ Members
  BY DEF DirIndInv
<1>2. c \in Convs /\ c \in 0 .. MaxConvs /\ Owner[t] \in Users
  BY <1>1, KindTyped, ConversationsConstants DEF Convs
<1>3. PICK op \in MemberJobs, with \in SUBSET Roles :
        /\ jobs' = jobs \cup {Job(op, t, c, u, with)} /\ Serve
        /\ UNCHANGED <<members, contacts, sockets, presence, pages>>
        /\ kind[c] = "group"
        /\ op \notin {"remove", "role"} \/ <<c, Owner[t]>> \in owned \/ (op = "remove" /\ "owner" \notin with)
        /\ op = "role" => with \subseteq Roles \ {"none"}
  <2>1. CASE AddMember(t, c, u)
    BY <2>1 DEF AddMember, MemberJobs
  <2>2. CASE RemoveMember(t, c, u)
    <3>1. role[c][u] \in Roles
      BY <1>1, <1>2 DEF DirTyped
    <3>2. "owner" \in {role[c][u]} => <<c, Owner[t]>> \in owned
      BY <1>1, <1>2, <2>2 DEF RemoveMember, Members
    <3> QED BY <2>2, <3>1, <3>2 DEF RemoveMember, MemberJobs
  <2>3. ASSUME NEW r \in {"member", "admin", "owner"}, SetRole(t, c, u, r)
        PROVE  /\ jobs' = jobs \cup {Job("role", t, c, u, {r})} /\ Serve
               /\ UNCHANGED <<members, contacts, sockets, presence, pages>>
               /\ kind[c] = "group" /\ <<c, Owner[t]>> \in owned
    BY <1>1, <1>2, <2>3 DEF SetRole, Members
  <2> QED
    BY <2>1, <2>2, <2>3 DEF MemberJobs, Roles
<1> DEFINE new == Job(op, t, c, u, with)
<1>4. new.op = op /\ new.tab = t /\ new.to = u /\ new.conv = c /\ new.with = with
  BY JobParts
<1>5. new = Job(new.op, new.tab, new.conv, new.to, new.with)
  BY <1>4
<1> HIDE DEF new
<1>6. op \in {"add", "remove", "role"}
  BY DEF MemberJobs
<1>7. JobTyped(new)
  BY <1>2, <1>3, <1>4, <1>5, <1>6 DEF JobTyped, PresenceJobs, MemberJobs, TellJobs, RowJobs
<1> QED
  BY <1>3, <1>4, <1>6, <1>7, BeginsKeeps DEF new

\* One row of a group is written, and whom it makes an owner is known.
LEMMA RowKeeps ==
  ASSUME DirIndInv, NEW c \in 1 .. Len(kind), kind[c] = "group", NEW u \in Users,
         NEW r \in Roles, role' = [role EXCEPT ![c][u] = r],
         owned' \in SUBSET (Convs \X Users), owned \subseteq owned', r = "owner" => <<c, u>> \in owned',
         UNCHANGED <<kind, doubled>>, invited' \subseteq invited \cup {<<c, u>>},
         r = "none" => <<c, u>> \notin invited',
         Jobs({"remove", "role", "direct"})' \subseteq Jobs({"remove", "role", "direct"})
  PROVE  /\ role' \in [Convs -> [Users -> Roles]] /\ invited' \in SUBSET (Convs \X Users)
         /\ Members' /\ OwnRole' /\ FoundDirect'
<1>1. DirTyped /\ Members /\ OwnRole /\ FoundDirect /\ JobsTyped
  BY DEF DirIndInv
<1>2. c \in Convs /\ Len(kind) \in Nat /\ 1 .. Len(kind) \subseteq Convs
  BY <1>1, KindTyped
<1>3. role \in [Convs -> [Users -> Roles]] /\ r \in Roles
  BY <1>1 DEF DirTyped, Roles
<1>4. role' \in [Convs -> [Users -> Roles]]
  BY <1>2, <1>3
<1>5. \A d \in Convs, v \in Users : role'[d][v] = IF d = c /\ v = u THEN r ELSE role[d][v]
  BY <1>2, <1>3
<1>6. \A d \in Convs : d # c => role'[d] = role[d]
  BY <1>2, <1>3
<1>7. invited' \in SUBSET (Convs \X Users)
  BY <1>1, <1>2 DEF DirTyped
<1>8. \A d \in Convs, v \in Users : role'[d][v] = "owner" => kind[d] = "group" /\ <<d, v>> \in owned'
  BY <1>1, <1>5 DEF Members
<1>9. Members'
  <2>1. \A d \in Convs : d > Len(kind') => role'[d] = NoConv
    BY <1>1, <1>2, <1>6 DEF Members
  <2>2. \A d \in Convs, v \in Users : role'[d][v] = "owner" => kind'[d] = "group" /\ <<d, v>> \in owned'
    BY <1>8
  <2>3. ASSUME NEW p \in invited' PROVE role'[p[1]][p[2]] # "none"
    <3>1. p[1] \in Convs /\ p[2] \in Users /\ p = <<p[1], p[2]>>
      BY <1>7
    <3>2. CASE p[1] = c /\ p[2] = u
      BY <1>5, <3>1, <3>2
    <3>3. CASE ~(p[1] = c /\ p[2] = u)
      <4>1. p \in invited
        BY <3>1, <3>3
      <4> QED
        BY <1>1, <1>5, <3>1, <3>3, <4>1 DEF Members
    <3> QED
      BY <3>2, <3>3
  <2> QED
    BY <2>1, <2>2, <2>3 DEF Members
<1>10. OwnRole'
  <2>1. \A j \in jobs' : j.op \in {"remove", "role"} => j \in jobs
    BY DEF Jobs
  <2> QED
    BY <1>1, <2>1 DEF OwnRole
<1>11. FoundDirect'
  <2>1. \A d \in 1 .. Len(kind) : kind[d] = "direct" => role'[d] = role[d]
    BY <1>2, <1>6
  <2>2. \A d \in (Len(kind) + 1) .. Len(kind') : kind'[d] # "direct"
    BY <1>2
  <2>3. Jobs({"direct"})' \subseteq Jobs({"direct"})
    BY DEF Jobs
  <2> QED
    BY <1>1, <2>1, <2>2, <2>3, KindSame, DirectStays
<1> QED
  BY <1>4, <1>7, <1>9, <1>10, <1>11

LEMMA MemberAddedKeeps ==
  ASSUME DirIndInv, MemberAdded
  PROVE  DirIndInv'
<1>1. DirTyped /\ JobsTyped /\ Heard /\ Listed
  BY DEF DirIndInv
<1>2. PICK j \in jobs :
        /\ j.op = "add"
        /\ IF role[j.conv][j.to] = "none"
           THEN /\ role' = [role EXCEPT ![j.conv][j.to] = "member"]
                /\ invited' = invited \cup {<<j.conv, j.to>>}
                /\ Becomes(j, [j EXCEPT !.op = "notify"])
           ELSE Ends(j) /\ UNCHANGED <<role, invited>>
        /\ UNCHANGED <<kind, owned, contacts, sockets, presence, pages, ops>>
  BY DEF MemberAdded
<1>3. JobTyped(j)
  BY <1>1 DEF JobsTyped
<1>4. /\ j = Job(j.op, j.tab, j.conv, j.to, j.with) /\ j.tab \in Tabs /\ j.to \in Users
      /\ j.conv \in 1 .. Len(kind) /\ kind[j.conv] = "group"
  BY <1>2, <1>3 DEF JobTyped, MemberJobs
<1> DEFINE new == Job("notify", j.tab, j.conv, j.to, j.with)
<1>5. [j EXCEPT !.op = "notify"] = new
  BY <1>4, JobRenamed
<1>6. new.op = "notify" /\ new.tab = j.tab /\ new.to = j.to /\ new.conv = j.conv /\ new.with = j.with
  BY JobParts
<1>7. /\ \/ /\ role' = [role EXCEPT ![j.conv][j.to] = "member"]
            /\ invited' = invited \cup {<<j.conv, j.to>>}
            /\ jobs' = (jobs \ {j}) \cup {new}
         \/ jobs' = jobs \ {j} /\ UNCHANGED <<role, invited>>
      /\ UNCHANGED <<kind, owned, friends, doubled>> /\ UNCHANGED sockets /\ UNCHANGED presence
      /\ UNCHANGED pages /\ ops' = ops
  BY <1>2, <1>5 DEF Becomes, Ends, contacts
<1>8. JobTyped(new)
  <2>1. new = Job(new.op, new.tab, new.conv, new.to, new.with)
    BY <1>6
  <2> HIDE DEF new
  <2> QED
    BY <1>3, <1>4, <1>6, <2>1 DEF JobTyped, PresenceJobs, MemberJobs, TellJobs, RowJobs
<1> HIDE DEF new
<1>9. /\ Jobs({"remove", "role", "direct"})' \subseteq Jobs({"remove", "role", "direct"})
      /\ Jobs({"request"})' \subseteq Jobs({"request"})
      /\ Jobs(PresenceJobs)' = Jobs(PresenceJobs)
      /\ Jobs({"notify", "notified", "read", "join"}) \subseteq jobs'
  BY <1>2, <1>6, <1>7 DEF Jobs, PresenceJobs
<1>10. JobsTyped'
  BY <1>1, <1>7, <1>8, JobsStayTyped
<1>11. FoundRequest'
  BY <1>7, <1>9, FriendsStay
<1>12. Online'
  BY <1>7, <1>9, <1>10, PresenceStays
<1>13. CASE jobs' = jobs \ {j} /\ UNCHANGED <<role, invited>>
  <2>1. DirTyped'
    BY <1>1, <1>7, <1>13 DEF DirTyped, sockets, presence, pages
  <2>2. Members' /\ OwnRole' /\ FoundDirect'
    BY <1>7, <1>9, <1>13, MembersStay
  <2>3. Heard' /\ Listed'
    BY <1>7, <1>9, <1>13, ReachStays
  <2> QED
    BY <1>10, <1>11, <1>12, <2>1, <2>2, <2>3 DEF DirIndInv
<1>14. CASE /\ role' = [role EXCEPT ![j.conv][j.to] = "member"]
            /\ invited' = invited \cup {<<j.conv, j.to>>}
            /\ jobs' = (jobs \ {j}) \cup {new}
  <2>1. /\ role' \in [Convs -> [Users -> Roles]] /\ invited' \in SUBSET (Convs \X Users)
        /\ Members' /\ OwnRole' /\ FoundDirect'
    <3>1. "member" \in Roles /\ owned' = owned /\ owned \in SUBSET (Convs \X Users)
      BY <1>1, <1>7 DEF Roles, DirTyped
    <3>2. invited' \subseteq invited \cup {<<j.conv, j.to>>} /\ kind' = kind /\ doubled' = doubled
      BY <1>7, <1>14
    <3> QED BY <1>4, <1>9, <1>14, <3>1, <3>2, RowKeeps
  <2>2. DirTyped'
    BY <1>1, <1>7, <2>1 DEF DirTyped, sockets, presence, pages
  <2>3. \A t, c : <<c, Owner[t]>> \in invited' =>
          (<<c, Owner[t]>> \in invited \/ (c = new.conv /\ Owner[t] = new.to))
    BY <1>6, <1>14
  <2>4. new \in jobs' /\ \A k \in jobs : k \in jobs' \/ k = j
    BY <1>14
  <2>5. Heard'
    <3> SUFFICES ASSUME NEW v \in inUser', NEW c \in Convs, <<c, Owner[v]>> \in invited'
                 PROVE  Hears(v, c)'
      BY DEF Heard
    <3>1. inUser' = inUser /\ rooms' = rooms
      BY <1>7 DEF sockets
    <3> QED
      BY <1>1, <1>2, <1>6, <2>3, <2>4, <3>1 DEF Heard, Hears
  <2>6. Listed'
    <3> SUFFICES ASSUME NEW v \in Tabs \ late', NEW c \in Convs, <<c, Owner[v]>> \in invited'
                 PROVE  Lists(v, c)'
      BY DEF Listed
    <3>1. late' = late /\ list' = list /\ fetch' = fetch /\ added' = added
      BY <1>7 DEF pages
    <3> QED
      BY <1>1, <1>2, <1>6, <2>3, <2>4, <3>1 DEF Listed, Lists, TellJobs
  <2> QED
    BY <1>10, <1>11, <1>12, <2>1, <2>2, <2>5, <2>6 DEF DirIndInv
<1> QED
  BY <1>7, <1>13, <1>14

LEMMA RowEndsKeeps ==
  ASSUME DirIndInv, MemberRemoved \/ RoleSet
  PROVE  DirIndInv'
<1>1. DirTyped /\ JobsTyped
  BY DEF DirIndInv
<1>2. PICK j \in jobs, r \in Roles :
        /\ j.op \in {"remove", "role"} /\ jobs' = jobs \ {j}
        /\ \/ /\ role' = [role EXCEPT ![j.conv][j.to] = r] /\ (r = "none" => <<j.conv, j.to>> \notin invited')
              /\ owned' = owned \cup {p \in {<<j.conv, j.to>>} : r = "owner"}
           \/ UNCHANGED <<role, invited, owned>>
        /\ invited' \subseteq invited
        /\ UNCHANGED <<kind, contacts, sockets, presence, pages, ops>>
  <2>1. CASE MemberRemoved
    <3>1. \A p : {q \in {p} : "none" = "owner"} = {}
      OBVIOUS
    <3> QED BY <2>1, <3>1 DEF MemberRemoved, Ends, Roles
  <2>2. CASE RoleSet
    <3>1. PICK j \in jobs :
            /\ j.op = "role" /\ jobs' = jobs \ {j}
            /\ \/ UNCHANGED <<role, owned>>
               \/ \E r \in j.with : /\ role' = [role EXCEPT ![j.conv][j.to] = r]
                                    /\ owned' = owned \cup {p \in {<<j.conv, j.to>>} : r = "owner"}
            /\ UNCHANGED <<kind, invited, contacts, sockets, presence, pages, ops>>
      BY <2>2 DEF RoleSet, Ends
    <3>2. j.with \subseteq Roles \ {"none"}
      BY <1>1, <3>1 DEF JobsTyped, JobTyped
    <3> QED
      BY <3>1, <3>2 DEF Roles
  <2> QED
    BY <2>1, <2>2
<1>3. j.to \in Users /\ j.conv \in 1 .. Len(kind) /\ kind[j.conv] = "group"
  BY <1>1, <1>2 DEF JobsTyped, JobTyped, MemberJobs
<1>4. /\ UNCHANGED <<kind, friends, doubled>> /\ UNCHANGED sockets /\ UNCHANGED presence
      /\ UNCHANGED pages /\ ops' = ops
  BY <1>2 DEF contacts
<1>5. /\ Jobs({"remove", "role", "direct"})' \subseteq Jobs({"remove", "role", "direct"})
      /\ Jobs({"request"})' \subseteq Jobs({"request"})
      /\ Jobs(PresenceJobs)' = Jobs(PresenceJobs)
      /\ Jobs({"notify", "notified", "read", "join"}) \subseteq jobs'
  BY <1>2 DEF Jobs, PresenceJobs
<1>6. JobsTyped'
  BY <1>1, <1>2, <1>4, JobsStayTyped
<1>7. /\ role' \in [Convs -> [Users -> Roles]] /\ invited' \in SUBSET (Convs \X Users)
      /\ Members' /\ OwnRole' /\ FoundDirect' /\ owned' \in SUBSET (Convs \X Users)
  <2>1. CASE /\ role' = [role EXCEPT ![j.conv][j.to] = r] /\ (r = "none" => <<j.conv, j.to>> \notin invited')
             /\ owned' = owned \cup {p \in {<<j.conv, j.to>>} : r = "owner"}
    <3>1. owned' \in SUBSET (Convs \X Users) /\ owned \subseteq owned' /\ (r = "owner" => <<j.conv, j.to>> \in owned')
      BY <1>1, <1>3, <2>1, KindTyped DEF DirTyped
    <3> QED BY <1>2, <1>3, <1>4, <1>5, <2>1, <3>1, RowKeeps
  <2>2. CASE UNCHANGED <<role, invited, owned>>
    BY <1>1, <1>4, <1>5, <2>2, MembersStay DEF DirTyped
  <2> QED
    BY <1>2, <2>1, <2>2
<1>8. DirTyped'
  BY <1>1, <1>4, <1>7 DEF DirTyped, sockets, presence, pages
<1>9. FoundRequest'
  BY <1>4, <1>5, FriendsStay
<1>10. Online'
  BY <1>4, <1>5, <1>6, PresenceStays
<1>11. Heard' /\ Listed'
  BY <1>2, <1>4, <1>5, ReachStays
<1> QED
  BY <1>6, <1>7, <1>8, <1>9, <1>10, <1>11 DEF DirIndInv

LEMMA FetchSocketsKeeps ==
  ASSUME DirIndInv, FetchSockets
  PROVE  DirIndInv'
<1>1. DirTyped /\ JobsTyped /\ Heard /\ Listed
  BY DEF DirIndInv
<1>2. PICK j \in jobs :
        /\ j.op = "notify"
        /\ Becomes(j, [j EXCEPT !.op = "notified", !.with = Of(j.to) \cap inUser])
        /\ UNCHANGED <<members, contacts, sockets, presence, pages, ops>>
  BY DEF FetchSockets
<1>3. JobTyped(j)
  BY <1>1 DEF JobsTyped
<1>4. /\ j = Job(j.op, j.tab, j.conv, j.to, j.with) /\ j.tab \in Tabs /\ j.to \in Users
      /\ j.conv \in 1 .. Len(kind)
  BY <1>2, <1>3 DEF JobTyped, TellJobs
<1>5. [j EXCEPT !.op = "notified", !.with = Of(j.to) \cap inUser]
        = Job("notified", j.tab, j.conv, j.to, Of(j.to) \cap inUser)
  <2>1. j = Job(j.op, j.tab, j.conv, j.to, j.with)
    BY <1>4
  <2>2. Moved(j, "notified", Of(j.to) \cap inUser)
          = Job("notified", j.tab, j.conv, j.to, Of(j.to) \cap inUser)
    BY <2>1, JobMoves
  <2> QED
    BY <2>2 DEF Moved
<1>6. PICK new : new = Job("notified", j.tab, j.conv, j.to, Of(j.to) \cap inUser)
  OBVIOUS
<1>7. /\ new.op = "notified" /\ new.tab = j.tab /\ new.to = j.to /\ new.conv = j.conv
      /\ new.with = Of(j.to) \cap inUser
  BY <1>6, JobParts
<1>8. /\ jobs' = (jobs \ {j}) \cup {new}
      /\ UNCHANGED <<kind, role, invited, owned, friends, doubled>> /\ UNCHANGED sockets
      /\ UNCHANGED presence /\ UNCHANGED pages /\ ops' = ops
  BY <1>2, <1>5, <1>6 DEF Becomes, members, contacts
<1>9. JobTyped(new)
  <2>1. new = Job(new.op, new.tab, new.conv, new.to, new.with)
    BY <1>6, <1>7
  <2> QED
    BY <1>3, <1>4, <1>7, <2>1 DEF JobTyped, PresenceJobs, MemberJobs, TellJobs, RowJobs
<1>10. DirTyped'
  BY <1>1, <1>8 DEF DirTyped, sockets, presence, pages
<1>11. JobsTyped'
  BY <1>1, <1>8, <1>9, JobsStayTyped
<1>12. /\ Jobs({"remove", "role", "direct"})' \subseteq Jobs({"remove", "role", "direct"})
       /\ Jobs({"request"})' \subseteq Jobs({"request"})
       /\ Jobs(PresenceJobs)' = Jobs(PresenceJobs)
  BY <1>2, <1>7, <1>8 DEF Jobs, PresenceJobs
<1>13. Members' /\ OwnRole' /\ FoundDirect'
  BY <1>8, <1>12, MembersStay
<1>14. FoundRequest'
  BY <1>8, <1>12, FriendsStay
<1>15. Online'
  BY <1>8, <1>11, <1>12, PresenceStays
<1>16. new \in jobs' /\ \A k \in jobs : k \in jobs' \/ k = j
  BY <1>8
<1>17. Heard'
  <2> SUFFICES ASSUME NEW v \in inUser', NEW c \in Convs, <<c, Owner[v]>> \in invited'
               PROVE  Hears(v, c)'
    BY DEF Heard
  <2>1. inUser' = inUser /\ rooms' = rooms /\ v \in Tabs
    BY <1>1, <1>8 DEF sockets, DirTyped
  <2>2. Hears(v, c)
    BY <1>1, <1>8, <2>1 DEF Heard
  <2>3. v \in Of(Owner[v]) \cap inUser
    BY <2>1 DEF Of
  <2> QED
    BY <1>2, <1>7, <1>16, <2>1, <2>2, <2>3 DEF Hears
<1>18. Listed'
  <2> SUFFICES ASSUME NEW v \in Tabs \ late', NEW c \in Convs, <<c, Owner[v]>> \in invited'
               PROVE  Lists(v, c)'
    BY DEF Listed
  <2>1. late' = late /\ list' = list /\ fetch' = fetch /\ added' = added
    BY <1>8 DEF pages
  <2>2. Lists(v, c)
    BY <1>1, <1>8, <2>1 DEF Listed
  <2> QED
    BY <1>2, <1>7, <1>16, <2>1, <2>2 DEF Lists, TellJobs
<1> QED
  BY <1>10, <1>11, <1>13, <1>14, <1>15, <1>17, <1>18 DEF DirIndInv

LEMMA NotifiedKeeps ==
  ASSUME DirIndInv, Notified
  PROVE  DirIndInv'
<1>1. DirTyped /\ JobsTyped /\ Heard /\ Listed
  BY DEF DirIndInv
<1>2. PICK j \in jobs :
        /\ j.op = "notified"
        /\ rooms' = [t \in Tabs |-> IF t \in j.with \cap inUser THEN rooms[t] \cup {j.conv} ELSE rooms[t]]
        /\ added' = [t \in Tabs |-> IF t \in Of(j.to) \cap inUser THEN added[t] \cup {j.conv} ELSE added[t]]
        /\ late' = late \cup (Of(j.to) \ (Of(j.to) \cap inUser))
        /\ \/ Becomes(j, Job("opened", j.tab, j.conv, Owner[j.tab], {}))
           \/ Ends(j)
        /\ UNCHANGED <<members, contacts, inUser, presence, list, fetch, ops>>
  BY DEF Notified
<1>3. JobTyped(j)
  BY <1>1 DEF JobsTyped
<1>4. j.tab \in Tabs /\ j.to \in Users /\ j.conv \in 1 .. Len(kind) /\ j.conv \in Convs
  BY <1>1, <1>2, <1>3, KindTyped DEF JobTyped, TellJobs
<1>5. PICK new : new = Job("opened", j.tab, j.conv, Owner[j.tab], {})
  OBVIOUS
<1>6. new.op = "opened" /\ new.tab = j.tab /\ new.to = Owner[j.tab] /\ new.conv = j.conv /\ new.with = {}
  BY <1>5, JobParts
<1>7. /\ jobs' = (jobs \ {j}) \cup {new} \/ jobs' = jobs \ {j}
      /\ UNCHANGED <<kind, role, invited, owned, friends, doubled, inUser, list, fetch, ops>> /\ UNCHANGED presence
  BY <1>2, <1>5 DEF Becomes, Ends, members, contacts
<1>8. JobTyped(new)
  <2>1. new = Job(new.op, new.tab, new.conv, new.to, new.with) /\ Owner[j.tab] \in Users
    BY <1>4, <1>5, <1>6, ConversationsConstants
  <2> QED
    BY <1>3, <1>4, <1>6, <2>1 DEF JobTyped, PresenceJobs, MemberJobs, TellJobs, RowJobs
<1>9. DirTyped'
  <2>1. rooms' \in [Tabs -> SUBSET Convs] /\ added' \in [Tabs -> SUBSET Convs]
    BY <1>1, <1>2, <1>4 DEF DirTyped
  <2>2. late' \in SUBSET Tabs
    BY <1>1, <1>2 DEF DirTyped, Of
  <2> QED
    BY <1>1, <1>7, <2>1, <2>2 DEF DirTyped, presence
<1>10. JobsTyped'
  BY <1>1, <1>7, <1>8, JobsStayTyped
<1>11. /\ Jobs({"remove", "role", "direct"})' \subseteq Jobs({"remove", "role", "direct"})
       /\ Jobs({"request"})' \subseteq Jobs({"request"})
       /\ Jobs(PresenceJobs)' = Jobs(PresenceJobs)
  BY <1>2, <1>6, <1>7 DEF Jobs, PresenceJobs
<1>12. Members' /\ OwnRole' /\ FoundDirect'
  BY <1>7, <1>11, MembersStay
<1>13. FoundRequest'
  BY <1>7, <1>11, FriendsStay
<1>14. Online'
  BY <1>7, <1>10, <1>11, PresenceStays
<1>15. \A k \in jobs : k \in jobs' \/ k = j
  BY <1>7
<1>16. Heard'
  <2> SUFFICES ASSUME NEW v \in inUser', NEW c \in Convs, <<c, Owner[v]>> \in invited'
               PROVE  Hears(v, c)'
    BY DEF Heard
  <2>1. v \in inUser /\ v \in Tabs
    BY <1>1, <1>7 DEF DirTyped
  <2>2. Hears(v, c)
    BY <1>1, <1>7, <2>1 DEF Heard
  <2>3. rooms[v] \subseteq rooms'[v] /\ (v \in j.with => j.conv \in rooms'[v])
    BY <1>2, <2>1
  <2> QED
    BY <1>2, <1>15, <2>2, <2>3 DEF Hears
<1>17. Listed'
  <2> SUFFICES ASSUME NEW v \in Tabs \ late', NEW c \in Convs, <<c, Owner[v]>> \in invited'
               PROVE  Lists(v, c)'
    BY DEF Listed
  <2>1. v \in Tabs \ late /\ added[v] \subseteq added'[v] /\ (j.to = Owner[v] => j.conv \in added'[v])
    BY <1>2 DEF Of
  <2>2. Lists(v, c)
    BY <1>1, <1>7, <2>1 DEF Listed
  <2> QED
    BY <1>7, <1>15, <2>1, <2>2 DEF Lists
<1> QED
  BY <1>9, <1>10, <1>12, <1>13, <1>14, <1>16, <1>17 DEF DirIndInv

-----------------------------------------------------------------------------
(* The list of a page.                                                     *)

\* Steps of a page change neither the database nor a handler.
LEMMA PageKeeps ==
  ASSUME DirIndInv, UNCHANGED members, UNCHANGED contacts, UNCHANGED presence, UNCHANGED <<inUser, jobs, ops>>,
         rooms' \in [Tabs -> SUBSET Convs], \A t \in Tabs : rooms[t] \subseteq rooms'[t],
         list' \in [Tabs -> SUBSET Convs], added' \in [Tabs -> SUBSET Convs], late' \in SUBSET Tabs,
         fetch' \in [Tabs -> [at : {"none", "sent", "read"}, seen : SUBSET Convs]],
         Listed'
  PROVE  DirIndInv'
<1>1. DirTyped /\ JobsTyped
  BY DEF DirIndInv
<1>2. UNCHANGED <<kind, role, invited, owned, friends, doubled, inUser, jobs, ops>>
  BY DEF members, contacts
<1>3. DirTyped'
  BY <1>1, <1>2 DEF DirTyped, presence
<1>4. JobsTyped'
  BY <1>1, <1>2, JobsStayTyped
<1>5. /\ Jobs({"remove", "role", "direct"})' \subseteq Jobs({"remove", "role", "direct"})
      /\ Jobs({"request"})' \subseteq Jobs({"request"})
      /\ Jobs(PresenceJobs)' = Jobs(PresenceJobs)
      /\ Jobs({"notify", "notified", "read", "join"}) \subseteq jobs'
  BY <1>2 DEF Jobs
<1>6. Members' /\ OwnRole' /\ FoundDirect'
  BY <1>2, <1>5, MembersStay
<1>7. FoundRequest'
  BY <1>2, <1>5, FriendsStay
<1>8. Online'
  BY <1>4, <1>5, PresenceStays
<1>9. Heard'
  <2>1. inUser' \subseteq Tabs
    BY <1>1, <1>2 DEF DirTyped
  <2> QED
    BY <1>2, <1>5, <2>1, HeardStays
<1> QED
  BY <1>3, <1>4, <1>6, <1>7, <1>8, <1>9 DEF DirIndInv

LEMMA FetchReadKeeps ==
  ASSUME DirIndInv, NEW t \in Tabs, FetchRead(t)
  PROVE  DirIndInv'
<1>1. DirTyped /\ Members /\ Listed
  BY DEF DirIndInv
<1>2. /\ fetch' = [fetch EXCEPT ![t] = [at |-> "read", seen |-> Mine(Owner[t])]]
      /\ late' = late \ {t}
      /\ UNCHANGED members /\ UNCHANGED contacts /\ UNCHANGED sockets /\ UNCHANGED presence
      /\ UNCHANGED <<list, added, jobs, ops>>
  BY DEF FetchRead
<1>3. UNCHANGED <<kind, role, invited, owned, inUser, rooms>>
  BY <1>2 DEF members, sockets
<1>4. fetch' \in [Tabs -> [at : {"none", "sent", "read"}, seen : SUBSET Convs]]
  <2>1. [at |-> "read", seen |-> Mine(Owner[t])] \in [at : {"none", "sent", "read"}, seen : SUBSET Convs]
    BY DEF Mine
  <2> QED
    BY <1>1, <1>2, <2>1 DEF DirTyped
<1>5. Listed'
  <2> SUFFICES ASSUME NEW v \in Tabs \ late', NEW c \in Convs, <<c, Owner[v]>> \in invited'
               PROVE  Lists(v, c)'
    BY DEF Listed
  <2>1. CASE v = t
    <3>1. role[c][Owner[v]] # "none"
      BY <1>1, <1>3 DEF Members
    <3>2. fetch'[v].at = "read" /\ fetch'[v].seen = Mine(Owner[t])
      BY <1>1, <1>2, <2>1 DEF DirTyped
    <3>3. c \in fetch'[v].seen
      BY <2>1, <3>1, <3>2 DEF Mine
    <3> QED
      BY <3>2, <3>3 DEF Lists
  <2>2. CASE v # t
    <3>1. v \in Tabs \ late /\ fetch'[v] = fetch[v]
      BY <1>1, <1>2, <2>2 DEF DirTyped
    <3>2. Lists(v, c)
      BY <1>1, <1>3, <3>1 DEF Listed
    <3> QED
      BY <1>2, <3>1, <3>2 DEF Lists
  <2> QED
    BY <2>1, <2>2
<1>6. rooms' \in [Tabs -> SUBSET Convs] /\ list' \in [Tabs -> SUBSET Convs] /\ added' \in [Tabs -> SUBSET Convs]
      /\ late' \in SUBSET Tabs /\ \A v \in Tabs : rooms[v] \subseteq rooms'[v]
  BY <1>1, <1>2, <1>3 DEF DirTyped
<1> QED
  BY <1>2, <1>3, <1>4, <1>5, <1>6, PageKeeps

LEMMA FetchArrivesKeeps ==
  ASSUME DirIndInv, NEW t \in Tabs, FetchArrives(t)
  PROVE  DirIndInv'
<1>1. DirTyped /\ Listed
  BY DEF DirIndInv
<1>2. /\ fetch[t].at = "read"
      /\ list' = [list EXCEPT ![t] = fetch[t].seen] /\ fetch' = [fetch EXCEPT ![t] = NoFetch]
      /\ UNCHANGED members /\ UNCHANGED contacts /\ UNCHANGED sockets /\ UNCHANGED presence
      /\ UNCHANGED <<added, late, jobs, ops>>
  BY DEF FetchArrives
<1>3. UNCHANGED <<kind, role, invited, owned, inUser, rooms>>
  BY <1>2 DEF members, sockets
<1>4. /\ fetch' \in [Tabs -> [at : {"none", "sent", "read"}, seen : SUBSET Convs]]
      /\ list' \in [Tabs -> SUBSET Convs]
  <2>1. NoFetch \in [at : {"none", "sent", "read"}, seen : SUBSET Convs] /\ fetch[t].seen \in SUBSET Convs
    BY <1>1 DEF NoFetch, DirTyped
  <2> QED
    BY <1>1, <1>2, <2>1 DEF DirTyped
<1>5. Listed'
  <2> SUFFICES ASSUME NEW v \in Tabs \ late', NEW c \in Convs, <<c, Owner[v]>> \in invited'
               PROVE  Lists(v, c)'
    BY DEF Listed
  <2>1. Lists(v, c)
    BY <1>1, <1>2, <1>3 DEF Listed
  <2>2. CASE v = t
    <3>1. fetch'[v].at = "none" /\ list'[v] = fetch[v].seen
      BY <1>1, <1>2, <2>2 DEF DirTyped, NoFetch
    <3> QED
      BY <1>2, <2>1, <2>2, <3>1 DEF Lists
  <2>3. CASE v # t
    <3>1. list'[v] = list[v] /\ fetch'[v] = fetch[v]
      BY <1>1, <1>2, <2>3 DEF DirTyped
    <3> QED
      BY <1>2, <2>1, <3>1 DEF Lists
  <2> QED
    BY <2>2, <2>3
<1>6. rooms' \in [Tabs -> SUBSET Convs] /\ added' \in [Tabs -> SUBSET Convs]
      /\ late' \in SUBSET Tabs /\ \A v \in Tabs : rooms[v] \subseteq rooms'[v]
  BY <1>1, <1>2, <1>3 DEF DirTyped
<1> QED
  BY <1>2, <1>3, <1>4, <1>5, <1>6, PageKeeps

LEMMA FetchFailsKeeps ==
  ASSUME DirIndInv, NEW t \in Tabs, FetchFails(t)
  PROVE  DirIndInv'
<1>1. DirTyped /\ Listed
  BY DEF DirIndInv
<1>2. /\ fetch' = [fetch EXCEPT ![t] = NoFetch] /\ late' = late \cup {t}
      /\ UNCHANGED members /\ UNCHANGED contacts /\ UNCHANGED sockets /\ UNCHANGED presence
      /\ UNCHANGED <<list, added, jobs, ops>>
  BY DEF FetchFails
<1>3. UNCHANGED <<invited, inUser, rooms>>
  BY <1>2 DEF members, sockets
<1>4. fetch' \in [Tabs -> [at : {"none", "sent", "read"}, seen : SUBSET Convs]]
  <2>1. NoFetch \in [at : {"none", "sent", "read"}, seen : SUBSET Convs]
    BY DEF NoFetch
  <2> QED
    BY <1>1, <1>2, <2>1 DEF DirTyped
<1>5. Listed'
  <2> SUFFICES ASSUME NEW v \in Tabs \ late', NEW c \in Convs, <<c, Owner[v]>> \in invited'
               PROVE  Lists(v, c)'
    BY DEF Listed
  <2>1. v \in Tabs \ late /\ fetch'[v] = fetch[v]
    BY <1>1, <1>2 DEF DirTyped
  <2> QED
    BY <1>1, <1>2, <1>3, <2>1 DEF Listed, Lists
<1>6. /\ rooms' \in [Tabs -> SUBSET Convs] /\ list' \in [Tabs -> SUBSET Convs]
      /\ added' \in [Tabs -> SUBSET Convs] /\ late' \in SUBSET Tabs
      /\ \A v \in Tabs : rooms[v] \subseteq rooms'[v]
  BY <1>1, <1>2, <1>3 DEF DirTyped
<1> QED
  BY <1>2, <1>3, <1>4, <1>5, <1>6, PageKeeps

\* A page that refreshes its list will list what it has missed, or has dropped it.
LEMMA RefreshKeeps ==
  ASSUME DirIndInv, NEW t \in Tabs, Refresh(t), UNCHANGED list, UNCHANGED <<invited, jobs>>,
         \A v \in Tabs \ {t} : added'[v] = added[v]
  PROVE  /\ fetch' \in [Tabs -> [at : {"none", "sent", "read"}, seen : SUBSET Convs]]
         /\ late' \in SUBSET Tabs /\ Listed'
<1>1. DirTyped /\ Listed
  BY DEF DirIndInv
<1>2. [at |-> "sent", seen |-> {}] \in [at : {"none", "sent", "read"}, seen : SUBSET Convs]
  OBVIOUS
<1>3. /\ fetch' \in [Tabs -> [at : {"none", "sent", "read"}, seen : SUBSET Convs]]
      /\ late' \in SUBSET Tabs /\ late \subseteq late'
      /\ t \in late' \/ fetch'[t].at = "sent"
      /\ \A v \in Tabs \ {t} : fetch'[v] = fetch[v]
  BY <1>1, <1>2 DEF DirTyped, Refresh
<1>4. Listed'
  <2> SUFFICES ASSUME NEW v \in Tabs \ late', NEW c \in Convs, <<c, Owner[v]>> \in invited'
               PROVE  Lists(v, c)'
    BY DEF Listed
  <2>1. CASE v = t
    BY <1>3, <2>1 DEF Lists
  <2>2. CASE v # t
    <3>1. Lists(v, c)
      BY <1>1, <1>3 DEF Listed
    <3> QED
      BY <1>3, <2>2, <3>1 DEF Lists
  <2> QED
    BY <2>1, <2>2
<1> QED
  BY <1>3, <1>4

LEMMA OnAddedKeeps ==
  ASSUME DirIndInv, NEW t \in Tabs, OnAdded(t)
  PROVE  DirIndInv'
<1>1. DirTyped
  BY DEF DirIndInv
<1>2. PICK c \in added[t] :
        /\ added' = [added EXCEPT ![t] = @ \ {c}]
        /\ rooms' = IF t \in inUser THEN [rooms EXCEPT ![t] = @ \cup {c}] ELSE rooms
        /\ Refresh(t)
        /\ UNCHANGED members /\ UNCHANGED contacts /\ UNCHANGED presence
        /\ UNCHANGED <<inUser, list, jobs, ops>>
  BY DEF OnAdded
<1>3. c \in Convs
  BY <1>1 DEF DirTyped
<1>4. /\ rooms' \in [Tabs -> SUBSET Convs] /\ added' \in [Tabs -> SUBSET Convs] /\ list' \in [Tabs -> SUBSET Convs]
      /\ \A v \in Tabs : rooms[v] \subseteq rooms'[v]
      /\ \A v \in Tabs \ {t} : added'[v] = added[v]
  BY <1>1, <1>2, <1>3 DEF DirTyped
<1>5. /\ fetch' \in [Tabs -> [at : {"none", "sent", "read"}, seen : SUBSET Convs]]
      /\ late' \in SUBSET Tabs /\ Listed'
  BY <1>2, <1>4, RefreshKeeps DEF members
<1> QED
  BY <1>2, <1>4, <1>5, PageKeeps

LEMMA OnMessageKeeps ==
  ASSUME DirIndInv, NEW t \in Tabs, OnMessage(t)
  PROVE  DirIndInv'
<1>1. DirTyped
  BY DEF DirIndInv
<1>2. /\ Refresh(t)
      /\ UNCHANGED members /\ UNCHANGED contacts /\ UNCHANGED presence
      /\ UNCHANGED <<inUser, rooms, added, list, jobs, ops>>
  BY DEF OnMessage, sockets
<1>3. /\ rooms' \in [Tabs -> SUBSET Convs] /\ added' \in [Tabs -> SUBSET Convs] /\ list' \in [Tabs -> SUBSET Convs]
      /\ \A v \in Tabs : rooms[v] \subseteq rooms'[v]
  BY <1>1, <1>2 DEF DirTyped
<1>4. /\ fetch' \in [Tabs -> [at : {"none", "sent", "read"}, seen : SUBSET Convs]]
      /\ late' \in SUBSET Tabs /\ Listed'
  BY <1>2, RefreshKeeps DEF members
<1> QED
  BY <1>2, <1>3, <1>4, PageKeeps

-----------------------------------------------------------------------------
(* Friendships.                                                            *)

\* Steps of the friends' service change rows and handlers alone.
LEMMA FriendKeeps ==
  ASSUME DirIndInv, UNCHANGED members, UNCHANGED sockets, UNCHANGED presence, UNCHANGED pages,
         friends' \in SUBSET Rows, ops' \in 0 .. MaxOps, doubled \subseteq doubled',
         doubled' \in SUBSET ({"direct", "request"} \X SUBSET Users), JobsTyped',
         \A j \in jobs : j \in jobs' \/ j.op \in RowJobs,
         \A j \in jobs' : j \in jobs \/ j.op \in RowJobs,
         FoundRequest'
  PROVE  DirIndInv'
<1>1. DirTyped /\ JobsTyped
  BY DEF DirIndInv
<1>2. UNCHANGED <<kind, role, invited, owned>>
  BY DEF members
<1>3. DirTyped'
  BY <1>1, <1>2 DEF DirTyped, sockets, presence, pages
<1>4. /\ Jobs({"remove", "role", "direct"})' \subseteq Jobs({"remove", "role", "direct"})
      /\ Jobs({"notify", "notified", "read", "join"}) \subseteq jobs'
  BY DEF Jobs, RowJobs
<1>5. Jobs(PresenceJobs)' = Jobs(PresenceJobs)
  BY DEF Jobs, RowJobs, PresenceJobs
<1>6. Members' /\ OwnRole' /\ FoundDirect'
  BY <1>2, <1>4, MembersStay
<1>7. Online'
  BY <1>5, PresenceStays
<1>8. Heard' /\ Listed'
  BY <1>2, <1>4, ReachStays
<1> QED
  BY <1>3, <1>6, <1>7, <1>8 DEF DirIndInv

LEMMA SendRequestKeeps ==
  ASSUME DirIndInv, NEW t \in Tabs, NEW u \in Users, SendRequest(t, u)
  PROVE  DirIndInv'
<1>1. DirTyped /\ JobsTyped /\ FoundRequest
  BY DEF DirIndInv
<1>2. PICK P : P = Pair(t, u)
  OBVIOUS
<1>3. PICK found \in {{}} \cup {{f} : f \in Between(P)} :
        /\ found = {} => Between(P) = {}
        /\ jobs' = jobs \cup {Job("request", t, 0, u, found)}
  BY <1>2 DEF SendRequest
<1>4. PICK new : new = Job("request", t, 0, u, found)
  OBVIOUS
<1>5. /\ jobs' = jobs \cup {new} /\ doubled' = doubled \cup Doubles("request", P)
      /\ ops' = ops + 1 /\ ops < MaxOps /\ friends' = friends
      /\ UNCHANGED members /\ UNCHANGED sockets /\ UNCHANGED presence /\ UNCHANGED pages
  BY <1>2, <1>3, <1>4 DEF SendRequest, Serve
<1>6. new.op = "request" /\ new.tab = t /\ new.to = u /\ new.conv = 0 /\ new.with = found
  BY <1>4, JobParts
<1>7. P \in SUBSET Users /\ PairOf(new) = P
  BY <1>2, <1>6, ConversationsConstants DEF Pair, PairOf
<1>8. found \subseteq Between(P) /\ Between(P) \subseteq Rows /\ \A f, g \in found : f = g
  BY <1>1, <1>3 DEF Between, DirTyped
<1>9. JobTyped(new)
  <2>1. new = Job(new.op, new.tab, new.conv, new.to, new.with) /\ 0 \in 0 .. MaxConvs
    BY <1>4, <1>6, ConversationsConstants
  <2> QED
    BY <1>6, <1>8, <2>1 DEF JobTyped, PresenceJobs, MemberJobs, TellJobs, RowJobs
<1>10. \A x \in doubled' : x \in doubled \/ x = <<"request", P>>
  BY <1>5 DEF Doubles
<1>11. \A j \in jobs : j.op = "request" /\ PairOf(j) = P => <<"request", P>> \in doubled'
  BY <1>5 DEF Doubles, PairOf
<1>12. UNCHANGED kind /\ ops' \in 0 .. MaxOps /\ doubled' \in SUBSET ({"direct", "request"} \X SUBSET Users)
  BY <1>1, <1>5, <1>7, <1>10, ConversationsConstants DEF DirTyped, members
<1>13. JobsTyped'
  BY <1>1, <1>5, <1>9, <1>12, JobsStayTyped
<1>14. FoundRequest'
  <2> SUFFICES ASSUME NEW Q \in SUBSET Users, <<"request", Q>> \notin doubled'
               PROVE  /\ \A f, g \in Between(Q)' : f = g
                      /\ \A j \in jobs' : j.op = "request" /\ PairOf(j) = Q =>
                           /\ j.with = {} => Between(Q)' = {}
                           /\ \A f, g \in j.with : f = g
                           /\ \A f \in j.with : \A g \in Between(Q)' : g.from = f.from /\ g.to = f.to
                           /\ \A k \in jobs' : k.op = "request" /\ PairOf(k) = Q => k = j
    BY DEF FoundRequest, PairOf, Pair
  <2>1. Between(Q)' = Between(Q)
    BY <1>5 DEF Between
  <2>2. /\ \A f, g \in Between(Q) : f = g
        /\ \A j \in jobs : j.op = "request" /\ PairOf(j) = Q =>
             /\ j.with = {} => Between(Q) = {}
             /\ \A f, g \in j.with : f = g
             /\ \A f \in j.with : \A g \in Between(Q) : g.from = f.from /\ g.to = f.to
             /\ \A k \in jobs : k.op = "request" /\ PairOf(k) = Q => k = j
    BY <1>1, <1>5 DEF FoundRequest
  <2>3. CASE Q = P
    <3>1. \A j \in jobs' : j.op = "request" /\ PairOf(j) = Q => j = new
      BY <1>5, <1>11, <2>3
    <3>2. \A f \in found : \A g \in Between(Q) : g = f
      BY <1>8, <2>2, <2>3
    <3> QED
      BY <1>3, <1>6, <1>8, <2>1, <2>2, <2>3, <3>1, <3>2
  <2>4. CASE Q # P
    <3>1. \A j \in jobs' : j.op = "request" /\ PairOf(j) = Q => j \in jobs
      BY <1>5, <1>7, <2>4
    <3> QED
      BY <2>1, <2>2, <3>1
  <2> QED
    BY <2>3, <2>4
<1> QED
  BY <1>1, <1>5, <1>6, <1>12, <1>13, <1>14, FriendKeeps DEF DirTyped, RowJobs

LEMMA DeclinedGoneKeeps ==
  ASSUME DirIndInv, DeclinedGone
  PROVE  DirIndInv'
<1>1. DirTyped /\ JobsTyped /\ FoundRequest
  BY DEF DirIndInv
<1>2. PICK j \in jobs : \E f \in j.with :
        /\ j.op = "request"
        /\ friends' = {g \in friends : ~(g.from = f.from /\ g.to = f.to)}
        /\ jobs' = Deleted(jobs \ {j}, f) \cup {[j EXCEPT !.with = {}]}
        /\ UNCHANGED <<members, doubled, sockets, presence, pages, ops>>
  BY DEF DeclinedGone
<1>3. PICK f \in j.with :
        /\ j.op = "request"
        /\ friends' = {g \in friends : ~(g.from = f.from /\ g.to = f.to)}
        /\ jobs' = Deleted(jobs \ {j}, f) \cup {[j EXCEPT !.with = {}]}
        /\ UNCHANGED <<members, doubled, sockets, presence, pages, ops>>
  BY <1>2
<1>4. JobTyped(j)
  BY <1>1 DEF JobsTyped
<1>5. j = Job(j.op, j.tab, j.conv, j.to, j.with)
  BY <1>4 DEF JobTyped
<1>6. [j EXCEPT !.with = {}] = Job("request", j.tab, j.conv, j.to, {})
  BY <1>3, <1>5, JobReread
<1>7. PICK new : new = Job("request", j.tab, j.conv, j.to, {})
  OBVIOUS
<1>8. new.op = "request" /\ new.tab = j.tab /\ new.to = j.to /\ new.conv = j.conv /\ new.with = {}
  BY <1>7, JobParts
<1>9. /\ jobs' = Deleted(jobs \ {j}, f) \cup {new} /\ friends' \subseteq friends
      /\ UNCHANGED members /\ UNCHANGED sockets /\ UNCHANGED presence /\ UNCHANGED pages
      /\ UNCHANGED <<kind, doubled, ops>>
  BY <1>3, <1>6, <1>7 DEF members
<1>10. /\ \A k \in jobs : k \in jobs' \/ k.op \in RowJobs
       /\ \A k \in jobs' : k = new \/ (k \in jobs /\ k # j)
  BY <1>3, <1>9 DEF Deleted, Holds, RowJobs
<1>11. JobTyped(new)
  <2>1. new = Job(new.op, new.tab, new.conv, new.to, new.with)
    BY <1>7, <1>8
  <2> QED
    BY <1>4, <1>8, <2>1 DEF JobTyped, PresenceJobs, MemberJobs, TellJobs, RowJobs
<1>12. JobsTyped'
  BY <1>1, <1>9, <1>10, <1>11, JobsStayTyped
<1>13. FoundRequest'
  <2> SUFFICES ASSUME NEW Q \in SUBSET Users, <<"request", Q>> \notin doubled'
               PROVE  /\ \A g, h \in Between(Q)' : g = h
                      /\ \A k \in jobs' : k.op = "request" /\ PairOf(k) = Q =>
                           /\ k.with = {} => Between(Q)' = {}
                           /\ \A g, h \in k.with : g = h
                           /\ \A g \in k.with : \A h \in Between(Q)' : h.from = g.from /\ h.to = g.to
                           /\ \A l \in jobs' : l.op = "request" /\ PairOf(l) = Q => l = k
    BY DEF FoundRequest, PairOf, Pair
  <2>1. Between(Q)' \subseteq Between(Q)
    BY <1>9 DEF Between
  <2>2. /\ \A g, h \in Between(Q) : g = h
        /\ \A k \in jobs : k.op = "request" /\ PairOf(k) = Q =>
             /\ k.with = {} => Between(Q) = {}
             /\ \A g, h \in k.with : g = h
             /\ \A g \in k.with : \A h \in Between(Q) : h.from = g.from /\ h.to = g.to
             /\ \A l \in jobs : l.op = "request" /\ PairOf(l) = Q => l = k
    BY <1>1, <1>9 DEF FoundRequest
  <2>3. CASE Q = PairOf(j)
    <3>1. \A k \in jobs' : k.op = "request" /\ PairOf(k) = Q => k = new
      BY <1>3, <1>10, <2>2, <2>3
    <3>2. \A h \in Between(Q) : h.from = f.from /\ h.to = f.to
      BY <1>3, <2>2, <2>3
    <3>3. Between(Q)' = {}
      BY <1>3, <2>1, <3>2 DEF Between
    <3> QED
      BY <1>8, <3>1, <3>3
  <2>4. CASE Q # PairOf(j)
    <3>1. \A k \in jobs' : k.op = "request" /\ PairOf(k) = Q => k \in jobs
      BY <1>8, <1>10, <2>4 DEF PairOf
    <3> QED
      BY <2>1, <2>2, <3>1
  <2> QED
    BY <2>3, <2>4
<1>14. \A k \in jobs' : k \in jobs \/ k.op \in RowJobs
  BY <1>8, <1>10 DEF RowJobs
<1>15. friends' \in SUBSET Rows /\ ops' \in 0 .. MaxOps /\ doubled \subseteq doubled'
       /\ doubled' \in SUBSET ({"direct", "request"} \X SUBSET Users)
  BY <1>1, <1>9 DEF DirTyped
<1> QED
  BY <1>9, <1>10, <1>12, <1>13, <1>14, <1>15, FriendKeeps

LEMMA RequestCreatedKeeps ==
  ASSUME DirIndInv, RequestCreated
  PROVE  DirIndInv'
<1>1. DirTyped /\ JobsTyped /\ FoundRequest
  BY DEF DirIndInv
<1>2. PICK j \in jobs :
        /\ j.op = "request" /\ j.with = {} /\ jobs' = jobs \ {j}
        /\ friends' = friends \cup
             {f \in {[from |-> Owner[j.tab], to |-> j.to, status |-> "pending"]} :
                \A g \in friends : ~(g.from = f.from /\ g.to = f.to)}
        /\ UNCHANGED <<members, doubled, sockets, presence, pages, ops>>
  BY DEF RequestCreated, Ends
<1>3. j.tab \in Tabs /\ j.to \in Users
  BY <1>1 DEF JobsTyped, JobTyped
<1>4. PICK row : row = [from |-> Owner[j.tab], to |-> j.to, status |-> "pending"]
  OBVIOUS
<1>5. row \in Rows /\ {row.from, row.to} = PairOf(j)
  BY <1>3, <1>4, ConversationsConstants DEF Rows, PairOf, Pair
<1>6. /\ friends \subseteq friends' /\ \A g \in friends' : g \in friends \/ g = row
      /\ UNCHANGED members /\ UNCHANGED sockets /\ UNCHANGED presence /\ UNCHANGED pages
      /\ UNCHANGED <<kind, doubled, ops>>
  BY <1>2, <1>4 DEF members
<1>7. JobsTyped'
  BY <1>1, <1>2, <1>6, JobsStayTyped
<1>8. FoundRequest'
  <2> SUFFICES ASSUME NEW Q \in SUBSET Users, <<"request", Q>> \notin doubled'
               PROVE  /\ \A g, h \in Between(Q)' : g = h
                      /\ \A k \in jobs' : k.op = "request" /\ PairOf(k) = Q =>
                           /\ k.with = {} => Between(Q)' = {}
                           /\ \A g, h \in k.with : g = h
                           /\ \A g \in k.with : \A h \in Between(Q)' : h.from = g.from /\ h.to = g.to
                           /\ \A l \in jobs' : l.op = "request" /\ PairOf(l) = Q => l = k
    BY DEF FoundRequest, PairOf, Pair
  <2>1. /\ \A g, h \in Between(Q) : g = h
        /\ \A k \in jobs : k.op = "request" /\ PairOf(k) = Q =>
             /\ k.with = {} => Between(Q) = {}
             /\ \A g, h \in k.with : g = h
             /\ \A g \in k.with : \A h \in Between(Q) : h.from = g.from /\ h.to = g.to
             /\ \A l \in jobs : l.op = "request" /\ PairOf(l) = Q => l = k
    BY <1>1, <1>6 DEF FoundRequest
  <2>2. CASE Q = PairOf(j)
    <3>1. Between(Q) = {} /\ \A k \in jobs' : ~(k.op = "request" /\ PairOf(k) = Q)
      BY <1>2, <2>1, <2>2
    <3>2. \A g \in Between(Q)' : g = row
      BY <1>6, <3>1 DEF Between
    <3> QED
      BY <3>1, <3>2
  <2>3. CASE Q # PairOf(j)
    <3>1. Between(Q)' = Between(Q)
      BY <1>5, <1>6, <2>3 DEF Between
    <3> QED
      BY <1>2, <2>1, <3>1
  <2> QED
    BY <2>2, <2>3
<1>9. friends' \in SUBSET Rows /\ ops' \in 0 .. MaxOps /\ doubled \subseteq doubled'
      /\ doubled' \in SUBSET ({"direct", "request"} \X SUBSET Users)
  BY <1>1, <1>5, <1>6 DEF DirTyped
<1>10. /\ \A k \in jobs : k \in jobs' \/ k.op \in RowJobs
       /\ \A k \in jobs' : k \in jobs \/ k.op \in RowJobs
  BY <1>2 DEF RowJobs
<1> QED
  BY <1>6, <1>7, <1>8, <1>9, <1>10, FriendKeeps

LEMMA RowBeginsKeeps ==
  ASSUME DirIndInv, NEW t \in Tabs, NEW f \in friends,
         \/ CancelRequest(t, f)
         \/ RemoveFriend(t, f)
         \/ \E answer \in {"accepted", "declined"} : Respond(t, f, answer)
  PROVE  DirIndInv'
<1>1. f \in Rows
  BY DEF DirIndInv, DirTyped
<1>2. PICK op \in {"respond", "delete"}, status \in {"pending", "accepted", "declined"} : Found(op, t, f, status)
  BY DEF CancelRequest, RemoveFriend, Respond
<1>3. PICK rows : rows = {[from |-> f.from, to |-> f.to, status |-> status]}
  OBVIOUS
<1>4. f.to \in Users /\ rows \subseteq Rows
  BY <1>1, <1>3 DEF Rows
<1>5. PICK new : new = Job(op, t, 0, f.to, rows)
  OBVIOUS
<1>6. new.op = op /\ new.tab = t /\ new.to = f.to /\ new.conv = 0 /\ new.with = rows
  BY <1>5, JobParts
<1>7. jobs' = jobs \cup {new} /\ Serve /\ UNCHANGED <<members, contacts, sockets, presence, pages>>
  BY <1>2, <1>3, <1>5 DEF Found
<1>8. JobTyped(new)
  <2>1. new = Job(new.op, new.tab, new.conv, new.to, new.with) /\ 0 \in 0 .. MaxConvs
    BY <1>5, <1>6, ConversationsConstants
  <2> QED
    BY <1>4, <1>6, <2>1 DEF JobTyped, PresenceJobs, MemberJobs, TellJobs, RowJobs
<1> QED
  BY <1>6, <1>7, <1>8, BeginsKeeps

LEMMA RespondedKeeps ==
  ASSUME DirIndInv, Responded
  PROVE  DirIndInv'
<1>1. DirTyped /\ JobsTyped /\ FoundRequest
  BY DEF DirIndInv
<1>2. PICK j \in jobs, f \in Rows :
        /\ j.op = "respond" /\ jobs' = jobs \ {j}
        /\ friends' = {IF g.from = f.from /\ g.to = f.to THEN f ELSE g : g \in friends}
        /\ UNCHANGED <<members, doubled, sockets, presence, pages, ops>>
  <2>1. \A j \in jobs : j.op = "respond" => j.with \subseteq Rows
    BY <1>1 DEF JobsTyped, JobTyped, RowJobs
  <2> QED
    BY <2>1 DEF Responded, Ends
<1>3. /\ UNCHANGED members /\ UNCHANGED sockets /\ UNCHANGED presence /\ UNCHANGED pages
      /\ UNCHANGED <<kind, doubled, ops>>
  BY <1>2 DEF members
<1> DEFINE After(g) == IF g.from = f.from /\ g.to = f.to THEN f ELSE g
<1>4. friends' = {After(g) : g \in friends} /\ \A g : After(g).from = g.from /\ After(g).to = g.to
  BY <1>2
<1>5. friends' \in SUBSET Rows
  BY <1>1, <1>2 DEF DirTyped
<1> HIDE DEF After
<1>6. JobsTyped'
  BY <1>1, <1>2, <1>3, JobsStayTyped
<1>7. FoundRequest'
  <2> SUFFICES ASSUME NEW Q \in SUBSET Users, <<"request", Q>> \notin doubled'
               PROVE  /\ \A g, h \in Between(Q)' : g = h
                      /\ \A k \in jobs' : k.op = "request" /\ PairOf(k) = Q =>
                           /\ k.with = {} => Between(Q)' = {}
                           /\ \A g, h \in k.with : g = h
                           /\ \A g \in k.with : \A h \in Between(Q)' : h.from = g.from /\ h.to = g.to
                           /\ \A l \in jobs' : l.op = "request" /\ PairOf(l) = Q => l = k
    BY DEF FoundRequest, PairOf, Pair
  <2>1. /\ \A g, h \in Between(Q) : g = h
        /\ \A k \in jobs : k.op = "request" /\ PairOf(k) = Q =>
             /\ k.with = {} => Between(Q) = {}
             /\ \A g, h \in k.with : g = h
             /\ \A g \in k.with : \A h \in Between(Q) : h.from = g.from /\ h.to = g.to
             /\ \A l \in jobs : l.op = "request" /\ PairOf(l) = Q => l = k
    BY <1>1, <1>3 DEF FoundRequest
  <2>2. \A h \in Between(Q)' : \E g \in Between(Q) : h = After(g)
    BY <1>4 DEF Between
  <2>3. \A k \in jobs' : k \in jobs
    BY <1>2
  <2>4. \A g, h \in Between(Q)' : g = h
    BY <2>1, <2>2
  <2>5. ASSUME NEW k \in jobs', k.op = "request", PairOf(k) = Q
        PROVE  /\ k.with = {} => Between(Q)' = {}
               /\ \A g \in k.with : \A h \in Between(Q)' : h.from = g.from /\ h.to = g.to
    BY <1>4, <2>1, <2>2, <2>3, <2>5
  <2> QED
    BY <2>1, <2>3, <2>4, <2>5
<1>8. ops' \in 0 .. MaxOps /\ doubled \subseteq doubled'
      /\ doubled' \in SUBSET ({"direct", "request"} \X SUBSET Users)
  BY <1>1, <1>3 DEF DirTyped
<1>9. /\ \A k \in jobs : k \in jobs' \/ k.op \in RowJobs
      /\ \A k \in jobs' : k \in jobs \/ k.op \in RowJobs
  BY <1>2 DEF RowJobs
<1> QED
  BY <1>3, <1>5, <1>6, <1>7, <1>8, <1>9, FriendKeeps

LEMMA FriendshipDeletedKeeps ==
  ASSUME DirIndInv, FriendshipDeleted
  PROVE  DirIndInv'
<1>1. DirTyped /\ JobsTyped
  BY DEF DirIndInv
<1>2. PICK j \in jobs : \E f \in j.with :
        /\ j.op = "delete"
        /\ friends' = {g \in friends : ~(g.from = f.from /\ g.to = f.to)}
        /\ jobs' = Deleted(jobs \ {j}, f)
        /\ UNCHANGED <<members, doubled, sockets, presence, pages, ops>>
  BY DEF FriendshipDeleted
<1>3. /\ friends' \subseteq friends /\ jobs' \subseteq jobs
      /\ \A k \in jobs : k \in jobs' \/ k.op \in RowJobs
      /\ UNCHANGED members /\ UNCHANGED sockets /\ UNCHANGED presence /\ UNCHANGED pages
      /\ UNCHANGED <<kind, doubled, ops>>
  BY <1>2 DEF Deleted, Holds, RowJobs, members
<1>4. JobsTyped'
  BY <1>1, <1>3, JobsStayTyped
<1>5. FoundRequest'
  <2>1. Jobs({"request"})' \subseteq Jobs({"request"})
    BY <1>3 DEF Jobs
  <2> QED
    BY <1>3, <2>1, FriendsStay
<1>6. friends' \in SUBSET Rows /\ ops' \in 0 .. MaxOps /\ doubled \subseteq doubled'
      /\ doubled' \in SUBSET ({"direct", "request"} \X SUBSET Users)
  BY <1>1, <1>3 DEF DirTyped
<1> QED
  BY <1>3, <1>4, <1>5, <1>6, FriendKeeps

-----------------------------------------------------------------------------
LEMMA DirectoryStarts == Init => DirIndInv
<1> SUFFICES ASSUME Init PROVE DirIndInv
  OBVIOUS
<1>1. /\ kind = <<>> /\ role = [c \in Convs |-> NoConv] /\ friends = {}
      /\ inUser = Connected /\ active = Connected /\ online = {Owner[t] : t \in Connected}
      /\ rooms = [t \in Tabs |-> {}] /\ list = [t \in Tabs |-> {}]
      /\ fetch = [t \in Tabs |-> NoFetch] /\ added = [t \in Tabs |-> {}]
      /\ jobs = {} /\ ops = 0 /\ invited = {} /\ owned = {} /\ late = {} /\ muddled = {} /\ doubled = {}
  BY DEF Init
<1>2. Len(kind) = 0 /\ kind \in Seq({"direct", "group"})
  BY <1>1
<1>3. role \in [Convs -> [Users -> Roles]] /\ \A c \in Convs, u \in Users : role[c][u] = "none"
  BY <1>1 DEF NoConv, Roles
<1>4. DirTyped
  <2>1. fetch \in [Tabs -> [at : {"none", "sent", "read"}, seen : SUBSET Convs]]
    BY <1>1 DEF NoFetch
  <2>2. online \in SUBSET Users /\ active \in SUBSET Tabs
    BY <1>1, ConversationsConstants
  <2> QED
    BY <1>1, <1>2, <1>3, <2>1, <2>2, ConversationsConstants DEF DirTyped
<1>5. JobsTyped /\ OwnRole
  BY <1>1 DEF JobsTyped, OwnRole
<1>6. Members
  BY <1>1, <1>3 DEF Members
<1>7. FoundDirect /\ FoundRequest
  BY <1>1, <1>2 DEF FoundDirect, FoundRequest, DirectsOf, Between
<1>8. Online
  <2>1. \A u \in Users : u \in online <=> There(u) # {}
    BY <1>1, ConversationsConstants DEF There, Of
  <2> QED
    BY <1>1, <2>1 DEF Online
<1>9. Heard /\ Listed
  BY <1>1 DEF Heard, Listed
<1> QED
  BY <1>4, <1>5, <1>6, <1>7, <1>8, <1>9 DEF DirIndInv

LEMMA DirectoryStep == DirIndInv /\ [Next]_vars => DirIndInv'
<1> SUFFICES ASSUME DirIndInv, [Next]_vars PROVE DirIndInv'
  OBVIOUS
<1>1. CASE UNCHANGED vars
  <2>1. /\ UNCHANGED <<inUser, jobs, ops, rooms, list, added, late, fetch, invited>> /\ UNCHANGED members
        /\ UNCHANGED contacts /\ UNCHANGED presence
    BY <1>1 DEF vars, members, contacts, presence
  <2>2. Listed'
    BY <2>1 DEF DirIndInv, Listed, Lists
  <2> QED
    BY <2>1, <2>2, PageKeeps DEF DirIndInv, DirTyped
<1>2. CASE Connection
  BY <1>2, ConnectKeeps, DisconnectKeeps, ReadMembershipsKeeps, JoinRoomsKeeps, SetOnlineKeeps,
     LeaveKeeps, SetOfflineKeeps, RestartKeeps DEF Connection
<1>3. CASE Membership
  <2>1. CASE \E t \in Tabs : \/ \E u \in Users : OpenDirect(t, u)
                            \/ \E others \in SUBSET Users : CreateGroup(t, others)
    BY <2>1, OpenDirectKeeps, CreateGroupKeeps
  <2>2. CASE \E t \in Tabs, c \in 1 .. Len(kind), u \in Users :
               \/ AddMember(t, c, u) \/ RemoveMember(t, c, u)
               \/ \E r \in {"member", "admin", "owner"} : SetRole(t, c, u, r)
    BY <2>2, MemberBeginsKeeps
  <2>3. CASE CreateDirect \/ MemberAdded \/ MemberRemoved \/ RoleSet \/ FetchSockets \/ Notified \/ Opened
    BY <2>3, CreateDirectKeeps, MemberAddedKeeps, RowEndsKeeps, FetchSocketsKeeps, NotifiedKeeps, OpenedKeeps
  <2> QED
    BY <1>3, <2>1, <2>2, <2>3 DEF Membership
<1>4. CASE List
  BY <1>4, FetchReadKeeps, FetchArrivesKeeps, FetchFailsKeeps, OnAddedKeeps, OnMessageKeeps DEF List
<1>5. CASE Friendship
  <2>1. CASE \E t \in Tabs, u \in Users : SendRequest(t, u)
    BY <2>1, SendRequestKeeps
  <2>2. CASE \E t \in Tabs, f \in friends :
               \/ CancelRequest(t, f) \/ RemoveFriend(t, f)
               \/ \E answer \in {"accepted", "declined"} : Respond(t, f, answer)
    BY <2>2, RowBeginsKeeps
  <2>3. CASE DeclinedGone \/ RequestCreated \/ Responded \/ FriendshipDeleted
    BY <2>3, DeclinedGoneKeeps, RequestCreatedKeeps, RespondedKeeps, FriendshipDeletedKeeps
  <2> QED
    BY <1>5, <2>1, <2>2, <2>3 DEF Friendship
<1> QED
  BY <1>1, <1>2, <1>3, <1>4, <1>5 DEF Next

\* Of a set whose members are equal there is one at most.
LEMMA OneAtMost == ASSUME NEW S, \A x, y \in S : x = y PROVE Cardinality(S) <= 1
<1>1. CASE S = {}
  BY <1>1, FS_EmptySet
<1>2. CASE S # {}
  <2>1. PICK x : S = {x}
    BY <1>2
  <2>2. Cardinality(S) = 1
    BY <2>1, FS_Singleton
  <2> QED
    BY <2>2
<1> QED
  BY <1>1, <1>2

LEMMA DirectoryImplied == DirIndInv => DirectoryInv
<1> SUFFICES ASSUME DirIndInv PROVE DirectoryInv
  OBVIOUS
<1>1. DirTyped /\ JobsTyped /\ FoundDirect /\ FoundRequest /\ Online /\ Heard /\ Listed
  BY DEF DirIndInv
<1>2. TypeOK
  BY <1>1 DEF TypeOK, DirTyped, JobsTyped, JobTyped
<1>3. OneDirect
  <2>1. \A P \in SUBSET Users : <<"direct", P>> \in doubled \/ \A c, d \in DirectsOf(P) : c = d
    BY <1>1 DEF FoundDirect
  <2> QED
    BY <2>1, OneAtMost DEF OneDirect
<1>4. OneFriendship
  <2>1. \A P \in SUBSET Users : <<"request", P>> \in doubled \/ \A f, g \in Between(P) : f = g
    BY <1>1 DEF FoundRequest
  <2> QED
    BY <2>1, OneAtMost DEF OneFriendship
<1>5. AddedHear
  <2> SUFFICES ASSUME NEW t \in inUser, NEW c \in Convs, <<c, Owner[t]>> \in invited,
                      ~About(c, Owner[t], {"notify", "notified"}), ~Busy(t, {"read", "join"})
               PROVE  c \in rooms[t]
    BY DEF AddedHear
  <2>1. Hears(t, c)
    BY <1>1 DEF Heard
  <2> QED
    BY <2>1 DEF Hears, About, Busy
<1>6. AddedListed
  <2> SUFFICES ASSUME NEW t \in inUser \ late, NEW c \in Convs, <<c, Owner[t]>> \in invited,
                      ~About(c, Owner[t], {"notify", "notified"}), fetch[t].at = "none", added[t] = {}
               PROVE  c \in list[t]
    BY DEF AddedListed
  <2>1. Lists(t, c)
    BY <1>1 DEF Listed, DirTyped
  <2> QED
    BY <2>1 DEF Lists, About, TellJobs
<1>7. OnlineRight
  BY <1>1 DEF Online, OnlineRight, There
<1> QED
  BY <1>2, <1>3, <1>4, <1>5, <1>6, <1>7 DEF DirectoryInv, AddedReached

LEMMA DirectoryHolds == Spec => []DirIndInv
BY DirectoryStarts, DirectoryStep, PTL DEF Spec

\* What exists once per pair of users does, who is put into a conversation hears
\* of it and sees it, and isOnline tells who is there: getOrCreateDirect,
\* sendRequest, addMember, onAdded, handleConnection and handleDisconnect,
\* whatever comes between their reads and their writes.
THEOREM DirectorySafe == Spec => []DirectoryInv
BY DirectoryHolds, DirectoryImplied, PTL

\* An ownership is ended by somebody who has been an owner, or by a removal that
\* had read the roles before (removeMember, setMemberRole).
THEOREM OwnerRemains == Spec => OwnerStays
<1> DEFINE Keeps == \A c \in Convs, u \in Users :
                      role[c][u] = "owner" /\ role'[c][u] # "owner"
                      => \E j \in jobs \ jobs' :
                           /\ j.conv = c /\ j.to = u
                           /\ <<c, Owner[j.tab]>> \in owned \/ (j.op = "remove" /\ "owner" \notin j.with)
<1>1. DirIndInv /\ [Next]_vars => [Keeps]_vars
  <2> SUFFICES ASSUME DirIndInv, Next, NEW c \in Convs, NEW u \in Users,
                      role[c][u] = "owner", role'[c][u] # "owner"
               PROVE  \E j \in jobs \ jobs' :
                        /\ j.conv = c /\ j.to = u
                        /\ <<c, Owner[j.tab]>> \in owned \/ (j.op = "remove" /\ "owner" \notin j.with)
    OBVIOUS
  <2>1. DirTyped /\ Members /\ OwnRole
    BY DEF DirIndInv
  <2>2. role' # role
    OBVIOUS
  <2>3. CASE \E j \in jobs : /\ j.op \in {"remove", "role"} /\ j \notin jobs'
                            /\ \E r : role' = [role EXCEPT ![j.conv][j.to] = r]
    <3>0. PICK j \in jobs : /\ j.op \in {"remove", "role"} /\ j \notin jobs'
                            /\ \E r : role' = [role EXCEPT ![j.conv][j.to] = r]
      BY <2>3
    <3>1. PICK r : role' = [role EXCEPT ![j.conv][j.to] = r]
      BY <3>0
    <3>2. c = j.conv /\ u = j.to
      BY <2>1, <3>1 DEF DirTyped
    <3>3. <<c, Owner[j.tab]>> \in owned \/ (j.op = "remove" /\ "owner" \notin j.with)
      BY <2>1, <3>0, <3>2 DEF OwnRole
    <3> QED
      BY <3>0, <3>2, <3>3
  <2>4. CASE CreateDirect \/ \E t \in Tabs, others \in SUBSET Users : CreateGroup(t, others)
    <3>1. PICK rs : role' = [role EXCEPT ![Len(kind) + 1] = rs]
      BY <2>2, <2>4 DEF CreateDirect, CreateGroup, NewConv
    <3>2. c = Len(kind) + 1 /\ Len(kind) \in Nat
      BY <2>1, <3>1, KindTyped DEF DirTyped
    <3>3. role[c] = NoConv
      BY <2>1, <3>2 DEF Members
    <3> QED
      BY <3>3 DEF NoConv
  <2>5. CASE MemberAdded
    <3>1. PICK j \in jobs : /\ role[j.conv][j.to] = "none"
                            /\ role' = [role EXCEPT ![j.conv][j.to] = "member"]
      BY <2>2, <2>5 DEF MemberAdded
    <3> QED
      BY <2>1, <3>1 DEF DirTyped
  <2>6. CASE MemberRemoved
    BY <2>3, <2>6 DEF MemberRemoved, Ends
  <2>7. CASE RoleSet
    BY <2>2, <2>3, <2>7 DEF RoleSet, Ends
  <2>8. CASE Connection \/ List \/ Friendship
    <3>1. role' = role
      <4>1. CASE Connection
        BY <4>1 DEF Connection, Connect, Disconnect, ReadMemberships, JoinRooms, SetOnline, Leave, SetOffline,
                    Restart, members
      <4>2. CASE List
        BY <4>2 DEF List, FetchRead, FetchArrives, FetchFails, OnAdded, OnMessage, members
      <4>3. CASE Friendship
        BY <4>3 DEF Friendship, SendRequest, CancelRequest, RemoveFriend, Respond, Found, DeclinedGone,
                    RequestCreated, Responded, FriendshipDeleted, members
      <4> QED
        BY <2>8, <4>1, <4>2, <4>3
    <3> QED
      BY <2>2, <3>1
  <2>9. CASE Membership /\ role' # role
    BY <2>4, <2>5, <2>6, <2>7, <2>9
       DEF Membership, OpenDirect, AddMember, RemoveMember, SetRole, FetchSockets, Notified, Opened, members
  <2> QED
    BY <2>2, <2>8, <2>9 DEF Next
<1> QED
  BY <1>1, DirectoryHolds, PTL DEF Spec, OwnerStays
===============================================================================
