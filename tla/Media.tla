------------------------------- MODULE Media -------------------------------
(***************************************************************************)
(* Files and voice messages sent from one page: the recorder               *)
(* (VoiceRecorder.tsx), the input and the image preview (ChatInput.tsx,    *)
(* ChatArea.tsx), sealing (mediaEncryption.ts), the upload with its abort  *)
(* controller (uploadFile.ts, upload.service.ts), and the key of an own    *)
(* file, which waits in memory for the echo of its message (cryptoDb.ts).  *)
(*                                                                         *)
(* One ChatArea serves every conversation in turn: the recorder, the image *)
(* on show, the progress bar, the abort controller and the check of the    *)
(* peer's keys outlive a switch.  The page's own keys are ready.           *)
(***************************************************************************)
EXTENDS Naturals, FiniteSets

CONSTANTS Chats,
          Peers,     \* the direct conversations, named by their peer
  Groups,    \* the groups; the others are channels, and the user's saved messages
          NoV2,      \* the peers without a published v2 bundle
          Nobody,
          MaxFiles,  \* bound: files and voice messages
          MaxTouches \* bound: switches of conversation, recordings and images shown

ASSUME MediaConstants ==
  Peers \subseteq Chats /\ Groups \subseteq Chats \ Peers /\ NoV2 \subseteq Peers /\ Nobody \notin Chats
  /\ MaxFiles \in Nat /\ MaxTouches \in Nat

Items == 1 .. MaxFiles

VARIABLES
  chat,       \* the conversation on the screen
  gate,       \* peerV2Status
  gateOf,     \* history: whose status gate is, Nobody after a failed request
  checks,     \* the peers whose bundle was asked for and not yet answered
  showVoice,  \* showVoice
  voice,      \* phase of the recorder on the screen
  mic,        \* a microphone track is live
  prompts,    \* permission prompts of recorders that are gone
  ending,     \* recorders that went while they waited for onstop
  image,      \* imagePreview
  up,         \* the files: where each is, its conversation, and what it is sealed for
  bar,        \* uploadProgress is not null
  abort,      \* abortRef.current, 0 when null
  pending,    \* pendingMediaKeys
  keys,       \* the media_keys store, by file
  news,       \* own file messages whose echo has not come
  touches,
  unwanted,   \* history: uploads going when the user cancelled
  unheeded,   \* history: of those, the ones being sealed: no listener hears the signal
  overlapped, \* history: uploads that went on at the same time as another
  missed      \* history: echoes that came with another conversation on the screen

recorder == <<showVoice, voice, mic, prompts, ending>>
gates == <<chat, gate, gateOf, checks>>
uploads == <<up, bar, abort, unwanted, unheeded, overlapped>>
kept == <<pending, keys, news, missed>>
mediaVars == <<recorder, gates, uploads, kept, image, touches>>

MediaInit ==
  /\ chat \in Chats \ Peers /\ gate = "open" /\ gateOf = chat /\ checks = {}
  /\ showVoice = FALSE /\ voice = "none" /\ mic = FALSE /\ prompts = 0 /\ ending = 0
  /\ image = FALSE /\ bar = FALSE /\ abort = 0
  /\ up = [f \in Items |-> [at |-> "new", to |-> Nobody, voice |-> FALSE, sealedFor |-> Nobody]]
  /\ pending = {} /\ keys = {} /\ news = {} /\ touches = 0
  /\ unwanted = {} /\ unheeded = {} /\ overlapped = {} /\ missed = {}

Touch == touches < MaxTouches /\ touches' = touches + 1

-----------------------------------------------------------------------------
(* The recorder and the check of the peer.                                 *)

\* The effect's cleanup: the recorder stops and lets the microphone go.
Unmounted ==
  /\ voice' = "none" /\ mic' = FALSE
  /\ prompts' = prompts + IF voice = "starting" THEN 1 ELSE 0
  /\ ending' = ending + IF voice = "stopping" THEN 1 ELSE 0

\* The input shows the recorder when it is asked for and nothing stands before
\* it; a recorder that comes back starts anew.
Shown(asked, g) ==
  /\ showVoice' = asked /\ gate' = g
  /\ IF asked /\ g = "open"
     THEN /\ voice' = IF voice = "none" THEN "starting" ELSE voice
          /\ UNCHANGED <<mic, prompts, ending>>
     ELSE Unmounted

\* Mutant of OpenChat: the last answer stands until the next.
OpenChatKeepGate(c) ==
  /\ c # chat /\ Touch /\ chat' = c /\ gateOf' = c /\ checks' = checks \cup ({c} \cap Peers)
  /\ Shown(showVoice, gate) /\ UNCHANGED <<uploads, kept, image>>

\* The effect depends on the peer: it asks about a new one, forgets the last
\* answer when there is none, and does not run between two chats without a peer.
OpenChat(c) ==
  /\ c # chat /\ Touch /\ chat' = c /\ checks' = checks \cup ({c} \cap Peers)
  /\ IF {c, chat} \cap Peers = {}
     THEN Shown(showVoice, gate) /\ gateOf' = IF gateOf = chat THEN c ELSE gateOf
     ELSE Shown(showVoice, IF c \in Peers THEN "loading" ELSE "open") /\ gateOf' = c
  /\ UNCHANGED <<uploads, kept, image>>

\* The answer is taken without asking whose it is; a failed request counts as
\* a yes.
CheckPeerHasV2(p) ==
  /\ p \in checks /\ checks' = checks \ {p}
  /\ \/ Shown(showVoice, IF p \in NoV2 THEN "blocked" ELSE "open") /\ gateOf' = p
     \/ Shown(showVoice, "open") /\ gateOf' = Nobody
  /\ UNCHANGED <<chat, uploads, kept, image, touches>>

AskVoice ==
  /\ gate = "open" /\ ~showVoice /\ ~bar /\ Touch /\ Shown(TRUE, gate)
  /\ UNCHANGED <<chat, gateOf, checks, uploads, kept, image>>

RecorderOnly == UNCHANGED <<gates, uploads, kept, image, touches>>

MicGranted ==
  /\ voice = "starting" /\ voice' = "recording" /\ mic' = TRUE
  /\ UNCHANGED <<showVoice, prompts, ending>> /\ RecorderOnly

Closed == showVoice' = FALSE /\ voice' = "none" /\ mic' = FALSE

MicDenied == voice = "starting" /\ Closed /\ UNCHANGED <<prompts, ending>> /\ RecorderOnly

\* Mutant of GrantedLate: the stream is taken without looking at `dead'.
GrantedLateTaken ==
  /\ prompts > 0 /\ prompts' = prompts - 1 /\ mic' = TRUE
  /\ UNCHANGED <<showVoice, voice, ending>> /\ RecorderOnly

\* The prompt of a recorder that is gone: a stream it gets is stopped.
GrantedLate ==
  /\ prompts > 0 /\ prompts' = prompts - 1
  /\ UNCHANGED <<showVoice, voice, mic, ending>> /\ RecorderOnly

StopRecording ==
  /\ voice = "recording" /\ voice' = "stopping"
  /\ UNCHANGED <<showVoice, mic, prompts, ending>> /\ RecorderOnly

\* onstop: with nothing recorded, the recorder is closed.
Recorded ==
  /\ voice = "stopping"
  /\ \/ Closed
     \/ voice' = "preview" /\ mic' = FALSE /\ UNCHANGED showVoice
  /\ UNCHANGED <<prompts, ending>> /\ RecorderOnly

\* onstop of a recorder that is gone: with nothing recorded it calls onCancel,
\* which closes the recorder on the screen.
RecordedLate ==
  /\ ending > 0
  /\ \/ ending' = ending - 1 /\ UNCHANGED <<showVoice, voice, mic, prompts>>
     \/ /\ showVoice' = FALSE /\ voice' = "none" /\ mic' = FALSE
        /\ prompts' = prompts + IF voice = "starting" THEN 1 ELSE 0
        /\ ending' = ending - IF voice = "stopping" THEN 0 ELSE 1
  /\ RecorderOnly

CancelVoice ==
  /\ voice # "none" /\ Shown(FALSE, gate)
  /\ UNCHANGED <<chat, gateOf, checks, uploads, kept, image, touches>>

-----------------------------------------------------------------------------
(* Uploads.                                                                *)

Going == {f \in Items : up[f].at \in {"sealing", "uploading", "stored"}}
Next1(f) == up[f].at = "new" /\ \A g \in Items : g < f => up[g].at # "new"

\* Mutant of Begin: the controller of the upload is not kept.
BeginUnheld(f, spoken) ==
  /\ Next1(f)
  /\ up' = [up EXCEPT ![f] = [@ EXCEPT !.at = "sealing", !.to = chat, !.voice = spoken]]
  /\ bar' = TRUE /\ overlapped' = IF Going = {} THEN overlapped ELSE overlapped \cup Going \cup {f}
  /\ UNCHANGED <<abort, unwanted, unheeded, kept, chat, gateOf, checks>>

Begin(f, spoken) ==
  /\ Next1(f)
  /\ up' = [up EXCEPT ![f] = [@ EXCEPT !.at = "sealing", !.to = chat, !.voice = spoken]]
  /\ bar' = TRUE /\ abort' = f
  /\ overlapped' = IF Going = {} THEN overlapped ELSE overlapped \cup Going \cup {f}
  /\ UNCHANGED <<unwanted, unheeded, kept, chat, gateOf, checks>>

SendVoice(f) == voice = "preview" /\ Begin(f, TRUE) /\ Shown(FALSE, gate) /\ UNCHANGED <<image, touches>>

\* A file may be dropped whatever the gate and the progress bar show; an image is
\* shown first.
SelectFile(f) == Begin(f, FALSE) /\ UNCHANGED <<recorder, gate, image, touches>>
SelectImage == Touch /\ image' = TRUE /\ UNCHANGED <<recorder, gates, uploads, kept>>
ConfirmImage(f) ==
  image /\ image' = FALSE /\ Begin(f, FALSE) /\ UNCHANGED <<recorder, gate, touches>>
CancelImage == image /\ image' = FALSE /\ UNCHANGED <<recorder, gates, uploads, kept, touches>>

Rest == UNCHANGED <<recorder, gates, image, touches>>

\* The finally block: the bar and the controller, whose ever they are.
Ended(f, at) ==
  /\ up' = [up EXCEPT ![f].at = at] /\ bar' = FALSE /\ abort' = 0
  /\ UNCHANGED <<unwanted, unheeded, overlapped>>

\* Mutant of FileKey: the conversation on the screen instead of the file's.
FileKeyShown(f) == chat
\* What a file is sealed for: a key of its own that travels in the message to
\* the peer, or the sender key of the group.
FileKey(f) == up[f].to

Sealed(f, key) ==
  /\ up[f].at = "sealing" /\ up' = [up EXCEPT ![f] = [@ EXCEPT !.at = "uploading", !.sealedFor = key]]
  /\ UNCHANGED <<bar, abort, unwanted, unheeded, overlapped, kept>> /\ Rest

EncryptMedia(f) == up[f].to \in Peers \ NoV2 /\ Sealed(f, FileKey(f))

\* For a group without a sender key a file is refused, but not a voice message,
\* which goes in the clear.
EncryptBinaryForGroup(f) ==
  /\ up[f].to \in Groups
  /\ \/ Sealed(f, FileKey(f))
     \/ up[f].voice /\ Sealed(f, Nobody)

\* Whatever goes to a channel or to the saved messages goes in the clear.
LeftInClear(f) == up[f].to \notin Peers \cup Groups /\ Sealed(f, Nobody)

\* Sealing or the request fails, or its answer is lost; without a bundle sealing fails.
UploadFails(f) ==
  f \in Going /\ Ended(f, "over") /\ UNCHANGED kept /\ Rest

Progress(f) ==
  /\ up[f].at = "uploading" /\ ~bar /\ bar' = TRUE
  /\ UNCHANGED <<up, abort, unwanted, unheeded, overlapped, kept>> /\ Rest

StoreUpload(f) ==
  /\ up[f].at = "uploading" /\ up' = [up EXCEPT ![f].at = "stored"]
  /\ UNCHANGED <<bar, abort, unwanted, unheeded, overlapped, kept>> /\ Rest

\* The answer: the key waits under the file's URL, and the message is emitted.
Uploaded(f) ==
  /\ up[f].at = "stored" /\ Ended(f, "sent")
  /\ pending' = IF up[f].to \in Peers THEN pending \cup {f} ELSE pending
  /\ news' = news \cup {f} /\ UNCHANGED <<keys, missed>> /\ Rest

\* onCancelUpload: the request of abortRef is aborted if it has begun.  A signal
\* that fires before has no listener, and does not fire again.
CancelUpload ==
  /\ bar /\ unwanted' = unwanted \cup Going
  /\ LET heeds == abort # 0 /\ up[abort].at # "sealing" /\ abort \notin unheeded IN
     /\ up' = IF heeds THEN [up EXCEPT ![abort].at = "over"] ELSE up
     /\ abort' = IF heeds THEN 0 ELSE abort
     /\ unheeded' = IF heeds \/ abort = 0 THEN unheeded ELSE unheeded \cup {abort}
  /\ bar' = FALSE /\ UNCHANGED <<overlapped, kept>> /\ Rest

\* saveMediaKey with what consumePendingMediaKey gave.
KeepKey(f) == pending' = pending \ {f} /\ keys' = keys \cup (pending \cap {f})

\* Mutant of Echo: the key is taken before the conversation is compared.
EchoFirst(f) ==
  /\ f \in news /\ news' = news \ {f} /\ pending' = pending \ {f}
  /\ IF up[f].to = chat THEN keys' = keys \cup (pending \cap {f}) /\ UNCHANGED missed
                        ELSE missed' = missed \cup {f} /\ UNCHANGED keys
  /\ UNCHANGED uploads /\ Rest

\* onMessage of the own echo, which leaves other conversations' messages alone.
Echo(f) ==
  /\ f \in news /\ news' = news \ {f}
  /\ IF up[f].to = chat THEN KeepKey(f) /\ UNCHANGED missed
                        ELSE missed' = missed \cup {f} /\ UNCHANGED <<pending, keys>>
  /\ UNCHANGED uploads /\ Rest

\* decryptFn of an own file: with the key stored for its message.
OwnKey(f) == f \in keys

MediaNext ==
  \/ \E c \in Chats : OpenChat(c)
  \/ \E p \in Peers : CheckPeerHasV2(p)
  \/ AskVoice \/ MicGranted \/ MicDenied \/ GrantedLate \/ StopRecording
  \/ Recorded \/ RecordedLate \/ CancelVoice \/ SelectImage \/ CancelImage \/ CancelUpload
  \/ \E f \in Items :
       \/ SendVoice(f) \/ SelectFile(f) \/ ConfirmImage(f)
       \/ EncryptMedia(f) \/ EncryptBinaryForGroup(f) \/ LeftInClear(f)
       \/ UploadFails(f) \/ Progress(f) \/ StoreUpload(f) \/ Uploaded(f) \/ Echo(f)

MediaSpec == MediaInit /\ [][MediaNext]_mediaVars

-----------------------------------------------------------------------------
MediaTypeOK ==
  /\ chat \in Chats /\ gate \in {"open", "loading", "blocked"} /\ gateOf \in Chats \cup {Nobody}
  /\ checks \subseteq Peers /\ {showVoice, mic, image, bar} \subseteq BOOLEAN
  /\ voice \in {"none", "starting", "recording", "stopping", "preview"}
  /\ {prompts, ending, touches} \subseteq 0 .. MaxTouches /\ abort \in {0} \cup Items
  /\ up \in [Items -> [at : {"new", "sealing", "uploading", "stored", "sent", "over"},
                       to : Chats \cup {Nobody}, voice : BOOLEAN, sealedFor : Chats \cup {Nobody}]]
  /\ UNION {pending, keys, news, unwanted, unheeded, overlapped, missed} \subseteq Items

\* The microphone is live only while the recorder on the screen records:
\* whatever is switched, cancelled or granted meanwhile, no stream is left open.
MicOff == mic => voice \in {"recording", "stopping"}

\* An upload the user cancelled is not sent, unless the file was still being
\* sealed or another upload had taken the one abort controller.
CancelledNotSent ==
  \A f \in unwanted : up[f].at = "sent" => f \in unheeded \cup overlapped

\* What is uploaded for a peer or a group is sealed for the conversation it is
\* then sent to, whatever was opened since; a group's voice message alone may go
\* out in the clear.
SealedForItsChat ==
  \A f \in Items : up[f].at \in {"uploading", "stored", "sent"} =>
    \/ up[f].sealedFor = up[f].to
    \/ up[f].sealedFor = Nobody /\ up[f].to \notin Peers /\ (up[f].to \in Groups => up[f].voice)

\* The sender can open its own direct file again (decryptFn):
\* the key waits for the echo, and is stored when the echo is seen.
OwnFileKept ==
  \A f \in Items : up[f].at = "sent" /\ up[f].to \in Peers =>
    OwnKey(f) \/ (f \in pending /\ f \in news \cup missed)

\* The input is open or blocked rightly, unless the status is another's: of a
\* peer left before the answer came, or of a request that failed.
GateRight ==
  gateOf = chat => (gate = "open" => chat \notin NoV2) /\ (gate = "blocked" => chat \in NoV2)

\* Files and voice messages through switches, cancellations, overlapping
\* uploads and late answers (ChatArea.tsx, VoiceRecorder.tsx).
MediaInv ==
  MediaTypeOK /\ MicOff /\ CancelledNotSent /\ SealedForItsChat /\ OwnFileKept /\ GateRight
=============================================================================
