----------------------------- MODULE SignedUrls -----------------------------
(***************************************************************************)
(* Signed URLs of stored files (useSignedUrl.ts, files.controller.ts,      *)
(* getSignedUrl and deleteFile of upload.service.ts).  A URL works for an  *)
(* hour from its signing; the server and the page keep it with the time it *)
(* is said to expire, and give it out until five minutes before.           *)
(***************************************************************************)
EXTENDS Naturals, FiniteSets

CONSTANTS Files,     \* paths in the bucket
          Images,    \* components of the page that show a file
          NoUrl,
          Lifetime,  \* 3 600 s, in units of the clock
          Buffer,    \* BUFFER_MS and CACHE_BUFFER_MS
          Delay,     \* bound: how long the storage, or the server, may take
          MaxClock,  \* bound: the clock
          MaxAsks    \* bound: requests

\* Signing and answering together stay within the buffer.
ASSUME UrlConstants ==
  /\ {Lifetime, Buffer, Delay, MaxClock, MaxAsks} \subseteq Nat
  /\ 2 * Delay <= Buffer /\ Buffer < Lifetime /\ "click" \notin Images

VARIABLES
  clock,
  bucket,      \* files that are stored
  signedCache, \* SIGNED_CACHE of the server
  removing,    \* deleteFile calls that have removed the file
  asks,        \* requests for /files/signed
  asked,       \* how many there were
  urlCache,    \* `cache' of the page
  image,       \* per component: its file, and the URL it shows with the time it was set
  followed,    \* what resolveSignedUrl returned last
  resigned     \* history: files deleted while a URL was being signed

urlVars == <<clock, bucket, signedCache, removing, asks, asked, urlCache, image, followed, resigned>>
page == <<urlCache, image, followed>>

Urls == [of : Files, ends : Nat, says : Nat]
Taken(url) == [url |-> url, at |-> clock]
NothingTaken == [url |-> NoUrl, at |-> 0]
Takers == Images \cup {"click"}

UrlTypeOK ==
  /\ clock \in 0 .. MaxClock /\ bucket \subseteq Files /\ removing \subseteq Files
  /\ signedCache \in [Files -> Urls \cup {NoUrl}] /\ urlCache \in [Files -> Urls \cup {NoUrl}]
  /\ asked \in 0 .. MaxAsks /\ resigned \subseteq Files
  /\ \A a \in asks :
       /\ a.no \in 1 .. MaxAsks /\ a.by \in Takers /\ a.of \in Files /\ a.alive \in BOOLEAN
       /\ a.at \in {"sent", "signing", "answered", "failed"} /\ a.url \in Urls \cup {NoUrl}
  /\ \A i \in Images : image[i].of \in Files \cup {NoUrl} /\ image[i].shows.url \in Urls \cup {NoUrl}
  /\ followed.url \in Urls \cup {NoUrl}

UrlInit ==
  /\ clock = 0 /\ bucket = Files /\ signedCache = [f \in Files |-> NoUrl] /\ removing = {}
  /\ asks = {} /\ asked = 0 /\ urlCache = [f \in Files |-> NoUrl]
  /\ image = [i \in Images |-> [of |-> NoUrl, shows |-> NothingTaken]]
  /\ followed = NothingTaken /\ resigned = {}

\* Both caches: five minutes must be left.
FreshUrl(url) == url # NoUrl /\ url.says > clock + Buffer

-----------------------------------------------------------------------------
(* The page.                                                               *)

Ask(by, f, others) ==
  /\ asked < MaxAsks /\ asked' = asked + 1
  /\ asks' = others \cup {[no |-> asked + 1, by |-> by, of |-> f, alive |-> TRUE, at |-> "sent",
                           since |-> clock, url |-> NoUrl]}
\* The effect's clean-up: `alive = false' for what the component had asked.
Orphaned(i) == {IF a.by = i THEN [a EXCEPT !.alive = FALSE] ELSE a : a \in asks}

\* useSignedUrl is mounted or its file changes; until an answer comes the
\* component goes on showing what it showed.
Show(i, f) ==
  /\ image[i].of # f
  /\ IF FreshUrl(urlCache[f])
     THEN /\ image' = [image EXCEPT ![i] = [of |-> f, shows |-> Taken(urlCache[f])]]
          /\ asks' = Orphaned(i) /\ UNCHANGED asked
     ELSE image' = [image EXCEPT ![i].of = f] /\ Ask(i, f, Orphaned(i))
  /\ UNCHANGED <<clock, bucket, signedCache, removing, urlCache, followed, resigned>>

\* The component is unmounted.
Hide(i) ==
  /\ image[i].of # NoUrl /\ asks' = Orphaned(i)
  /\ image' = [image EXCEPT ![i] = [of |-> NoUrl, shows |-> NothingTaken]]
  /\ UNCHANGED <<clock, bucket, signedCache, removing, asked, urlCache, followed, resigned>>

\* resolveSignedUrl, for a file that is opened or downloaded.
ResolveSignedUrl(f) ==
  /\ IF FreshUrl(urlCache[f])
     THEN followed' = Taken(urlCache[f]) /\ UNCHANGED <<asks, asked>>
     ELSE Ask("click", f, asks) /\ UNCHANGED followed
  /\ UNCHANGED <<clock, bucket, signedCache, removing, urlCache, image, resigned>>

\* Mutant of Receive: the answer to an earlier file of the component is shown.
ReceiveAnyway(a) ==
  /\ a \in asks /\ a.at \in {"answered", "failed"} /\ asks' = asks \ {a}
  /\ IF a.at = "answered" THEN urlCache' = [urlCache EXCEPT ![a.of] = a.url] ELSE UNCHANGED urlCache
  /\ IF a.by \in Images
     THEN image' = [image EXCEPT ![a.by].shows = Taken(a.url)] /\ UNCHANGED followed
     ELSE /\ followed' = IF a.at = "answered" THEN Taken(a.url) ELSE followed
          /\ UNCHANGED image
  /\ UNCHANGED <<clock, bucket, signedCache, removing, asked, resigned>>

\* The answer: kept and shown, or dropped when nobody waits for it any more.  A
\* component whose request failed shows nothing.
Receive(a) ==
  /\ a \in asks /\ a.at \in {"answered", "failed"} /\ asks' = asks \ {a}
  /\ IF ~a.alive THEN UNCHANGED page
     ELSE /\ urlCache' = IF a.at = "answered" THEN [urlCache EXCEPT ![a.of] = a.url] ELSE urlCache
          /\ IF a.by \in Images
             THEN image' = [image EXCEPT ![a.by].shows = Taken(a.url)] /\ UNCHANGED followed
             ELSE /\ followed' = IF a.at = "answered" THEN Taken(a.url) ELSE followed
                  /\ UNCHANGED image
  /\ UNCHANGED <<clock, bucket, signedCache, removing, asked, resigned>>

-----------------------------------------------------------------------------
(* The server.                                                             *)

AskIs(a, at, url) == asks' = (asks \ {a}) \cup {[a EXCEPT !.at = at, !.url = url, !.since = clock]}

\* Mutant of GetSignedUrl: what is kept is given out until it expires.
GetSignedUrlLate(a) ==
  /\ a \in asks /\ a.at = "sent"
  /\ LET kept == signedCache[a.of] IN
     IF kept # NoUrl /\ kept.says > clock THEN AskIs(a, "answered", kept)
     ELSE IF a.of \in bucket
          THEN AskIs(a, "signing", [of |-> a.of, ends |-> clock + Lifetime, says |-> 0])
          ELSE AskIs(a, "failed", NoUrl)
  /\ UNCHANGED <<clock, bucket, signedCache, removing, asked, page, resigned>>

\* getSignedUrl: from the cache, or signed by the storage if the file is there.
GetSignedUrl(a) ==
  /\ a \in asks /\ a.at = "sent"
  /\ IF FreshUrl(signedCache[a.of]) THEN AskIs(a, "answered", signedCache[a.of])
     ELSE IF a.of \in bucket
          THEN AskIs(a, "signing", [of |-> a.of, ends |-> clock + Lifetime, says |-> 0])
          ELSE AskIs(a, "failed", NoUrl)
  /\ UNCHANGED <<clock, bucket, signedCache, removing, asked, page, resigned>>

\* ... after its await: the hour is counted from now.  A full cache loses what
\* has expired (evictExpired).
KeepSigned(a) ==
  /\ a \in asks /\ a.at = "signing"
  /\ LET url == [a.url EXCEPT !.says = clock + Lifetime] IN
     /\ AskIs(a, "answered", url)
     /\ \E full \in BOOLEAN :
          signedCache' = [f \in Files |->
            IF f = a.of THEN url
            ELSE IF full /\ signedCache[f] # NoUrl /\ signedCache[f].says < clock THEN NoUrl
                 ELSE signedCache[f]]
  /\ UNCHANGED <<clock, bucket, removing, asked, page, resigned>>

\* The storage or the network fails.
AskFails(a) ==
  /\ a \in asks /\ a.at \in {"sent", "signing"} /\ AskIs(a, "failed", NoUrl)
  /\ UNCHANGED <<clock, bucket, signedCache, removing, asked, page, resigned>>

\* deleteFile: the file is removed from the bucket, then from the cache.
DeleteFile(f) ==
  /\ f \in bucket /\ bucket' = bucket \ {f} /\ removing' = removing \cup {f}
  /\ UNCHANGED <<clock, signedCache, asks, asked, page, resigned>>
ForgetFile(f) ==
  /\ f \in removing /\ removing' = removing \ {f}
  /\ signedCache' = [signedCache EXCEPT ![f] = NoUrl]
  /\ resigned' = IF \E a \in asks : a.of = f /\ a.at = "signing" THEN resigned \cup {f} ELSE resigned
  /\ UNCHANGED <<clock, bucket, asks, asked, page>>

\* Time passes, as long as nothing is under way for longer than Delay.
ClockTick ==
  /\ clock < MaxClock /\ \A a \in asks : clock < a.since + Delay
  /\ clock' = clock + 1
  /\ UNCHANGED <<bucket, signedCache, removing, asks, asked, page, resigned>>

UrlNext ==
  \/ \E i \in Images : Hide(i) \/ \E f \in Files : Show(i, f)
  \/ \E f \in Files : ResolveSignedUrl(f) \/ DeleteFile(f) \/ ForgetFile(f)
  \/ \E a \in asks : Receive(a) \/ GetSignedUrl(a) \/ KeepSigned(a) \/ AskFails(a)
  \/ ClockTick

-----------------------------------------------------------------------------
\* A URL still works when it is shown or followed, through two caches that each
\* add their part of the delay to the time it is said to expire.
WorksWhenTaken ==
  \A t \in {image[i].shows : i \in Images} \cup {followed} : t.url # NoUrl => t.at < t.url.ends

\* A component that waits for no answer shows its own file, or nothing.
ShowsOwnFile ==
  \A i \in Images :
    (\A a \in asks : a.by = i => ~a.alive) =>
      image[i].shows.url = NoUrl \/ image[i].shows.url.of = image[i].of

\* The server gives out no URL of a file it has deleted, unless it was being
\* signed at the same time (deleteFile, getSignedUrl).
NoneOfDeleted ==
  \A f \in Files \ (bucket \cup removing \cup resigned) : signedCache[f] = NoUrl

UrlInv == UrlTypeOK /\ WorksWhenTaken /\ ShowsOwnFile /\ NoneOfDeleted

UrlSpec == UrlInit /\ [][UrlNext]_urlVars
=============================================================================
