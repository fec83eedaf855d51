------------------------------ MODULE Reports ------------------------------
(***************************************************************************)
(* Problem reports: the form of a user (ReportModal.tsx), the page of an   *)
(* administrator (admin/reports/page.tsx) and reports.service.ts.  The     *)
(* form uploads its image before it posts the report; closing a report     *)
(* removes the image.  The page fetches its list anew for each filter and  *)
(* changes it in place when a patch is answered; it is the set of what is  *)
(* on it, the order being that of the ids.  REVIEWED and RESOLVED are      *)
(* treated as NEW is; the filter by type is like that by status.           *)
(***************************************************************************)
EXTENDS Naturals, Sequences, FiniteSets

CONSTANTS Take,       \* TAKE: reports on a page
          MaxForms,   \* bound: forms opened
          MaxSubmits, \* bound: submissions
          MaxFetches, \* bound: fetches of the page
          MaxPatches, \* bound: changes, of this and another administrator
          MaxTogether \* bound: forms, submissions, fetches and changes together

ASSUME ReportBounds ==
  {Take, MaxForms, MaxSubmits, MaxFetches, MaxPatches, MaxTogether} \subseteq Nat \ {0}

VARIABLES
  reports,   \* rows: the file of the image or 0, status, adminNote
  images,    \* uploaded images in the bucket, by the submission that brought them
  purges,    \* deleteFile calls not yet done
  form,      \* the form on the screen
  submits,   \* handleSubmit calls at their awaits
  submitted, \* how many there were
  closers,   \* onClose timers not yet fired
  desk,      \* the administrator's page
  fetches,   \* fetchReports calls at their await
  fetched,   \* how many there were
  patches,   \* updateStatus and saveNote calls at their await
  patched,   \* how many changes there were
  closing,   \* history: reports somebody asked to close
  stale      \* history: reports listed as they are known not to be

reportVars == <<reports, images, purges, form, submits, submitted, closers,
                desk, fetches, fetched, patches, patched, closing, stale>>
formVars == <<form, submits, submitted, closers>>
deskVars == <<desk, fetches, fetched, patches, patched, closing, stale>>

Statuses == {"NEW", "CLOSED"}
Notes == 0 .. MaxPatches
ReportIds == 1 .. MaxSubmits
Queries == [status : Statuses \cup {"ALL"}, page : 1 .. MaxSubmits + 1]
Entries == [id : ReportIds, status : Statuses, note : Notes]
Changes == [no : 1 .. MaxPatches, id : ReportIds]
ChangeKinds == [no : 1 .. MaxPatches, id : ReportIds, field : {"status"}, status : Statuses]
                 \cup [no : 1 .. MaxPatches, id : ReportIds, field : {"note"}]
Fetches == [no : 1 .. MaxFetches, query : Queries, got : SUBSET {"list", "total"},
            list : SUBSET Entries, total : 0 .. MaxSubmits, late : SUBSET Changes]
Patches == [no : 1 .. MaxPatches, id : ReportIds, change : ChangeKinds, stored : BOOLEAN,
            late : SUBSET Changes]
Desks == [query : Queries, list : SUBSET Entries, total : 0 .. MaxSubmits, loading : BOOLEAN,
          open : BOOLEAN, shown : Queries, from : 0 .. MaxFetches]
Everything == [status |-> "ALL", page |-> 1]

ReportTypeOK ==
  /\ reports \in Seq([file : 0 .. MaxSubmits, status : Statuses, note : Notes])
  /\ images \subseteq ReportIds /\ purges \subseteq ReportIds
  /\ form \in [open : BOOLEAN, mount : 0 .. MaxForms, image : BOOLEAN,
               busy : BOOLEAN, sent : BOOLEAN]
  /\ submits \subseteq [no : ReportIds, mount : 1 .. MaxForms, file : 0 .. MaxSubmits,
                        at : {"upload", "post", "stored"}]
  /\ submitted \in 0 .. MaxSubmits /\ closers \in 0 .. MaxSubmits
  /\ desk \in Desks /\ fetches \subseteq Fetches /\ patches \subseteq Patches
  /\ fetched \in 0 .. MaxFetches /\ patched \in 0 .. MaxPatches
  /\ closing \subseteq ReportIds /\ stale \subseteq ReportIds

FirstFetch == [no |-> 1, query |-> Everything, got |-> {}, list |-> {}, total |-> 0, late |-> {}]

\* The administrator's page has been opened and fetches its first list.
ReportInit ==
  /\ reports = <<>> /\ images = {} /\ purges = {}
  /\ form = [open |-> FALSE, mount |-> 0, image |-> FALSE, busy |-> FALSE, sent |-> FALSE]
  /\ submits = {} /\ submitted = 0 /\ closers = 0
  /\ desk = [query |-> Everything, list |-> {}, total |-> 0, loading |-> TRUE,
             open |-> TRUE, shown |-> Everything, from |-> 0]
  /\ fetches = {FirstFetch} /\ fetched = 1
  /\ patches = {} /\ patched = 0 /\ closing = {} /\ stale = {}

WithinBounds == form.mount + submitted + fetched + patched < MaxTogether

-----------------------------------------------------------------------------
(* The form.                                                               *)

OpenForm ==
  /\ ~form.open /\ form.mount < MaxForms /\ WithinBounds
  /\ form' = [open |-> TRUE, mount |-> form.mount + 1, image |-> FALSE, busy |-> FALSE, sent |-> FALSE]
  /\ UNCHANGED <<reports, images, purges, submits, submitted, closers, deskVars>>

\* Escape, the cross, or a click beside it; what was submitted goes on.
CloseForm ==
  /\ form.open
  /\ form' = [form EXCEPT !.open = FALSE]
  /\ UNCHANGED <<reports, images, purges, submits, submitted, closers, deskVars>>

\* The timer of a sent report closes the form that is open by then.
CloseTimer ==
  /\ closers > 0
  /\ closers' = closers - 1
  /\ form' = [form EXCEPT !.open = FALSE]
  /\ UNCHANGED <<reports, images, purges, submits, submitted, deskVars>>

\* handleImageSelect and removeImage, also during a submission.
ChooseImage ==
  /\ form.open /\ ~form.sent
  /\ form' = [form EXCEPT !.image = ~@]
  /\ UNCHANGED <<reports, images, purges, submits, submitted, closers, deskVars>>

\* Mutant of Submitted: an image once uploaded is not uploaded again by a retry.
SubmittedAgain ==
  [no |-> submitted + 1, mount |-> form.mount,
   file |-> IF form.image /\ images # {} THEN CHOOSE f \in images : TRUE ELSE 0,
   at |-> IF form.image /\ images = {} THEN "upload" ELSE "post"]

Submitted ==
  [no |-> submitted + 1, mount |-> form.mount, file |-> 0,
   at |-> IF form.image THEN "upload" ELSE "post"]

\* handleSubmit, up to its first await; the button waits for the answer.
Submit ==
  /\ form.open /\ ~form.busy /\ ~form.sent /\ submitted < MaxSubmits /\ WithinBounds
  /\ submits' = submits \cup {Submitted}
  /\ submitted' = submitted + 1
  /\ form' = [form EXCEPT !.busy = TRUE]
  /\ UNCHANGED <<reports, images, purges, closers, deskVars>>

SubmitBecomes(s, new) == submits' = (submits \ {s}) \cup new
OnScreen(s) == form.open /\ form.mount = s.mount

\* The upload ends: stored and answered, stored and not answered, or neither.
UploadEnds(s) ==
  /\ s.at = "upload"
  /\ \/ SubmitBecomes(s, {[s EXCEPT !.at = "post", !.file = s.no]}) /\ images' = images \cup {s.no}
     \/ SubmitBecomes(s, {[s EXCEPT !.at = "post"]}) /\ images' \in {images, images \cup {s.no}}
  /\ UNCHANGED <<reports, purges, form, submitted, closers, deskVars>>

\* ReportsService.create.
CreateReport(s) ==
  /\ s.at = "post"
  /\ reports' = Append(reports, [file |-> s.file, status |-> "NEW", note |-> 0])
  /\ SubmitBecomes(s, {[s EXCEPT !.at = "stored"]})
  /\ UNCHANGED <<images, purges, form, submitted, closers, deskVars>>

\* handleSubmit after the post: thanks for two seconds, or an error to try again.
PostAnswered(s) ==
  /\ s.at = "stored"
  /\ SubmitBecomes(s, {}) /\ closers' = closers + 1
  /\ form' = IF OnScreen(s) THEN [form EXCEPT !.busy = FALSE, !.sent = TRUE] ELSE form
  /\ UNCHANGED <<reports, images, purges, submitted, deskVars>>
SubmitFails(s) ==
  /\ s.at \in {"post", "stored"}
  /\ SubmitBecomes(s, {})
  /\ form' = IF OnScreen(s) THEN [form EXCEPT !.busy = FALSE] ELSE form
  /\ UNCHANGED <<reports, images, purges, submitted, closers, deskVars>>

-----------------------------------------------------------------------------
(* The list of the page.                                                   *)

PageCount(total) == (total + Take - 1) \div Take
Matching(q) == {i \in DOMAIN reports : q.status \in {"ALL", reports[i].status}}
Entry(i) == [id |-> i, status |-> reports[i].status, note |-> reports[i].note]

\* ReportsService.findAll: one page of what matches, newest first.
Newer(i, q) == Cardinality({j \in Matching(q) : i < j})
Found(q) ==
  {Entry(i) : i \in {j \in Matching(q) : (q.page - 1) * Take <= Newer(j, q) /\ Newer(j, q) < q.page * Take}}

\* Mutant of Asks: the effect that fetches does not depend on the query.
AsksNot(q) == desk' = [desk EXCEPT !.query = q] /\ UNCHANGED <<fetches, fetched>>

\* The query is set, and the effect fetches.  (Bound: MaxFetches.)
Asks(q) ==
  /\ fetched < MaxFetches /\ WithinBounds
  /\ desk' = [desk EXCEPT !.query = q, !.loading = TRUE]
  /\ fetches' = fetches \cup {[FirstFetch EXCEPT !.no = fetched + 1, !.query = q]}
  /\ fetched' = fetched + 1

\* A filter, or All; the buttons of the pages, on the total of the last answer.
SetFilter ==
  /\ desk.open
  /\ \E s \in Statuses \cup {"ALL"} :
       LET q == [status |-> s, page |-> 1] IN q # desk.query /\ Asks(q)
  /\ UNCHANGED <<reports, images, purges, formVars, patches, patched, closing, stale>>
SetPage ==
  /\ desk.open /\ PageCount(desk.total) > 1
  /\ \/ desk.query.page > 1 /\ Asks([desk.query EXCEPT !.page = @ - 1])
     \/ desk.query.page < PageCount(desk.total) /\ Asks([desk.query EXCEPT !.page = @ + 1])
  /\ UNCHANGED <<reports, images, purges, formVars, patches, patched, closing, stale>>
Refresh ==
  /\ desk.open /\ ~desk.loading
  /\ Asks(desk.query)
  /\ UNCHANGED <<reports, images, purges, formVars, patches, patched, closing, stale>>

FetchBecomes(f, new) == fetches' = (fetches \ {f}) \cup new

\* findMany and count run in parallel.
ReadReports(f) ==
  /\ "list" \notin f.got
  /\ FetchBecomes(f, {[f EXCEPT !.got = @ \cup {"list"}, !.list = Found(f.query)]})
  /\ UNCHANGED <<reports, images, purges, formVars, desk, fetched, patches, patched, closing, stale>>
CountReports(f) ==
  /\ "total" \notin f.got
  /\ FetchBecomes(f, {[f EXCEPT !.got = @ \cup {"total"}, !.total = Cardinality(Matching(f.query))]})
  /\ UNCHANGED <<reports, images, purges, formVars, desk, fetched, patches, patched, closing, stale>>

\* The changes whose answers will still come.
Awaited == {p.no : p \in {q \in patches : q.stored}}

\* fetchReports after its await, for whichever query it was.
FetchArrives(f) ==
  /\ f.got = {"list", "total"} /\ desk.open
  /\ desk' = [desk EXCEPT !.list = f.list, !.total = f.total, !.loading = FALSE,
                          !.shown = f.query, !.from = f.no]
  /\ FetchBecomes(f, {})
  /\ stale' = {c.id : c \in {d \in f.late : d.no \notin Awaited}}
  /\ UNCHANGED <<reports, images, purges, formVars, fetched, patches, patched, closing>>

\* Its catch leaves for the chat.
FetchFails(f) ==
  /\ desk.open
  /\ desk' = [desk EXCEPT !.open = FALSE, !.loading = FALSE]
  /\ FetchBecomes(f, {})
  /\ UNCHANGED <<reports, images, purges, formVars, fetched, patches, patched, closing, stale>>

-----------------------------------------------------------------------------
(* Changes of a report.                                                    *)

Changed(r, change) ==
  IF change.field = "status" THEN [r EXCEPT !.status = change.status] ELSE [r EXCEPT !.note = change.no]
Listed(id) == {e \in desk.list : e.id = id}
Changing(no) ==
  [no : {no}, id : DOMAIN reports, field : {"status"}, status : Statuses]
  \cup [no : {no}, id : DOMAIN reports, field : {"note"}]

\* updateStatus and saveNote, up to the await: a report of the list shown is
\* given another status, or the text of the editor.
SendPatch ==
  /\ desk.open /\ ~desk.loading /\ patched < MaxPatches /\ WithinBounds
  /\ \E c \in Changing(patched + 1) :
       /\ \E e \in Listed(c.id) : c.field = "status" => e.status # c.status
       /\ patches' = patches \cup {[no |-> c.no, id |-> c.id, change |-> c, stored |-> FALSE, late |-> {}]}
  /\ patched' = patched + 1
  /\ UNCHANGED <<reports, images, purges, formVars, desk, fetches, fetched, closing, stale>>

\* ReportsService.update: to close a report removes its image, before the row is
\* written and whether or not it can be.
Removes(c) == c.field = "status" /\ c.status = "CLOSED"
Purged(c) ==
  /\ purges' = purges \cup {f \in {reports[c.id].file} : Removes(c) /\ f # 0}
  /\ closing' = closing \cup {i \in {c.id} : Removes(c)}
Written(c) == reports' = [reports EXCEPT ![c.id] = Changed(@, c)]

\* What was read before this change, or will be answered after it, is behind.
Behind(c, own) ==
  LET change == [no |-> c.no, id |-> c.id] IN
  /\ fetches' = {[f EXCEPT !.late = @ \cup {x \in {change} : "list" \in f.got}] : f \in fetches}
  /\ patches' = {[p EXCEPT !.late = @ \cup {x \in {change} : p.stored}] : p \in patches \ own}
                 \cup {[p EXCEPT !.stored = TRUE] : p \in own}

UpdateReport(p) ==
  /\ ~p.stored
  /\ Purged(p.change) /\ Written(p.change)
  /\ Behind(p.change, {p})
  /\ UNCHANGED <<images, formVars, desk, fetched, patched, stale>>

\* The report may be gone or the row not written; the image is asked for all the same.
UpdateFails(p) ==
  /\ ~p.stored
  /\ patches' = patches \ {p}
  /\ \/ Purged(p.change)
     \/ UNCHANGED <<purges, closing>>
  /\ UNCHANGED <<reports, images, formVars, desk, fetches, fetched, patched, stale>>

\* deleteFile, whose failure is ignored.
Purge ==
  /\ \E f \in purges : purges' = purges \ {f} /\ images' \in {images, images \ {f}}
  /\ UNCHANGED <<reports, formVars, deskVars>>

\* The answer changes the list in place, as it was asked to.
PatchAnswered(p) ==
  /\ p.stored
  /\ desk' = [desk EXCEPT !.list = (@ \ Listed(p.id)) \cup {Changed(e, p.change) : e \in Listed(p.id)}]
  /\ patches' = patches \ {p}
  /\ stale' = stale \cup {c.id : c \in {d \in p.late : d.id = p.id /\ d.no \notin Awaited}}
  /\ UNCHANGED <<reports, images, purges, formVars, fetches, fetched, patched, closing>>

\* The answer is lost: nothing catches the error, and the list stays as it was.
PatchLost(p) ==
  /\ p.stored
  /\ patches' = patches \ {p}
  /\ stale' = stale \cup {p.id}
  /\ UNCHANGED <<reports, images, purges, formVars, desk, fetches, fetched, patched, closing>>

\* Another administrator changes a report.
OtherAdmin ==
  /\ patched < MaxPatches /\ WithinBounds
  /\ \E c \in Changing(patched + 1) :
       Purged(c) /\ Written(c) /\ Behind(c, {}) /\ stale' = stale \cup {c.id}
  /\ patched' = patched + 1
  /\ UNCHANGED <<images, formVars, desk, fetched>>

-----------------------------------------------------------------------------
ReportNext ==
  \/ OpenForm \/ CloseForm \/ CloseTimer \/ ChooseImage \/ Submit
  \/ \E s \in submits : UploadEnds(s) \/ CreateReport(s) \/ PostAnswered(s) \/ SubmitFails(s)
  \/ SetFilter \/ SetPage \/ Refresh
  \/ \E f \in fetches : ReadReports(f) \/ CountReports(f) \/ FetchArrives(f) \/ FetchFails(f)
  \/ SendPatch \/ Purge \/ OtherAdmin
  \/ \E p \in patches : UpdateReport(p) \/ UpdateFails(p) \/ PatchAnswered(p) \/ PatchLost(p)

ReportSpec == ReportInit /\ [][ReportNext]_reportVars

-----------------------------------------------------------------------------
(* Properties.                                                             *)

\* A report keeps its screenshot until somebody closes that report, whatever is
\* retried by its author and whichever other report is closed
\* (handleSubmit; ReportsService.update).
ScreenshotKept ==
  \A i \in DOMAIN reports : reports[i].file # 0 /\ i \notin closing => reports[i].file \in images

\* With nothing awaited, the page that shows the answer of its last fetch shows it
\* for the filter and the page chosen, and each report as it is stored, unless it
\* was changed elsewhere, or answers were lost or overtook each other
\* (fetchReports and its effect; updateStatus, saveNote).
ListRight ==
  desk.open /\ fetches = {} /\ patches = {} /\ desk.from = fetched =>
    /\ desk.shown = desk.query
    /\ \A e \in desk.list : e.id \notin stale => e = Entry(e.id)

ReportInv == ReportTypeOK /\ ScreenshotKept /\ ListRight
=============================================================================
