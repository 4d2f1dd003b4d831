# PriveoPDF in TLA+

PriveoPDF is a desktop application (Python, Qt) that reads and transforms PDF files without
sending them anywhere. Everything that touches the content of a PDF happens in a worker
process of its own, without network and with limits; the application publishes what the
worker made, and only that, under the names the user chose.

This directory models the program where several actors meet, or where two layers must agree
on the same data: the supervisor and other programs in the output folder, the GUI thread,
the threads of jobs and the worker processes, a page of the window and the file under it,
the settings on screen and the job made of them, the brokers and the application. TLC checks
the models on small instances; TLAPS proves most of the safety properties for every value of
the constants.

Paths are relative to `src/src/priveopdf/`. `PROJECT.json` has, for every definition that
stands for code, the lines it stands for; for every component what of it is modelled; for
every hazard the properties that would catch it.

## The system

| component | state it keeps | operations | what is hard |
|---|---|---|---|
| publication of new outputs (`workers/process_supervisor.py`, `utils/secure_paths.py`) | the list of what was published, private temporaries, open descriptors | copy, link, verify, withdraw, roll back | no call publishes several files at once; others use the folder; crash, cancellation and errors between any two calls |
| replacement of a source (same files) | a snapshot of the source's stat fields | check, write, check again, rename | the source is edited meanwhile; a rename cannot be undone |
| isolated jobs (`workers/process_supervisor.py`, `job_runner.py`, `pdf_protocol.py`, `domain/jobs.py`) | the active process, the cancellation event, a thread per job, two pipes, a pending result | build, start, cancel, close, exchange, terminate, deliver | two threads end one process; each pipe may be full; late answers; three layers check one request |
| engine and copies (`engine/`) | an open source, a candidate | copy pages with their layers, transform whole documents, verify | what the libraries build may be wrong; the source is written meanwhile |
| inspection (`engine/share_inspection.py`, `document_inspection.py`) | a walk through the objects, budgets | visit, count, give up | limits and circles; absence claimed of what was not looked at |
| open document (`ui/document_workspace.py`, `ui/components/isolated_pdf_view.py`, `workers/render_client.py`, `render_worker.py`) | a generation per opening, a serial per request, caches, search, selection, zoom | open, close, render, search, select, copy | answers of an earlier opening, of other words, of another drag |
| thumbnails (`ui/components/page_thumbnails.py`) | a queue with priorities, slots, a bounded cache, a list | open, scroll, draw, evict | answers in any order, cache against list, slots that never come back |
| sessions (`ui/workspace_state.py`) | up to five sessions of up to a hundred documents, one selection each | add, select, remove | two names of one file, invariants over long sequences |
| window (`ui/main_window.py`, `ui/controllers/`) | the page shown, the input of each tool, its result | navigate, drop, open, remove, run | selection, reader and tools must agree while jobs run |
| tool pages (`ui/tool_pages/`, `ui/components/source_check.py`) | source, count, preview, settings, result | set the source, count, preview, confirm, start | files are saved, lists change and documents are switched under a count, a preview, a question or a job |
| metadata cache (`ui/metadata_cache.py`) | counts and inspections by fingerprint | look up, store, forget | two threads store; files change under a fingerprint |
| memory of documents (`app/settings.py`, `app/workspace_session.py`) | the consent and the stored sessions, in memory and on disk | save, write, withdraw, restore | delayed writes, crashes, files that moved |
| update checks (`ui/controllers/update_controller.py`, `workers/update_runner.py`) | one runner, one check pending, one queued, modal dialogs | check, confirm, queue, answer, offer | a queued check and an idle signal that comes one event late; event loops inside event loops |
| network broker and opener (`app/network_broker.py`, `release_opener.py`) | one verified release, a request and a status file | check, open | three processes, each waiting a limited time for the next |
| start-up (`app/bootstrap.py`, `instance_lock.py`, `ui/controllers/startup_coordinator.py`) | a lock, a classification thread, delayed steps | classify, show, ask, end | everything waits for something that may never come |
| render memory broker (`workers/render_memory_broker.py`) | scopes of drawing workers | grant, refuse, forget | budgets of the dead, a limit not in force |
| corpus qualification (`quality/corpus_testing.py`, `pdf_oracles.py`) | cases, verdicts | run, judge, report | a verdict better or worse than the output |
| confinement command lines, diagnostics, theme, texts | | | not modelled |

How they interact: a tool page takes the selected document of the window, has its pages
counted by a query in a thread of its own through the metadata cache, and starts a job
through its runner. The runner's thread calls the supervisor, which stages the request,
spawns the worker, talks to it through two pipes, and publishes what it made; the result
comes back as a queued event. A worker that draws asks the memory broker for its budget
first. The window adds a produced file to the sessions and shows it in the reader, whose
view asks render workers for pages, boxes of text and matches. Every operation on the
sessions saves them to the settings.

## Modules

A composition (MC module) runs one part per behaviour: its parts share no state, so one TLC
run checks them all for the cost of the sum, and a theorem about the composition is one
about the part. Two of the compositions are composed once more for the runs, `MCApplication`
of `MCPublication` and `MCWindow`, `MCDocumentTools` of `MCToolPages` and `MCPageTools`:
while a part of the one is at work the other is at rest (`"none"` at work), so that a
behaviour is one of each of the two, and their theorems are theorems of it.

| module | models | in |
|---|---|---|
| `OutputSet` | abstract: what a job promises about the set of files it creates | `MCPublication`, `MCApplication` |
| `OutputPublication` | the publication of N outputs, one action per system call; implements `OutputSet` | `MCPublication`, `MCApplication` |
| `LayeredPages` | pages copied between documents with the visibility of their layers | `MCPublication`, `MCApplication` |
| `VerifiedCopies` | the eight whole-document transformations and the verification of each | `MCPublication`, `MCApplication` |
| `FileInspection` | the bounded walk through the objects of a file and the look at its first pages | `MCPublication`, `MCApplication` |
| `RenderMemory` | the broker of memory scopes for workers that draw | `MCPublication`, `MCApplication` |
| `CorpusRun` | a qualification run: selection, cases, oracles, verdicts, exit code | `MCPublication`, `MCApplication` |
| `SourceReplacement` | a job whose output replaces its own source | `MCToolPages`, `MCDocumentTools` |
| `MergeList` | the list of Merge, its preloads, removals and counts | `MCToolPages`, `MCDocumentTools` |
| `SharePage` | Check before sharing: inspections, previews, questions, jobs | `MCToolPages`, `MCDocumentTools` |
| `ViewerTools` | redact and watermark: pages on screen, a choice for signed files, jobs | `MCToolPages`, `MCDocumentTools` |
| `FormTools` | compress, protect, unlock, OCR | `MCToolPages`, `MCDocumentTools` |
| `RotatePages` | the angle, the pages it applies to and the preview | `MCToolPages`, `MCDocumentTools` |
| `InsertPages` | two sources, each counted in a thread, and a place | `MCToolPages`, `MCDocumentTools` |
| `CountedSources` | the source of a page tool, its count, and the metadata cache it shares | `MCPageTools` |
| `PagePlans` | split, extract, remove: from the settings to the files of the job | `MCPageTools`, `MCDocumentTools` |
| `IsolatedJob` | a runner, its thread, the exchange, the worker process | `MCIsolatedJob` |
| `WorkerExchange` | what goes through the pipes of one job and what is made of it | `MCIsolatedJob` |
| `JobRequests` | a request from the page to the worker, and the answer back | `MCIsolatedJob` |
| `DocumentViewer` | the open document, its requests and its inspection | `MCViewer` |
| `ReaderView`, `ReaderSearch`, `ReaderSelection`, `TextLayouts` | pages and zoom; search; selection and copying; boxes, carets and highlight | `MCViewer` |
| `RenderAnswers` | the limits of the two sides of one request of the reader | `MCViewer` |
| `Thumbnails` | the miniatures: queue, slots, cache, list | |
| `WorkspaceState` | the operations on sessions, as operators on one record | |
| `OpenDocuments` | the window over the sessions: page, reader, tools, jobs | `MCOpenDocuments` |
| `SessionMemory` | settings in memory and on disk over several starts | `MCOpenDocuments` |
| `UpdateChecks` | the runner of update checks, its controller, the dialogs | `MCWindow`, `MCApplication` |
| `StartUp` | lock, classification, delayed steps, first dialogs | `MCWindow`, `MCApplication` |
| `ReleasePages` | window, broker and opener of release pages | `MCWindow`, `MCApplication` |

Proofs are in `OutputPublicationProofs` (publication, memory budgets, copies of whole
documents, pages of results), `IsolatedJobProofs`, `ThumbnailsProofs`, and at the end of the
compositions `MCToolPages` (replacement and the pages), `MCPageTools`, `MCViewer`,
`MCOpenDocuments` and `MCWindow`.

`IsolatedJob` has the publication as two steps (everything is in place, then the last look
at the cancellation) and the exchange as one; `OutputPublication`, `SourceReplacement` and
`WorkerExchange` open them up. `OpenDocuments` has a job as start and end; `IsolatedJob`
opens it up. The pages have a count, a preview or a job as start and end too.

Some definitions are followed or preceded by one that nothing uses and that differs in one
thing (`RemoveOpenDocumentAnyway` beside `RemoveOpenDocument`): the mutants, the definition
as a slip of the hand would have left it. `PROJECT.json` pairs each with the property it
breaks.

### How state and actions correspond to the code

- `OutputPublication`: `pc` is the next system call for the output after the `kept` ones.
  `entry[i]` is what the i-th planned name leads to: nothing, the job's file, someone
  else's. The steps follow `atomic_write_no_replace_tracked`; `Withdraw...` is the `finally`
  of the writer, `Rollback...` the `except` of the supervisor. Any call of the writer or of
  an undoing may fail, the stat that an undoing compares included (`ioError`); so may the
  closing of the candidate and the removal of the private directory after the last look
  (`late`). Others act between any two calls. `overtaken` records that they got between the
  identity check of an undo and its unlink: no system call closes that window, and there the
  code removes what it finds. The output folder itself is not renamed.
- `SourceReplacement`: versions of the source are numbered; `snapshot` is the version whose
  stat fields were kept, `madeFrom` the one the worker read, `lost` what the rename made
  unreachable. After the rename the descriptors are closed and the private directory is
  removed; each may fail, or the process end, with the source replaced (`late`).
- `IsolatedJob`: the GUI thread (`gui`) and the runner's thread (`pc`) share the
  cancellation event, the active process and its termination (`ending`, one program counter
  each). `events` is the queue of the GUI thread. A job publishes and catches every
  exception; a query only answers, and an error of the file system leaves its slot
  (`Escaped`). The worker exits with anything, or hangs. The waits that the code limits give
  up: the one for a process that was sent SIGKILL (`TerminateGivesUp`) and, at the close,
  the one for the thread (`ShutdownGivesUp`; the window is then closed `overdue`).
- `WorkerExchange`: pipes carry tokens (marks of progress, halves of an answer, line ends)
  in a bounded number; the worker follows a conduct chosen by TLC.
- `JobRequests`: `domain/jobs.py`, the staging and the protocol, each with its own checks.
- `LayeredPages`: documents are graphs of objects; one action per object of the walk.
- `VerifiedCopies`: a slip is one thing gone wrong in the building of a candidate; the
  source may be saved or replaced at every step.
- `DocumentViewer`: an opening is a generation of `RemotePdfDocument`; a request is a serial
  number in the pool's queue, in a thread, or answered.
- `Thumbnails`: a request is named by its opening and page; all pictures weigh the same.
- The pages (`MergeList`, `SharePage`, `ViewerTools`, `FormTools`, `RotatePages`,
  `InsertPages`, `CountedSources`): the page is a record, a handler that calls another is a
  composition of operators on it, and files have numbered versions that other programs
  replace.
- `WorkspaceState`, `OpenDocuments`: a path is a pair of a file and a spelling; sessions
  compare files and show spellings. One action per handler, with all it calls. Form tools
  refuse an input while they run, page tools take it. `asked` records the file the last
  gesture asked to see.
- `SessionMemory`: `mem` is what the window's QSettings holds, `dirty` the keys it has
  changed since it last wrote. A crash loses `mem`. The preferences give the consent and, in
  the same handler, store the sessions: both then wait for one delayed write. That write
  puts the file in place as a whole, as the INI format of QSettings does on Linux (a file
  written aside and renamed), so the two keys reach the disk together or not at all.
- `UpdateChecks`: `phase` is the runner and its thread; `dialogs` are modal, each in an
  event loop of its own. In this snapshot the source updater is a stub and only the frozen
  build asks the network; both are inputs of the model.
- `ReleasePages`: `queue` is the broker's socket, the request and the status are files.
- `RenderMemory`: systemd and the kernel are external: a scope is asked, enforced, stopped.
- `CorpusRun`: the engine is nondeterministic; what a good output is comes from
  `LayeredPages`, never from the plan of the oracle. Photocopy, redaction, watermark and
  text recognition have oracles of their own that look at some things only (`Verifies`): a
  photocopy is compared pixel for pixel, a watermarked page is searched for its mark.
- `ReaderView`: heights of pages are cut at the largest one (`Tallest`), and a match is
  scrolled to as if the page were whole, as in the code.
- `TextLayouts`: pages of several lines, of one line and of single boxes, turned by every
  quarter.
- `RenderAnswers`: texts with boxes of no width and boxes longer than the reader takes,
  points of a selection within the largest page and beyond.

## Runs

| run | instance | states | shows |
|---|---|---|---|
| `application` | 3 outputs; small documents with layers; 3 drawers and 2 places; 8 corpus files; small files to inspect; 4 inputs of the update checks; launches with up to 3 files; 4 requests to the broker | 586,293 | all of the files or none, nothing of others touched, the abstract promise, the end of it; pages and layers as asked, true copies; a budget or no drawing; deserved verdicts; true inspections; one look per confirmation, answers to every confirmed check, one start, true answers about releases |
| `document_tools` | 2 files, up to 2 versions each, 3 edits of a source; half a turn is a full one; plans for 1 or 2 pages, up to 3 groups | 711,122 | what is replaced, merged, checked, photographed, marked, protected or inserted is what was treated, confirmed and shown; page and engine accept the same plans, results are of the settings |
| `jobs_and_queries` | 2 jobs one after the other, of either kind; pipes of 2 and 4 pieces; requests of every operation | 182,340 | accepted cancellations, worker gone first, true results, only announced files, the request read as asked, an end for every job |
| `viewer` | 2 files, 2 threads, 4 requests; 3 words, 3 searches; 2 openings, 3 selection requests, 1 layout kept | 319,652 | nothing stale shown, found, copied; the page number and the caret are where the reader says; opening ends |
| `open_working` | 2 sessions of 2 documents, a form tool and a page tool; 1 window, 2 files and a link, 2 stored documents, 2 operations between writes | 858,428 | reader and selection agree, busy files stay listed; consent, restoring |
| `thumbnails` | 1 or 3 pages, room for 2 pictures, 2 slots, strips and a grid | 240,776 | no picture of another document, list, cache and slots agree, requests are settled |
| `tool_sources` | 2 files of 2 versions, 1 entry in the cache | 662,029 | true cache entries, counts of the input, every source counted in the end |
| `share_return`, `unsigned_choice`, `query_end`, `search_while_loading`, `manual_check` | one part each, as small as shows it | | violations, see findings |

Each run ends within three minutes on two cores, and the longest takes that long
(`tool_sources`, for its liveness).

Why the bounds are enough. Three outputs are the least with a first, a middle and a last
one, so that a rollback has something before and after it. Two jobs are a job and one after
it, for what the first leaves behind. Pipes with room for two pieces and messages of three
are the least that block both ends. Four requests of the reader are two openings with two
requests, or one with three; three words are two and the empty one. A layout kept and two
pages with text are the least where one is dropped while a drag goes on. Two sessions of two
documents are the least in which removing the selection passes it on, a session is full and
a file is listed twice; the code's limits, five and a hundred, change nothing but where
"full" is. Two stored documents of at most four make the size limit bite, and two operations
between writes leave the consent and the sessions it lets be stored unwritten together.
Three drawers with room for two make one wait. A plan for two pages in up to three groups
takes a page twice, leaves a group empty and reaches the limit of the groups. Two files with
two versions are the least where both the identity and the content of a source change under
a page, and a cache of one entry is always full. Three pages with room for two pictures make
one leave the cache while another is on its way. `MaxUnsaved` bounds the operations between
two delayed writes, `MaxSerial`, `MaxSearches`, `MaxRequests` and `MaxOpenings` the
requests, `MaxEdits` the edits, `MaxStarts` the jobs, `MaxInputs` what the user asks of the
update checks: four are a check, its options and consent, and a second check over it. The
theorems remove these bounds for the properties they state. Deadlock checking is off where
the system may stop: a job is over, the window is closed, or a bound is reached.

What the properties leave out. Where the code does what no property could hold against it,
the property says so in its comment and the case is in the model:
- FailureLeavesNoneOrAll: after a refused stat or removal some outputs may stay; after a
  failure that follows the last look all of them stay.
- ReplacementIsSafe: a failure after the rename is told of a source that was replaced.
- EveryJobEnds: a query that an exception leaves (`query_end` is about it).
- SearchIsOfTheField: words typed during a loading (`search_while_loading`).
- ManualIsAnswered: the answer of an automatic check counts (`manual_check`).
- NothingStoredWithoutConsent: one application at a time in the run and in the theorem; of
  two it does not hold (see what was seen while modelling).
- ReaderTellsWhatItShows: a match on a page that is cut at the largest height; a turned page
  of one line, or of lines of one box, whose direction nothing tells (between places level
  with a single line it holds); boxes and points the other side refuses.
- VerdictIsDeserved: right as far as the oracle of the operation looks, which for each is
  what the code compares (`SameMarks`, `SameRecognised`, `Blind`).
- ShownAndKept, AnswersAreTrue: a file two sessions list, an opener that was late.

The type invariants of the modules are in no run. They are proved for publication,
replacement, counted sources, update checks, sessions and thumbnails; TLC was given the
others (`IsolatedJob`, `DocumentViewer`, `SessionMemory`, `PagePlans`, `FormTools`) once, on
the same instances, and they hold.

### Fairness

- `OutputPublication`: weak fairness of the supervisor, a thread that runs until it returns.
  Nothing is assumed of others.
- `IsolatedJob`: the thread of the runner and the GUI thread are scheduled (weak); an event
  in the queue is delivered even when the user keeps clicking (strong fairness of
  `HandleEvent`); the clock passes the deadline; a process that was sent SIGKILL ends,
  though perhaps after the waits for it have given up. The worker itself is never assumed to
  answer or to end: that is what the deadline is for.
- `WorkerExchange`: the supervisor reads and writes while it can, the deadline comes; the
  worker makes its moves until it hangs, and its conduct may be to hang at once.
- `DocumentViewer`: a request that has a thread returns (its worker has a deadline, see
  `IsolatedJob`), waiting ones get free threads, queued answers are delivered, an inspection
  ends.
- `CountedSources`: a count ends and its answer is delivered.
- `Thumbnails`: a picture being drawn comes back and its answer is delivered, while the user
  does not scroll: with new pages in view for ever a page out of view may wait for ever.
- `UpdateChecks`: the request of a check has a timeout, queued events are delivered, also in
  the event loop of a dialog.
- `OpenDocuments`, `SessionMemory`, the pages, the engine: safety only.

The user never owes anything: dialogs may stay open and no button need be pressed. In the
compositions each fairness condition is that of the part, for the part at work.

## What is proved

For every value of the constants that satisfies the named assumptions, and no other
hypothesis. Each theorem rests on an inductive invariant of the part it is about; none of
the properties is inductive by itself, and the strengthening is what explains why the code
works.

Publication (`OutputPublicationProofs`), any number of outputs: FailureLeavesNoneOrAll,
ForeignUntouched, and KeepsPromise, the refinement of `OutputSet`. The first needs to know,
at every step, which outputs may have their name: those on the list and, from its link to
the end of its withdrawal, the current one (`TrackedInv`). That a success means all of them
needs the converse for undisturbed runs (`PlacedInv`), and ForeignUntouched that the
identity check still holds at the unlink unless overtaken (`WindowInv`). In the refinement
the link is Appear, an effective unlink is Withdraw, a refused stat or unlink Refuse,
tampering Disturb, an error after the last look FailLate, and everything else stutters.

Memory budgets (same module), any number of drawers: BudgetOrNothing, from which scopes the
broker, the manager and the kernel agree upon at each moment (`BudgetInv`).

Copies of whole documents (same module), any documents, jobs, areas, scales and limits,
whatever goes wrong in the building and whenever the source is written: CopiesAreTrue. The
invariant (`CopiesInv`) says at each step of a job what its copy was made of: what the slip
makes of the document and the job, of versions no earlier than the one that was shown; what
each look has established of it; and that a job that has failed has either made nothing or
will remove it. That what was verified is true takes one lemma per operation, each ruling
out the slips its verification can see. For a redaction that is arithmetic. The boxes are
blacked out in pixels with a margin and looked for again as fractions of the page that was
written, without one: a pixel that an area touches is among those blacked out and among
those looked at (TouchedIs, HiddenWhere), so what is right is never refused; and when areas
taken at the wrong scale of the page are found black all the same, none of them was more
than a pixel away, so nothing far from every area is lost (NearEnough, NoneFarAway). This
needs the margin to be the one pixel it is in the code (`PixelsAssumption`).

Pages of results (same module), any documents, however their objects refer to one another,
any operation and any budgets of the walk: PagesAreTrue. While an operation is carried out
the calls of `_copy_pages` that are left are the rest of those it consists of
(TheRestIsTodo), and the outputs hold the pages of those behind, each at its place
(BehindIsMade), with the layers that these pages show and no others (LayersAreMade). The
last is not inductive without the walk (LayersAreSought): there is a set of objects it has
met that holds every reference of an opened object and of the pages looked at unless it
still waits on the stack, and nothing that these pages do not reach; when the stack is empty
this set is what they reach, objects on circles included. What is reached is the last of a
chain of sets, each a step wider, that must stop growing before the objects run out
(ReachedIs). The lists that folds make (unique objects, the pages that remain) are proved
from one step to the next (StepByStep): a set of numbers has a least one, and no first step
is wrong.

Replacement (`MCToolPages`), any number of edits: ReplacementIsSafe. After the second check
source, snapshot and the version the worker read agree, unless overtaken (`VersionInv`);
others only save versions that did not exist, so that a difference stays one. That the
report agrees with the file needs to know at which steps the source is replaced already, and
that an error there is the only way to fail from them.

Tool pages (same module), any files, versions and settings:
- Merge: `takenOff`, what the user said, is within `removed`, what the page remembers; the
  length of the list and the places of its counts agree (lemmas PlacesAreTaken, WhatIsLeft).
- Check before sharing: what the report, the question and the job are of, each related to
  the source of the page (Reporting, AskingInv, JobInv).
- Redact and watermark: between the identity the page took and the file on disk lies the
  version on the screen, and the picture is of none other.
- Rotate: the preview is the page turned by the angle of the moment it is asked for, and is
  withdrawn by every change until the next one (Pictured).
- Forms: what is on the page belongs to its document (Belonging), and nothing covers what a
  running job was made of (FormJobInv).
- Insert: the pages chosen are within the count of the second source and the position within
  that of the first, each count being of the source on the page (SideFits).

Jobs (`IsolatedJobProofs`), any number of jobs, any kinds, works of the worker, sizes of the
pipes and requests:
- WorkerGoneFirst, AcceptedCancelNeverSucceeds: a wait that gives up leaves a process that
  was sent SIGKILL, whose answer nobody reads; a cancellation stays visible until the
  exchange has been released (CancelSeen), decisions come after the end of the worker
  (DecidedLate), the worker runs only between its start and the end of the waiting
  (WorkerInside), the queue holds the events of one job in order (QueueInOrder).
- DeliveredIsTrue: what is told was decided after what was done (TruthInv).
- OnlyTheAnnouncedFiles: `ExchangeInv` relates what the supervisor has made of the text,
  what it has read, what is in the pipe and what the worker has left to say.
- JobsAreUnderstood, in two halves. A worker that does its work is believed: supervisor,
  pipe and worker hold, one after the other, one text (Hearing), and reading n marks and
  what follows them is reading the text (Readings, by induction on the number of marks). A
  request arrives as asked: page, job with defaults, job of real files, job for the worker,
  bytes, job decoded are related step by step (RequestIsKept, SoundIsCarried, CompleteStays,
  WorkerFindsAJob, PartsAreCounted).

Reader (`MCViewer`), any documents, words, boxes and number of openings:
OnlyThePresentDocumentIsShown (answers carry the generation of their opening, which only
grows), SearchIsOfTheField (searches are numbered and the words of the view follow the
field, FinderInv), CopiedIsSelected (selection requests are numbered and the span on screen
was drawn since the last press, SelectionInv).

Sessions (`MCOpenDocuments`), any files, tools and limits: SessionsAreWellFormed (each
session has its own identifier, lists a file once, and has one of its documents selected
whenever it has any), ShownAndKept (a running form tool holds the file it works on,
DocumentsInv), with a lemma for each operator of `WorkspaceState`: what it keeps, that a
fresh identifier exists (by counting), and what the fold of `add_documents` does, step by
step. NothingStoredWithoutConsent for one application: what is on disk and what is in memory
differ only in keys marked dirty, and sessions are dirty or stored with the consent only,
which waits for the same write if it waits (MemoryInv). RestoredAsClosed for one
application: its sessions are well formed and, once it is closed with the consent, the file
has what is stored of its last ones (RememberedInv, strengthened by: every list in the file
or in memory was stored from well-formed sessions). The lemmas under it follow the two
conversions: with few documents nothing is cut (RoomForAll), and the walk over a stored list
keeps, in order, the first name of each file that is there (KeptIs, by the step
OneMoreKept), so what is restored is well formed again (RestoredSessionIs).

Counted sources (`MCPageTools`), any files, versions and entries: CacheTellsTheTruth
(versions only grow, so a signature read twice with the same answer was that of one version,
Between) and CountIsOfTheInput.

Plans (same module), any page counts, texts and limits of the outputs: PlansAreCarriedOut
and ResultIsOfTheSettings. A plan the page accepts is sound (SoundPlan: pages of the source,
no empty output, outputs apart where they were dragged or cut, something left by a removal),
by a lemma for each way to make one; the lemmas under them say what the code computes: a set
of pages listed in order is listed whole (InOrderLists), a range is known by its ends,
cutting every n pages keeps each page once and in order (EveryNCutsInOrder), an empty output
changes nothing. The running job and the result on screen have a sound plan, which is the
one the settings give unless the source was given anew or a change was not heard of
(PlansInv).

Window (`MCWindow`): SourceCheckedOncePerConsent and that at most one installer starts, any
number of inputs (no authorization outlives the call it was given for; a queued check has a
confirmation that no check has used; an installer that was launched has closed the window);
StartsOnce, any files and settings (what the timer, the classification and the dialog have
each done, WaitsOnceInv, ClassifiedInv, ShownInv); AnswersAreTrue, any number of requests
and any releases (QueueInv, ChecksInv, ExpectedInv, and what is in the two files as long as
the opener was not late).

Thumbnails (`ThumbnailsProofs`), any page counts, capacity and slots:
PicturesAreOfThisOpening and CacheAndSlotsAgree. Every slot taken has a task or an answer of
this opening, tasks of earlier ones hold none (TasksInv, AwaitingInv); the queue, the cache
and the list hold each page once, which bounds them (an injection of pages into places).

Assumptions are those on the constants, named in each module and evaluated by TLC in the
runs: `ToolConstants` of `MCToolPages`; `WorksAssumption`, `PipesAssumption`,
`RequestsAssumption`, `LimitsAssumption` of `MCIsolatedJob`; `WordsAssumption`,
`BoundsAssumption` of `MCViewer`; `PlansAssumption` of `MCPageTools`; `BudgetsAssumption`,
`PixelsAssumption`, `CopiesAssumption`, `PagesAssumption` of `MCPublication`;
`StartAssumption`, `ReleasesAssumption` of `MCWindow`; `PagesAssumption`,
`LimitsAssumption`, `OpeningsAssumption`, `LayoutsAssumption` of `Thumbnails`;
`LimitsAssumption` of `WorkspaceState`; `ToolsAssumption`, `PathsAssumption` of
`OpenDocuments`; and those of the modules of single components.

### Only model-checked

- Liveness: PublicationEnds, EveryJobEnds, OpeningEnds, ManualIsAnswered,
  RequestsAreSettled, EverySourceIsCounted. The prover has no rule for fairness.
- SaysWhatIsThere: what a walk through a document with circles and limits counts, before and
  after a limit is reached, is summed with folds over any document.
- ReaderTellsWhatItShows: which box is under a pixel, on pages of given boxes.
- VerdictIsDeserved: it compares the pages the engine makes with those the oracle expects,
  two lists that folds and recursive functions make of any document: an induction over data.

## Findings

- `share_return`: the guide says that returning to Check before sharing starts the
  inspection again. Left while a preview is made, and shown again before the cancelled job
  has ended, the page inspects nothing, and nothing gives it its source again until the
  window is refreshed (`ui/tool_pages/share_pdf_page.py:245`).
- `unsigned_choice`: the choice of an unsigned copy is never carried over to another file,
  says `ui/components/source_check.py:293`. It is: a signed file that was checked before is
  not counted again, so the tick made for another stays (line 291).
- `query_end`: without a last boundary "`finished` is never emitted and the tool stays in
  progress", says `job_runner.py:57` of the worker of jobs. The workers of queries catch
  ProcessSupervisorError only (line 136): one whose private directory cannot be made or
  removed emits nothing, and its runner stays running.
- `search_while_loading`: "an open search follows the newly loaded document"
  (`isolated_pdf_view.py:266`). Words typed while it loads are dropped by `search` (line
  448), and are not searched when it is ready.
- `manual_check`: a manual check confirmed during an automatic one waits for its end and
  runs its own, the automatic result is not reused (`docs/privacy.md:54`). A preference
  applied just before the idle signal starts another automatic check; the queued manual one
  raises "an update check is already running" after it was marked pending
  (`update_controller.py:203`, `update_runner.py:63`), and is answered by the automatic
  result (line 223).

### Seen while modelling, without a run

Each of these was met while a definition was translated, and is in the model as the code has
it (or is said below to be left out).

Window and sessions
- A dropped PDF that is already listed but not selected does not become the source of the
  tool (`ui/main_window.py:758`; the guide, `docs/wiki/en/getting-started.md:32`, says it
  does).
- A page tool opened again during its job takes the new selection
  (`navigation_controller.py:57`, `main_window.py:853`), so the result is shown beside other
  settings, against the comments of `rotate_pdf_page.py:511` and
  `insert_pdf_pages_page.py:404`. The list of busy documents then names the wrong file.
- A file that an earlier session lists too is opened from the launcher or a result without
  being shown (`main_window.py:792` looks in every session, the selection is made in the
  active one).
- Deleting a session does not ask whether its documents are busy. Documents missing at a
  start are forgotten by the next save.
- Two applications over one settings file: the consent is asked of the QSettings object when
  the sessions change, so the delayed write of one puts the paths back into the file after
  the other withdrew the consent (`app/settings.py:234`), against `docs/privacy.md:17`.


Jobs
- A job whose private directory cannot be removed is reported failed with its outputs in
  place, or with its source replaced; so is a replacement whose closing fails after the
  rename. An output whose identity cannot be asked during a rollback stays. A split into
  more than 1024 files ends in worker_protocol_error after the work. A descendant that holds
  the stdout of the worker makes the exchange wait to the deadline and is not signalled.
- Path names are checked before links are followed: a link with a plain name to a file whose
  name has a line end ends in worker_protocol_error although `process_supervisor.py:1115`
  means to refuse it; the names of outputs are not checked there. A merge of more than 256
  inputs is refused by the worker only (as a crash). A replacement whose source is a
  symbolic link is refused as a dangerous output.

Reader
- A text box thinner than 0.005 pt passes the worker's filter, is rounded to 0 and makes the
  client refuse the text of its page, or the whole search; one box beyond 100,000 does the
  same.
- The zoom kept for the end of the reading mode is clamped by a limit that the mode's own
  fit may have lowered; another document opened meanwhile gets the opening zoom and leaving
  gives it the earlier document's (`document_workspace.py:104`).
- Enter does not retry a failed search. A page longer than 100,000 pixels is cut there, and
  a match below the cut is scrolled to where it would be. On a turned page with one line
  nothing tells which side is above the line: a drag from beside it starts at the wrong end.
- A copy asked for while the answer of its selection fails empties the clipboard, and a
  later one stays pending. A double click released on its anchor leaves the earlier text
  copyable with nothing highlighted. A layout dropped during a long drag leaves the release
  without a request until the page is hovered.

Tool pages
- Password: while the replacement question is on screen a refresh may give the page another
  document; "Yes" then builds a request without password, which raises in the slot.
- Check before sharing: in the same situation "Yes" makes a copy of the other document
  (never a replacement). A report stays on screen after the destination cleared the result.
- Forms: a result stays when the same path is saved again, and beside other settings when a
  language model was removed by the system. Rotate: a load that failed once is not tried
  again on return. Insert: the same path set again while its count runs is not counted
  again, nor is a second source that went stale; Insert blank leaves its settings enabled
  during the job.
- Sources: what a count found is filed under the signature at the time of the answer;
  `_page_count_finished` tells its result before it starts the queued count, so a slot that
  starts one too raises (`job_runner.py:252`). A file dated before 1970 raises in the slot
  of the start.
- Merge: the list is checked only when it changes; a document removed, closed and opened
  again stays out, although the comment near `merge_pdf_page.py:456` says it joins.
- Plans: dropping pages 1 and 2 of [1, 2, 3] at place 2 gives [3, 1, 2]; equal ranges
  "1-2,1-2" pass the page and are refused by the engine; a page dragged between outputs is
  copied without a word.
- Thumbnails: a page that left the cache while visible stays "loading" until the next
  scroll; the buttons of the panel keep the pictures of pages that left it; a queued page
  that comes nearer is not made more urgent.

Outside the pages
- Compress and password jobs look again at the file they hold, not at its name; the
  verification of a watermark does not check that the content of the page survives.
- Memory broker: a stop signal between the creation of a scope and its recording leaves that
  scope until its process ends.
- Release pages: a request queued behind a slow check is given up after 4 s and still
  carried out; a slow opener may leave a status or remove the next request; the first
  non-draft release decides, so that a back-port listed first gives downgrade_refused.
- Corpus: with `--include-large` or `--full` a large file is reported as invalid input for
  every tool and none is run (`quality/corpus_testing.py:466`), although the message of line
  461 says to pass the option to test it. A timeout within the engine counts as a refusal;
  one in the drawing phase of the OCR oracle ends the run without report; a refusal for a
  signature does not look for a file left behind; the run directory is created before it is
  checked to be outside the corpus.
- Start: an exception other than ProcessSupervisorError in the classification would leave
  the start unfinished; documents of the launch classified after the user opened others take
  the selection.

## Not modelled

The content of pages, fonts and images; the encoding of the protocol below its fields;
confinement by the kernel; parsing of the command line, of versions and signatures; texts,
layout of widgets, painting and theme; the options panels of watermark and scan; links,
prefetching and image sizes of the reader; renaming of sessions and counts shown in the
sidebar; reports and release scripts. They are sequential code over data, or presentation,
and tests reach them. The diagnostics of the beta are reached by no build of this snapshot,
and its source updater is a stub (`install_source` always refuses).

Left out of modelled parts: the output folder renamed during a job, reuse of process
numbers, descendants of a worker, a failing write of the settings, the first schema of
stored sessions, files that are not opened or encrypted in the inspection (whose two halves
run one after the other), an action of a file first met under another entry. `PROJECT.json`
lists every component with its reason and every hazard with the properties that cover it.

## Plan

All that may lose or misplace a file, hang, or show what is not so is modelled and checked,
and most of it is proved. What is left, in this order:

1. VerdictIsDeserved for plans that are assumed to agree (the cases of a run are
   independent; the invariant is one per step of a case).
2. SaysWhatIsThere, on the lemmas PagesAreTrue rests on: the walk of the inspection is one
   more walk with a set of what it has met.
