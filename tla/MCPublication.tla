---------------------------- MODULE MCPublication ----------------------------
(***************************************************************************)
(* The making and the publication of the files of a job for TLC, one part  *)
(* per behaviour, for they run in different processes and share no state:  *)
(*   inspection   FileInspection, in the worker, before a file is treated  *)
(*   budgets      RenderMemory, before the workers that draw               *)
(*   engine       LayeredPages, in the worker                              *)
(*   copies       VerifiedCopies, in the worker                            *)
(*   publication  OutputPublication, in the application, once the worker   *)
(*                has ended                                                *)
(*   corpus       CorpusRun, the qualification of all of it on real files  *)
(*   none         all at rest, beside another composition (MCApplication)  *)
(* The documents, the files and the jobs they are given come first.        *)
(***************************************************************************)
EXTENDS OutputPublication, FiniteSets, Sequences

CONSTANTS WalkBudget, EntryBudget, Pixels, Points, Margin, MaxPixels, MaxTotal, MaxScanned, MaxVersion,
  Drawers, MaxActive, NoDrawer, MaxSmokes, Nothing, CopyJobs,
  PageDocs, PageJobs

ASSUME WalksAssumption == WalkBudget \in Nat /\ EntryBudget \in Nat
ASSUME BudgetsAssumption == IsFiniteSet(Drawers) /\ NoDrawer \notin Drawers /\ MaxActive \in Nat
ASSUME PixelsAssumption ==
  /\ Pixels \in Nat \ {0} /\ Points \in Nat \ {0}
  /\ Margin = 1 /\ {MaxPixels, MaxTotal, MaxScanned, MaxVersion} \subseteq Nat

VARIABLES atWork, task, step, todo, at, stack, seen, reachable, left, read, made, created, result,
          cTask, cStep, cVersion, cMoved, cKnown, cReadAt, cUnsigned, cCreated, cSlip, cCopy, cOutcome,
          stage, told, scope, backlog, peer, broker, active, fullWith,
          opts, qStep, files, cases, onDisk, before, after, job, qMade, results, classOf, smoked, last, code,
          iFile, iLimit, iStep, iPending, iSeen, iNodes, iCounts, iEmbedded, iComplete, iSampled, iTexts,
          iImages, iUsed, iWarnings

engineVars == <<task, step, todo, at, stack, seen, reachable, left, read, made, created, result>>
copyVars == <<cTask, cStep, cVersion, cMoved, cKnown, cReadAt, cUnsigned, cCreated, cSlip, cCopy, cOutcome>>

-----------------------------------------------------------------------------
(* Copies: pages of several sizes and units, with and without text, one    *)
(* document of each kind that is refused, and what may go wrong in         *)
(* building each copy.                                                     *)

APage(points, unit, turn, text, annots, legible) ==
  [points |-> points, unit |-> unit, turn |-> turn, text |-> text, annots |-> annots, legible |-> legible]
Scan == APage(4, 1, 0, "", 0, TRUE)
Written == APage(3, 1, 90, "native", 1, FALSE)
Scaled == APage(3, 2, 0, "", 0, FALSE)
Blank == APage(1, 1, 0, "", 0, FALSE)

OfPages(pages) ==
  [lock |-> "none", flaw |-> "none", sign |-> "none", meta |-> TRUE, active |-> FALSE, pages |-> pages]
Mixed == OfPages(<<Scan, Written, Blank>>)
Physical == OfPages(<<Scaled, Scan>>)
Refusals ==
  {[Mixed EXCEPT !.flaw = "damaged"], [Mixed EXCEPT !.sign = "malformed"], [Mixed EXCEPT !.active = TRUE],
   OfPages(<<APage(9, 2, 0, "", 0, TRUE)>>), OfPages(<<APage(4, 1, 45, "", 0, TRUE)>>),
   OfPages(<<APage(8, 1, 0, "", 0, TRUE), APage(8, 1, 0, "", 0, TRUE)>>)}
Signed == [Mixed EXCEPT !.sign = "signed"]
Locked == {[Mixed EXCEPT !.lock = l] : l \in {"restricted", "password"}}
NoProperties == [Mixed EXCEPT !.meta = FALSE]
Documents == {Mixed, Physical, Signed, NoProperties} \cup Locked \cup Refusals

Task(op, doc) ==
  [op |-> op, doc |-> doc, identity |-> 0, unsigned |-> FALSE, password |-> "none", chosen |-> {}, areas |-> {}]
Area(page, x, width) == [page |-> page, x |-> x, width |-> width]

CopyTasks ==
  {[Task(op, d) EXCEPT !.identity = v] :
     op \in {"photocopy", "watermark"}, d \in Documents, v \in {0, 1}}
  \cup {[Task(op, Signed) EXCEPT !.unsigned = TRUE] : op \in {"watermark", "ocr", "photocopy"}}
  \cup {[Task("redact", d) EXCEPT !.areas = {a, Area(2, 1, 1)}, !.identity = 1, !.unsigned = d.sign = "signed"] :
          d \in {Mixed, Physical, Signed}, a \in {Area(p, x, w) : p \in 1 .. 2, x \in 0 .. 3, w \in 1 .. 2}}
  \cup {[Task("redact", Mixed) EXCEPT !.areas = {Area(4, 0, 1)}]}
  \cup {[Task("ocr", d) EXCEPT !.chosen = c] : d \in Documents, c \in {{}, {1}, {2}, {2, 3}, {1, 4}}}
  \cup {Task(op, d) : op \in {"metadata", "compress"}, d \in Documents}
  \cup {[Task(op, d) EXCEPT !.password = w] :
          op \in {"protect", "unlock"}, d \in Documents, w \in {"right", "wrong"}}

-----------------------------------------------------------------------------
(* Inspection: a form with shared and inherited fields and signatures, a   *)
(* circle of parents, annotations with actions and attachments met twice,  *)
(* and pages of every kind.                                                *)

Dict ==
  [shape |-> "dict", indirect |-> TRUE, annot |-> "", field |-> "", filled |-> FALSE, kids |-> FALSE,
   parent |-> Nothing, signs |-> "", contents |-> FALSE, embeds |-> {}, action |-> "", dest |-> FALSE,
   elsewhere |-> FALSE, children |-> <<>>]
With(children) == [Dict EXCEPT !.children = children]
Direct(o) == [o EXCEPT !.indirect = FALSE]
List(ids) ==
  [Direct(Dict) EXCEPT !.shape = "array", !.children = [i \in DOMAIN ids |-> [key |-> "", to |-> ids[i]]]]
To(key, id) == [key |-> key, to |-> id]
Text == [Direct(Dict) EXCEPT !.shape = "plain"]

\* The page and the form both list the field 3, a signature field that is its own widget; its
\* value 4 is signed.  The field 5 inherits what it is from 6.
Form ==
  <<With(<<To("Pages", 2), To("Fields", 7), To("Title", 8)>>), List(<<3, 5>>),
    [With(<<To("V", 4), To("P", 1)>>) EXCEPT !.annot = "widgets", !.field = "sig", !.filled = TRUE],
    [Dict EXCEPT !.signs = "range", !.contents = TRUE],
    [With(<<To("Parent", 6)>>) EXCEPT !.annot = "widgets", !.parent = 6],
    [With(<<To("Kids", 5)>>) EXCEPT !.field = "text", !.kids = TRUE],
    List(<<3, 6>>), Text>>

Unsigned == [Form EXCEPT ![3].filled = FALSE, ![3].children = <<>>]
Hollow == [Form EXCEPT ![4].contents = FALSE]
Circle == [Form EXCEPT ![6].parent = 5]
\* The value is met first as an entry like any other, and says nothing of itself.
Mute == [Form EXCEPT ![4].signs = "", ![1].children = <<To("V", 4)>> \o @]

\* A comment with an attachment that the catalog names too, a link that runs a script when the
\* pointer enters it, a link inside the document, an action of an unknown kind that opens next.
Active ==
  <<[With(<<To("Annots", 2), To("Files", 5), To("OpenAction", 8)>>) EXCEPT !.dest = TRUE],
    List(<<3, 4, 6, 3>>),
    [With(<<To("FS", 5)>>) EXCEPT !.annot = "comments"],
    [With(<<To("AA", 7)>>) EXCEPT !.annot = "links"],
    [Dict EXCEPT !.embeds = {9}],
    [With(<<To("A", 9)>>) EXCEPT !.annot = "links"],
    Direct(With(<<To("E", 10)>>)),
    Dict,
    [Dict EXCEPT !.action = "internal_navigation"],
    [Dict EXCEPT !.action = "active_actions", !.children = <<To("Next", 11)>>],
    [Dict EXCEPT !.action = "external_references", !.shape = "stream", !.elsewhere = TRUE]>>

Page(fonts, streams, resources) ==
  [fonts |-> fonts, streams |-> streams, resources |-> resources, broken |-> FALSE]
TextPage == Page(TRUE, <<0, 2>>, <<>>)
ScanPage == Page(FALSE, <<3>>, <<"form", "image">>)
LongPage == Page(TRUE, <<0, 0, 0>>, <<"form", "form", "image">>)
EmptyPage == Page(TRUE, <<>>, <<>>)
Pages ==
  {<<p, q, ScanPage>> : p \in {ScanPage, LongPage, EmptyPage, [ScanPage EXCEPT !.broken = TRUE]},
                        q \in {TextPage, ScanPage, EmptyPage, Page(TRUE, <<9>>, <<"image">>)}}
  \cup {<<>>, <<TextPage>>}

File(objects, info, xmp, pages) ==
  [objects |-> objects, root |-> 1, info |-> info, xmp |-> xmp, pages |-> pages]
SmallFile == File(<<Dict>>, <<>>, <<>>, <<>>)
SampleFiles ==
  {File(objects, <<1>>, <<2>>, <<TextPage>>) : objects \in {Form, Unsigned, Hollow, Circle, Mute, Active}}
  \cup {File(<<Dict>>, info, xmp, <<ScanPage>>) :
          info \in {<<>>, <<1, 4, 2>>, <<1, Nothing>>, <<1, 1, 1, 1>>},
          xmp \in {<<>>, <<3, 1>>, <<1, 1, 1, 1>>, <<1, Nothing>>}}
  \cup {File(<<Dict>>, <<>>, <<>>, pages) : pages \in Pages}

-----------------------------------------------------------------------------
(* Engine:                                                                 *)
(*   drawing  forms and arrays that lead back to themselves, a layer in a  *)
(*            direct dictionary, one reached through the page tree only,   *)
(*            one its catalog does not list, hidden layers                 *)
(*   plan     every layer hidden but one                                   *)
(*   plain    a layer and no catalog                                       *)

Branch(kids) == [kind |-> "dict", kids |-> kids, direct |-> FALSE]
Array(kids) == [kind |-> "array", kids |-> kids, direct |-> FALSE]
InPlace(o) == [o EXCEPT !.direct = TRUE]
Layer == [kind |-> "layer", kids |-> <<"num">>, direct |-> FALSE]
TreeNode(kids) == [kind |-> "pages", kids |-> kids, direct |-> FALSE]
Scalar == [kind |-> "scalar", kids |-> <<>>, direct |-> TRUE]
Layers(groups, base, on, off) == [groups |-> groups, base |-> base, on |-> on, off |-> off]

Drawing ==
  [objects |->
     [num |-> Scalar, a |-> Layer, b |-> Layer, c |-> Layer, unlisted |-> Layer,
      fonts |-> Branch(<<"form", "num">>), form |-> Branch(<<"fonts", "list">>),
      list |-> Array(<<"b", "list", "num">>), inline |-> InPlace(Branch(<<"a">>)),
      notes |-> Array(<<"note">>), note |-> Branch(<<"leaf", "unlisted", "a">>),
      leaf |-> TreeNode(<<"c">>)],
   pages |-> <<<<"fonts", "num">>, <<"notes", "inline">>, <<"c">>>>,
   catalog |-> Layers(<<"a", "b", "c", "num">>, "ON", <<>>, <<"b", "a">>)]
Plan ==
  [objects |-> [num |-> Scalar, a |-> Layer, b |-> Layer, list |-> Array(<<"a", "b">>)],
   pages |-> <<<<"list">>, <<"a">>>>,
   catalog |-> Layers(<<"a", "b">>, "OFF", <<"b">>, <<>>)]
Plain ==
  [objects |-> [num |-> Scalar, a |-> Layer, list |-> Branch(<<"a", "list">>)],
   pages |-> <<<<"list">>, <<"num">>>>,
   catalog |-> Layers(<<>>, "ON", <<>>, <<>>)]
LayeredDocs == [drawing |-> Drawing, plan |-> Plan, plain |-> Plain]

Op(op, inputs, pages, next, angle) ==
  [op |-> op, inputs |-> inputs, pages |-> pages, groups |-> <<>>, after |-> next, angle |-> angle]
PageNumbers == 1 .. 3
PageLists == {<<x>> : x \in 1 .. 4} \cup (PageNumbers \X PageNumbers)
PageOrders == (PageNumbers \X PageNumbers \X PageNumbers) \cup {<<3, 1, 2, 1>>, <<1, 2>>}
PageOperations ==
  {Op("merge", <<x, y>>, <<>>, 0, 0) : x, y \in DOMAIN LayeredDocs}
  \cup {Op("merge", <<x, "plain", "plan">>, <<>>, 0, 0) : x \in {"plan", "plain"}}
  \cup {Op(o, <<"drawing">>, l, 0, 90) : o \in {"extract", "remove", "rotate"}, l \in PageLists}
  \cup {Op("rotate", <<"drawing">>, <<1, 2>>, 0, 0), Op("remove", <<"drawing">>, <<3, 2, 1>>, 0, 0)}
  \cup {Op("reorder", <<"drawing">>, l, 0, 0) : l \in PageOrders}
  \cup {[Op("split", <<"drawing">>, <<>>, 0, 0) EXCEPT !.groups = <<l, m>>] : l \in PageLists, m \in {<<1>>, <<2, 3>>}}
  \cup {Op("insert", <<x, y>>, l, n, 0) : x, y \in {"drawing", "plan"}, l \in {<<1>>, <<2, 1>>, <<3>>}, n \in 0 .. 3}
  \cup {Op("blank", <<"drawing">>, <<>>, n, 0) : n \in 0 .. 4}

-----------------------------------------------------------------------------
(* Corpus: files that are large, slow, encrypted, invalid or empty, and    *)
(*   forms   three pages: a form, a turned page whose content cannot be    *)
(*           decoded, one that cannot be drawn either                      *)
(*   note    one page                                                      *)
(*   pair    a form and a scanned page without text, both can be drawn     *)

Sheet(ink, turn, readable, drawable, widgets, text) ==
  [ink |-> ink, turn |-> turn, readable |-> readable, drawable |-> drawable, widgets |-> widgets, text |-> text]
Note == <<Sheet("note", 0, TRUE, TRUE, 0, {"own"})>>
Pair == <<Sheet("form", 0, TRUE, TRUE, 1, {"own"}), Sheet("scan", 1, FALSE, TRUE, 0, {})>>
Forms == Pair \o <<Sheet("odd", 0, FALSE, FALSE, 0, {})>>

SampleCorpus == <<"empty", "forms", "invalid", "large", "locked", "note", "pair", "slow">>
SampleKinds ==
  [empty |-> "empty", forms |-> "valid", invalid |-> "invalid", large |-> "large",
   locked |-> "encrypted", note |-> "valid", pair |-> "valid", slow |-> "slow"]
SampleDocuments ==
  [anchor |-> [pages |-> <<Sheet("anchor", 0, TRUE, TRUE, 0, {"own"})>>],
   empty |-> [pages |-> <<>>], forms |-> [pages |-> Forms], invalid |-> [pages |-> <<>>],
   large |-> [pages |-> Note], locked |-> [pages |-> Note], note |-> [pages |-> Note], pair |-> [pages |-> Pair],
   slow |-> [pages |-> Note]]

Everything ==
  [tools |-> {"extract"}, exclude |-> {}, only |-> "any", sample |-> 9, most |-> 9,
   full |-> FALSE, large |-> FALSE, viewer |-> FALSE, visual |-> TRUE, timed |-> FALSE, gate |-> "any"]
EveryTool ==
  {"merge", "split", "remove", "extract", "reorder", "insert", "blank_page", "rotate", "compress",
   "ocr_pdf", "protect", "unlock_pdf", "share_check", "redact_pdf", "watermark"}

UnknownTool == [Everything EXCEPT !.tools = {"fold"}]

SampleRuns ==
  {[Everything EXCEPT !.tools = {t}, !.only = "forms", !.full = t \in {"extract", "rotate"},
                      !.visual = how # "blind", !.timed = how = "timed"] :
     t \in EveryTool, how \in {"plain", "blind", "timed"}}
  \cup {[Everything EXCEPT !.tools = {t}, !.only = "pair", !.timed = timed] :
          t \in {"compress", "ocr_pdf", "share_check", "redact_pdf", "watermark"}, timed \in {TRUE, FALSE}}
  \cup {[Everything EXCEPT !.tools = {"remove"}, !.exclude = {"forms", "pair"}, !.full = full, !.large = large,
                           !.viewer = ~full, !.timed = timed] :
          full, large, timed \in {TRUE, FALSE}}
  \cup {[Everything EXCEPT !.tools = {"compress", "insert"}, !.only = "note", !.viewer = TRUE, !.gate = g] :
          g \in {"none", "bug", "critical"}}
  \cup {[Everything EXCEPT !.sample = 2, !.most = 1, !.tools = {"split"}],
        [Everything EXCEPT !.tools = {"ocr_pdf", "watermark"}, !.only = "note"],
        [Everything EXCEPT !.only = "forms", !.exclude = {"forms"}],
        UnknownTool}

-----------------------------------------------------------------------------
(* The parts. *)

Engine == INSTANCE LayeredPages WITH
  Docs <- PageDocs, Operations <- PageJobs,
  pc <- step, outputs <- made, outcome <- result

SampleDocs == LayeredDocs
SampleOperations == PageOperations

ASSUME PagesAssumption ==
  /\ \A name \in DOMAIN PageDocs : Engine!IsDocument(PageDocs[name])
  /\ PageJobs # {} /\ \A t \in PageJobs : Engine!IsOperation(t)

\* What stands where the engine has nothing to do.
SomeJob == CHOOSE t \in PageJobs : TRUE

Copies == INSTANCE VerifiedCopies WITH
  Tasks <- CopyJobs,
  task <- cTask, pc <- cStep, version <- cVersion, moved <- cMoved, known <- cKnown, readAt <- cReadAt,
  unsignedCopy <- cUnsigned, created <- cCreated, slip <- cSlip, copy <- cCopy, outcome <- cOutcome

SampleTasks == CopyTasks

ASSUME CopiesAssumption == CopyJobs # {} /\ CopyJobs \subseteq Copies!TaskRecords

\* The limits of an inspection, small enough for each of them to be reached.
Inspection == INSTANCE FileInspection WITH
  Files <- SampleFiles,
  NodeLimits <- {6, 12, 40}, Ancestors <- 4, MaxEntries <- 3, Letters <- 6, Letter <- 3,
  SamplePages <- 2, Streams <- 3, Bytes <- 4, Resources <- 3,
  file <- iFile, limit <- iLimit, at <- iStep, pending <- iPending, seen <- iSeen, nodes <- iNodes,
  counts <- iCounts, embedded <- iEmbedded, complete <- iComplete, sampled <- iSampled,
  texts <- iTexts, images <- iImages, used <- iUsed, warnings <- iWarnings

Budgets == INSTANCE RenderMemory

Corpus == INSTANCE CorpusRun WITH
  Corpus <- SampleCorpus, KindOf <- SampleKinds,
  Documents <- SampleDocuments, Runs <- SampleRuns,
  pc <- qStep, made <- qMade

corpusVars ==
  <<opts, qStep, files, cases, onDisk, before, after, job, qMade, results, classOf, smoked, last, code>>
budgetVars == <<stage, told, scope, backlog, peer, broker, active, fullWith>>
inspectionVars ==
  <<iFile, iLimit, iStep, iPending, iSeen, iNodes, iCounts, iEmbedded, iComplete, iSampled, iTexts,
    iImages, iUsed, iWarnings>>
allVars == <<atWork, vars, engineVars, copyVars, budgetVars, corpusVars, inspectionVars>>

AtPublication == atWork = "publication"
AtEngine == atWork = "engine"
AtCopies == atWork = "copies"
AtBudgets == atWork = "budgets"
AtCorpus == atWork = "corpus"
AtInspection == atWork = "inspection"

FilesInit ==
  /\ atWork \in {"none", "publication", "engine", "copies", "budgets", "corpus", "inspection"}
  /\ Engine!Init /\ (~AtEngine => task = SomeJob)
  /\ Corpus!CorpusInit /\ (~AtCorpus => opts = UnknownTool)
  /\ Copies!Init /\ (~AtCopies => cTask = (CHOOSE t \in CopyJobs : TRUE) /\ cSlip = "none")
  /\ Init /\ (~AtPublication => ~tmpfile /\ \A i \in Outs : entry[i] = "absent")
  /\ Budgets!BudgetInit
  /\ Inspection!InspectionInit
  /\ (~AtInspection => iLimit = 6 /\ iFile = SmallFile)

FilesNext ==
  /\ UNCHANGED atWork
  /\ \/ AtPublication /\ Next /\ UNCHANGED <<engineVars, copyVars, budgetVars, corpusVars, inspectionVars>>
     \/ AtEngine /\ Engine!Next /\ UNCHANGED <<vars, copyVars, budgetVars, corpusVars, inspectionVars>>
     \/ AtCopies /\ Copies!Next /\ UNCHANGED <<vars, engineVars, budgetVars, corpusVars, inspectionVars>>
     \/ AtBudgets /\ Budgets!BudgetNext /\ UNCHANGED <<vars, engineVars, copyVars, corpusVars, inspectionVars>>
     \/ AtCorpus /\ Corpus!CorpusNext /\ UNCHANGED <<vars, engineVars, copyVars, budgetVars, inspectionVars>>
     \/ /\ AtInspection /\ Inspection!InspectionNext
        /\ UNCHANGED <<vars, engineVars, copyVars, budgetVars, corpusVars>>

FilesSpec == FilesInit /\ [][FilesNext]_allVars /\ WF_vars(AtPublication /\ Supervisor)

\* The publication ends (OutputPublication).
PublicationEnds == AtPublication => Terminates

\* A page that is copied shows and hides what it shows and hides in its document, and the
\* pages of a result are those that were asked for, in that order (LayeredPages).
PagesAreTrue == Engine!LayersAreKept /\ Engine!PagesAreAsAsked

\* A copy of a whole document is true, or there is none (VerifiedCopies).
CopiesAreTrue == Copies!OnlyTrueCopies

\* Nothing is drawn without a memory limit, and the place of what has ended is free again
\* (RenderMemory).
BudgetOrNothing == Budgets!BudgetOrNothing

\* A verdict of the corpus qualification is deserved (CorpusRun).
VerdictIsDeserved == Corpus!VerdictIsDeserved

\* What an inspection says of a file is so (FileInspection).
SaysWhatIsThere == AtInspection => Inspection!SaysWhatIsThere
=============================================================================
