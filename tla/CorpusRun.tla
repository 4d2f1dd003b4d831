------------------------------ MODULE CorpusRun ------------------------------
(***************************************************************************)
(* A qualification run over a corpus of real files: every selected file is *)
(* classified, every tool run on it by the engine, every output judged by  *)
(* the oracles, and the verdicts gathered in a report that decides the     *)
(* exit code (quality/corpus_testing.py).  The engine may do anything      *)
(* wrong, an alarm may ring, another program may touch a source meanwhile. *)
(*                                                                         *)
(* The oracles map every page of an output to a page of a source by a plan *)
(* of their own, and compare structure, forms and appearance               *)
(* (quality/pdf_oracles.py).  What the output should be is taken from the  *)
(* engine as LayeredPages has it, never from that plan.  Photocopy,        *)
(* redaction, watermark and text recognition have oracles of their own,    *)
(* each of which looks at some things only.                                *)
(*                                                                         *)
(* A page is [ink, turn, readable, drawable, widgets, text]: what is on    *)
(* it, its quarter turns, whether its content can be decoded and drawn,    *)
(* the form fields shown on it, and the texts found on it: "own",          *)
(* "recognised", "mark".  The ink "faint" looks like any other but for     *)
(* less than the comparison of images tolerates (_MAX_NORMALIZED_MAE).     *)
(***************************************************************************)
EXTENDS Naturals, FiniteSets, SequencesExt

CONSTANTS
  Documents,  \* name -> [pages : Seq(page)]; the fields of every document have a catalog
  Corpus,     \* names of the PDF files found, in their order
  KindOf,     \* name -> "valid", "large", "slow", "encrypted", "invalid", "empty"
  Runs,       \* options: [tools, exclude, only, sample, most, full, large, viewer, visual, timed, gate]
  MaxSmokes   \* VIEWER_SMOKE_LIMIT

VARIABLES
  opts,      \* the options of the run
  pc,
  files,     \* selected files not looked at yet
  cases,     \* of the present file, not run yet
  onDisk,    \* of each file: "as found", "changed" or "gone"
  before,    \* the present file at the start of the case (fingerprint)
  after,     \* and once the job had ended
  job,       \* what the engine did
  made,      \* the documents it left
  results,   \* [file, tool, status] of the report
  classOf,   \* files classified -> their class
  smoked,    \* files the viewer has been tried on
  last,      \* history: the last verdict and what it was about
  code       \* exit code, "none" until there is one

corpusVars == <<opts, pc, files, cases, onDisk, before, after, job, made, results, classOf, smoked, last, code>>

BlankPage == [ink |-> "blank", turn |-> 0, readable |-> TRUE, drawable |-> TRUE, widgets |-> 0, text |-> {}]

Turn(page, quarters) == [page EXCEPT !.turn = (@ + quarters) % 4]
SumOf(s) == FoldLeft(LAMBDA x, y : x + y, 0, s)
WidgetsOf(pages) == SumOf([i \in DOMAIN pages |-> pages[i].widgets])
PagesOf(name) == Documents[name].pages

-----------------------------------------------------------------------------
(* What a job is asked to make.                                            *)

\* A case: [tool, op, inputs, pages, groups, after, angle] (ToolCase).
Engine(case) == INSTANCE LayeredPages WITH
  Docs <- Documents, Operations <- {}, WalkBudget <- 0, EntryBudget <- 0,
  task <- case, pc <- "", todo <- <<>>, at <- 0, stack <- <<>>, seen <- {}, reachable <- <<>>,
  left <- <<>>, read <- {}, outputs <- <<>>, created <- {}, outcome <- ""

\* Operations with an oracle of their own.
VerifiedOperations == {"photocopy", "redact", "watermark", "ocr"}

\* One page of their output: pixels only, with an area of the first page black in a
\* redaction; the mark added; a text added where there was none.
PixelsOf(page) == [page EXCEPT !.readable = TRUE, !.widgets = 0, !.text = {}]
WorkedPage(op, page, i) ==
  CASE op = "photocopy" -> PixelsOf(page)
    [] op = "redact" -> IF i = 1 THEN [PixelsOf(page) EXCEPT !.ink = "blackened"] ELSE PixelsOf(page)
    [] op = "watermark" -> [page EXCEPT !.text = @ \cup {"mark"}]
    [] op = "ocr" -> [page EXCEPT !.text = IF @ = {} THEN {"recognised"} ELSE @]

KeepsEveryPage == {"compress", "remove_metadata", "protect", "unlock"}

CopiedPages(case, copy) ==
  IF copy.input = 0 THEN <<BlankPage>>
  ELSE [i \in DOMAIN copy.pages |-> PagesOf(case.inputs[copy.input])[copy.pages[i]]]

\* The pages of each output of a good job, from the copies the engine makes.
AskedPages(case) ==
  IF case.op \in KeepsEveryPage THEN <<PagesOf(case.inputs[1])>>
  ELSE IF case.op \in VerifiedOperations
    THEN LET source == PagesOf(case.inputs[1])
         IN  <<[i \in DOMAIN source |-> WorkedPage(case.op, source[i], i)]>>
  ELSE IF case.op = "rotate"
    THEN LET source == PagesOf(case.inputs[1])
         IN  <<[i \in DOMAIN source |->
                 IF \E j \in DOMAIN case.pages : case.pages[j] = i
                   THEN Turn(source[i], case.angle) ELSE source[i]]>>
  ELSE LET copies == Engine(case)!Copies(case)
           outs == IF case.op = "split" THEN Len(case.groups) ELSE 1
           partsOf(o) == SelectSeq(copies, LAMBDA c : c.out = o)
       IN  [o \in 1 .. outs |->
              FlattenSeq([i \in DOMAIN partsOf(o) |-> CopiedPages(case, partsOf(o)[i])])]

AskedDocuments(case) ==
  [o \in DOMAIN AskedPages(case) |->
     [there |-> TRUE, opens |-> TRUE, pages |-> AskedPages(case)[o],
      fields |-> WidgetsOf(AskedPages(case)[o]), locked |-> case.op = "protect"]]

-----------------------------------------------------------------------------
(* What the oracle expects.                                                *)

Reference(source, page, delta) == [source |-> source, page |-> page, delta |-> delta]
Whole(source, count) == [i \in 1 .. count |-> Reference(source, i, 0)]
FromTo(source, from, upTo) == [i \in 1 .. (upTo + 1 - from) |-> Reference(source, from + i - 1, 0)]
These(source, pages) == [i \in DOMAIN pages |-> Reference(source, pages[i], 0)]

\* _expected_plans, and the page map of _validate_blank_page_output.
ExpectedPlans(case) ==
  LET first == Len(PagesOf(case.inputs[1]))
      chosen == ToSet(case.pages)
  IN  CASE case.op = "merge" ->
             <<FlattenSeq([i \in DOMAIN case.inputs |-> Whole(i, Len(PagesOf(case.inputs[i])))])>>
        [] case.op = "insert" ->
             <<FromTo(1, 1, case.after) \o These(2, case.pages) \o FromTo(1, case.after + 1, first)>>
        [] case.op = "blank" ->
             <<FromTo(1, 1, case.after) \o <<Reference(0, 1, 0)>> \o FromTo(1, case.after + 1, first)>>
        [] case.op \in KeepsEveryPage -> <<Whole(1, first)>>
        [] case.op \in {"extract", "reorder"} -> <<These(1, case.pages)>>
        [] case.op = "remove" -> <<SelectSeq(Whole(1, first), LAMBDA r : r.page \notin chosen)>>
        [] case.op = "rotate" ->
             <<[i \in 1 .. first |-> Reference(1, i, IF i \in chosen THEN case.angle ELSE 0)]>>
        [] case.op = "split" -> [g \in DOMAIN case.groups |-> These(1, case.groups[g])]

SourcePage(case, ref) ==
  IF ref.source = 0 THEN BlankPage ELSE PagesOf(case.inputs[ref.source])[ref.page]

\* _compare_page_snapshots: the turn, the decoded content if both can be decoded, the annotations.
PageDiffers(page, copy, delta) ==
  \/ copy.turn # (page.turn + delta) % 4
  \/ page.readable /\ copy.readable /\ copy.ink # page.ink
  \/ copy.widgets # page.widgets

\* _validate_form_reachability
FieldsAreLost(case, plan, copy) ==
  copy.fields < WidgetsOf([i \in DOMAIN plan |-> SourcePage(case, plan[i])])

SemanticOf(case, outputs) ==
  LET plans == ExpectedPlans(case)
      good(o) == /\ Len(outputs[o].pages) = Len(plans[o])
                 /\ \A i \in DOMAIN plans[o] :
                      ~PageDiffers(SourcePage(case, plans[o][i]), outputs[o].pages[i], plans[o][i].delta)
                 /\ ~FieldsAreLost(case, plans[o], outputs[o])
  IN  IF Len(plans) = Len(outputs) /\ \A o \in DOMAIN plans : good(o) THEN "OK" ELSE "MISMATCH"

\* _image_difference: small differences are tolerated.
LooksAlike(page, copy, delta) ==
  copy.ink \in {page.ink, "faint"} /\ copy.turn = (page.turn + delta) % 4

\* _validate_visual_outputs: an output page must be drawn whatever its source, and look like
\* its source if that one can be drawn.  The blank page is not looked at.
VisualOf(case, outputs) ==
  LET plans == ExpectedPlans(case)
      ofOutput(o) == {<<SourcePage(case, plans[o][i]), outputs[o].pages[i], plans[o][i]>> :
                        i \in DOMAIN plans[o]}
      seen == {p \in UNION {ofOutput(o) : o \in DOMAIN plans} : p[3].source # 0}
      differs(p) ==
        \/ ~p[2].drawable
        \/ p[1].drawable /\ ~(LooksAlike(p[1], p[2], p[3].delta) /\ p[2].text = p[1].text)
  IN  CASE \E p \in seen : differs(p) -> "MISMATCH"
        [] \A p \in seen : p[1].drawable -> "OK"
        [] OTHER -> "SOURCE_UNAVAILABLE"

\* verify_image_pdf, verify_redaction: no other object than pages and their images, and on
\* each page, pixel for pixel, what its source shows, black where an area is.
PixelsVerify(case, copy) ==
  LET source == PagesOf(case.inputs[1])
      inkOf(i) == IF case.op = "redact" /\ i = 1 THEN "blackened" ELSE source[i].ink
  IN  /\ copy.fields = 0 /\ Len(copy.pages) = Len(source)
      /\ \A i \in DOMAIN source :
           /\ source[i].drawable /\ copy.pages[i].drawable
           /\ copy.pages[i].ink = inkOf(i) /\ copy.pages[i].turn = source[i].turn
           /\ copy.pages[i].widgets = 0 /\ copy.pages[i].text = {}

\* verify_watermark: as many pages, each with as many annotations, the mark found in its text
\* and enough of it changed.  What it shows besides, and how it is turned, is not compared.
MarkVerifies(case, copy) ==
  LET source == PagesOf(case.inputs[1])
  IN  /\ Len(copy.pages) = Len(source)
      /\ \A i \in DOMAIN source :
           /\ source[i].drawable /\ copy.pages[i].drawable
           /\ copy.pages[i].widgets = source[i].widgets /\ "mark" \in copy.pages[i].text

\* validate_ocr_output: same turn, annotations and look, the content and text of a page that
\* had a text, and one page at least that has gained one.  The form is not compared.
RecognitionVerifies(case, copy) ==
  LET source == PagesOf(case.inputs[1])
      kept(page, new) == page.text = new.text /\ (page.readable => new.ink = page.ink)
  IN  /\ Len(copy.pages) = Len(source)
      /\ \A i \in DOMAIN source :
           /\ source[i].drawable /\ copy.pages[i].drawable
           /\ LooksAlike(source[i], copy.pages[i], 0) /\ copy.pages[i].widgets = source[i].widgets
           /\ source[i].text # {} => kept(source[i], copy.pages[i])
      /\ \E i \in DOMAIN source : source[i].text = {} /\ copy.pages[i].text # {}

Verifies(case, copy) ==
  CASE case.op \in {"photocopy", "redact"} -> PixelsVerify(case, copy)
    [] case.op = "watermark" -> MarkVerifies(case, copy)
    [] case.op = "ocr" -> RecognitionVerifies(case, copy)

-----------------------------------------------------------------------------
PageTools == {"merge", "split", "remove", "extract", "reorder", "insert", "blank_page", "rotate"}
CopyTools == {"compress", "ocr_pdf", "protect", "unlock_pdf", "share_check", "redact_pdf", "watermark"}
Tools == PageTools \cup CopyTools

PasswordOperations == {"protect", "unlock"}

NoJob == [end |-> "none", detail |-> "none", slip |-> "none", left |-> FALSE]
NoVerdict == [status |-> "none"]

CorpusInit ==
  /\ opts \in Runs
  /\ pc = "start"
  /\ files = <<>> /\ cases = <<>>
  /\ onDisk = [f \in ToSet(Corpus) |-> "as found"]
  /\ before = "none" /\ after = "none"
  /\ job = NoJob /\ made = <<>>
  /\ results = {} /\ classOf = <<>> /\ smoked = {} /\ last = NoVerdict /\ code = "none"

-----------------------------------------------------------------------------
(* The files and the cases of a run.                                       *)

\* discover_testable_tools refuses an unknown tool, select_candidates a file that is not
\* there, before anything is run.
IsRefused ==
  \/ ~(opts.tools \subseteq Tools)
  \/ opts.only # "any" /\ opts.only \notin ToSet(Corpus) \ opts.exclude

\* select_candidates: a sample of any files, then the first ones.
Selections ==
  LET kept == SelectSeq(Corpus, LAMBDA f : f \notin opts.exclude /\ opts.only \in {"any", f})
      size == IF opts.sample < Len(kept) THEN opts.sample ELSE Len(kept)
      samples == {s \in SUBSET ToSet(kept) : Cardinality(s) = size}
      first(s) == SubSeq(s, 1, IF opts.most < Len(s) THEN opts.most ELSE Len(s))
  IN  {first(SelectSeq(kept, LAMBDA f : f \in s)) : s \in samples}

Prepare ==
  /\ pc = "start"
  /\ IF IsRefused THEN pc' = "refused" /\ UNCHANGED files
     ELSE pc' = "files" /\ files' \in Selections
  /\ UNCHANGED <<opts, cases, onDisk, before, after, job, made, results, classOf, smoked, last, code>>

File == Head(files)

\* classify_pdf
Classified(f) ==
  CASE KindOf[f] = "empty" -> "EMPTY"
    [] onDisk[f] = "gone" \/ (KindOf[f] = "slow" /\ opts.timed) -> "UNKNOWN_ERROR"
    [] KindOf[f] = "encrypted" -> "ENCRYPTED"
    [] KindOf[f] = "invalid" -> "INVALID"
    [] KindOf[f] = "large" -> "VALID_LARGE"
    [] OTHER -> "VALID"

\* _skip_large_candidate, _preclassified_results_for_candidate: what is not run at all.
StatusUnrun(class) ==
  CASE class = "VALID_LARGE" /\ ~opts.large /\ ~opts.full -> "SKIPPED"
    [] class = "ENCRYPTED" -> "UNSUPPORTED_INPUT"
    [] OTHER -> "INVALID_INPUT"

Case(tool, op, inputs, pages) ==
  [tool |-> tool, op |-> op, inputs |-> inputs, pages |-> pages, groups |-> <<>>, after |-> 0, angle |-> 0]
From(n, m) == [i \in 1 .. (m + 1 - n) |-> n + i - 1]

\* _build_cases_for_tool
CasesOf(tool, f) ==
  LET n == Len(PagesOf(f))
      plain(op) == Case(tool, op, <<f>>, <<1>>)
      atLeast(m, s) == IF n >= m THEN s ELSE <<>>
  IN  CASE tool \in {"protect", "compress", "watermark"} -> <<plain(tool)>>
        [] tool = "unlock_pdf" -> <<plain("unlock")>>
        [] tool = "ocr_pdf" -> <<plain("ocr")>>
        [] tool = "redact_pdf" -> <<plain("redact")>>
        [] tool = "share_check" -> <<plain("remove_metadata"), plain("photocopy")>>
        [] tool = "merge" -> <<Case(tool, "merge", <<"anchor", f>>, <<>>)>>
        [] tool = "extract" ->
             <<plain("extract")>>
               \o IF opts.full THEN atLeast(3, <<Case(tool, "extract", <<f>>, <<1, 2, 3>>)>>) ELSE <<>>
        [] tool = "remove" -> atLeast(2, <<plain("remove")>>)
        [] tool = "reorder" -> atLeast(2, <<Case(tool, "reorder", <<f>>, <<2, 1>> \o From(3, n))>>)
        [] tool = "split" ->
             <<[plain("split") EXCEPT !.groups = <<<<1>>>> \o atLeast(2, <<From(2, n)>>)]>>
        [] tool = "rotate" ->
             [i \in 1 .. (IF opts.full THEN 3 ELSE 1) |-> [plain("rotate") EXCEPT !.angle = i]]
        [] tool = "insert" -> <<[Case(tool, "insert", <<f, "anchor">>, <<1>>) EXCEPT !.after = 1]>>
        [] tool = "blank_page" -> <<[plain("blank") EXCEPT !.after = n]>>

AllCases(f) == FlattenSeq([i \in 1 .. Cardinality(opts.tools) |-> CasesOf(SetToSeq(opts.tools)[i], f)])
Result(f, tool, status) == [file |-> f, tool |-> tool, status |-> status]

\* The next file: what is not valid is written down for every tool and not run; a tool that
\* has no case for it is skipped.
TakeFile ==
  /\ pc = "files" /\ files # <<>> /\ cases = <<>>
  /\ LET class == Classified(File)
         shapeless == {t \in opts.tools : CasesOf(t, File) = <<>>}
     IN  /\ classOf' = (File :> class) @@ classOf
         /\ IF class = "VALID"
              THEN /\ cases' = AllCases(File)
                   /\ results' = results \cup {Result(File, t, "SKIPPED") : t \in shapeless}
                   /\ IF AllCases(File) = <<>> THEN files' = Tail(files) /\ UNCHANGED pc
                      ELSE pc' = "case" /\ UNCHANGED files
              ELSE /\ results' = results \cup {Result(File, t, StatusUnrun(class)) : t \in opts.tools}
                   /\ files' = Tail(files)
                   /\ UNCHANGED <<pc, cases>>
  /\ UNCHANGED <<opts, onDisk, before, after, job, made, smoked, last, code>>

-----------------------------------------------------------------------------
(* One case.                                                               *)

Present == Head(cases)

Begin ==
  /\ pc = "case" /\ before' = onDisk[File] /\ pc' = "run"
  /\ UNCHANGED <<opts, files, cases, onDisk, after, job, made, results, classOf, smoked, last, code>>

Slips == {"none", "swap", "drop", "turn", "ink", "faint", "form", "absent", "broken"}
            \cup (IF Present.op \in PasswordOperations THEN {"lock"} ELSE {})
            \cup (IF Present.op \in VerifiedOperations THEN {"text"} ELSE {})
Details == {"nothing", "signed", "documented", "other"}
Conducts ==
  {[end |-> "success", detail |-> "none", slip |-> s, left |-> FALSE] : s \in Slips}
  \cup {[end |-> "refused", detail |-> d, slip |-> "none", left |-> l] : d \in Details, l \in {TRUE, FALSE}}
  \cup {[NoJob EXCEPT !.end = e] : e \in IF opts.timed THEN {"raised", "alarm"} ELSE {"raised"}}

\* A good output spoilt: pages exchanged, lost, turned, altered much or little, a text lost
\* or left, fields lost, no file, a file that does not open, the wrong lock.
Spoilt(doc, slip) ==
  CASE slip = "swap" -> [doc EXCEPT !.pages = Reverse(@)]
    [] slip = "drop" -> [doc EXCEPT !.pages = Front(@)]
    [] slip = "turn" -> [doc EXCEPT !.pages = [@ EXCEPT ![1] = Turn(@, 1)]]
    [] slip = "ink" -> [doc EXCEPT !.pages = [@ EXCEPT ![Len(@)] = [@ EXCEPT !.ink = "other"]]]
    [] slip = "faint" -> [doc EXCEPT !.pages = [@ EXCEPT ![Len(@)] = [@ EXCEPT !.ink = "faint"]]]
    [] slip = "text" ->
         [doc EXCEPT !.pages = [@ EXCEPT ![Len(@)] = [@ EXCEPT !.text = IF @ = {} THEN {"own"} ELSE {}]]]
    [] slip = "form" -> [doc EXCEPT !.fields = 0]
    [] slip = "absent" -> [doc EXCEPT !.there = FALSE]
    [] slip = "broken" -> [doc EXCEPT !.opens = FALSE]
    [] slip = "lock" -> [doc EXCEPT !.locked = ~@]
    [] OTHER -> doc

Good == AskedDocuments(Present)
MadeBy(conduct, good) ==
  IF conduct.end = "success" THEN [good EXCEPT ![Len(good)] = Spoilt(@, conduct.slip)] ELSE <<>>

\* The job; the engine may also spoil the source.
RunJob ==
  /\ pc = "run"
  /\ LET good == Good
     IN  \E c \in Conducts, spoils \in {TRUE, FALSE} :
           /\ c.end = "success" => onDisk[File] # "gone"
           /\ job' = c /\ made' = MadeBy(c, good)
           /\ spoils => onDisk[File] = "as found"
           /\ onDisk' = IF spoils THEN [onDisk EXCEPT ![File] = "changed"] ELSE onDisk
           /\ after' = onDisk'[File]
  /\ pc' = "look"
  /\ UNCHANGED <<opts, files, cases, before, results, classOf, smoked, last, code>>

Succeeded == job.end = "success"
AllThere == \A o \in DOMAIN made : made[o].there
AllOpen == \A o \in DOMAIN made : made[o].opens

\* _run_password_case opens the output itself: without a file that opens it raises, with
\* the wrong lock it reports an output that does not open.
LockIsRight == \A o \in DOMAIN made : made[o].locked = (Present.op = "protect")
IsPassword == Present.op \in PasswordOperations
Openable == IF IsPassword THEN LockIsRight ELSE AllOpen
Raised == job.end = "raised" \/ (Succeeded /\ IsPassword /\ ~(AllThere /\ AllOpen))

Unharmed(now) == before = now /\ now # "gone"

\* The oracle is asked only about what looks like a good output of an intact source.
OracleIsAsked == Succeeded /\ AllThere /\ AllOpen /\ Openable /\ (IsPassword \/ Unharmed(after))

NoOpinion == [semantic |-> "none", visual |-> "none"]
Opinion ==
  IF Present.op \in VerifiedOperations
    THEN [semantic |-> IF Verifies(Present, made[1]) THEN "OK" ELSE "MISMATCH", visual |-> "OK"]
    ELSE LET semantic == SemanticOf(Present, made)
         IN  [semantic |-> semantic,
              visual |-> IF semantic = "OK" /\ opts.visual THEN VisualOf(Present, made) ELSE "none"]

RefusalStatus ==
  LET withoutFile == ~job.left
  IN  CASE /\ Present.op \in {"compress", "ocr", "remove_metadata"}
           /\ job.detail = "nothing" /\ withoutFile -> "OK"
        [] /\ job.detail = "signed"
           /\ Present.op \in PasswordOperations \cup {"compress", "remove_metadata", "photocopy"}
             -> "EXPECTED_FAILURE"
        [] job.detail = "documented" /\ Present.tool \in CopyTools /\ withoutFile -> "EXPECTED_FAILURE"
        [] job.detail = "signed" /\ Present.op = "ocr" /\ withoutFile -> "EXPECTED_FAILURE"
        [] OTHER -> "NEEDS_TRIAGE"

\* The cascade of verdicts at the end of _run_tool_case.
StatusOf(unharmed, opinion) ==
  CASE ~unharmed -> "BUG_CRITICAL"
    [] job.end = "alarm" -> "BUG_CRITICAL"
    [] Raised -> "BUG"
    [] job.end = "refused" -> RefusalStatus
    [] ~AllThere \/ ~Openable \/ opinion.semantic # "OK" \/ opinion.visual = "MISMATCH" -> "BUG_CRITICAL"
    [] OTHER -> "OK"

StatusAsSeenAfterTheJob(opinion) == StatusOf(Unharmed(after), opinion)
\* The source is looked at once more after the oracle.
StatusAtTheEnd(opinion) == StatusOf(Unharmed(onDisk[File]), opinion)

\* An alarm inside the oracle is taken for a failed verification, except where nothing
\* catches it: the whole run ends there, without a report.
Opinions == {IF OracleIsAsked THEN Opinion ELSE NoOpinion}
              \cup (IF opts.timed /\ OracleIsAsked
                      THEN {[semantic |-> "MISMATCH", visual |-> "none"]} ELSE {})
MayEscape == opts.timed /\ OracleIsAsked /\ Present.op \notin PasswordOperations \cup {"photocopy", "redact", "watermark"}

Judge ==
  /\ pc = "look"
  /\ \E opinion \in Opinions :
       LET status == StatusAtTheEnd(opinion)
       IN  /\ results' = results \cup {Result(File, Present.tool, status)}
           /\ last' = [status |-> status, case |-> Present, job |-> job, made |-> made, good |-> Good,
                       harmed |-> ~Unharmed(onDisk[File]),
                       alarmed |-> opinion # NoOpinion /\ opinion # Opinion]
  /\ cases' = Tail(cases)
  /\ IF Tail(cases) = <<>> THEN pc' = "files" /\ files' = Tail(files)
     ELSE pc' = "case" /\ UNCHANGED files
  /\ before' = "none" /\ after' = "none" /\ job' = NoJob /\ made' = <<>>
  /\ UNCHANGED <<opts, onDisk, classOf, smoked, code>>

AlarmEscapes ==
  /\ pc = "look" /\ MayEscape /\ pc' = "aborted"
  /\ UNCHANGED <<opts, files, cases, onDisk, before, after, job, made, results, classOf, smoked, last, code>>

\* Another program saves or removes a file of the corpus.
Meddle ==
  /\ pc \in {"files", "case", "run", "look"} /\ files # <<>>
  /\ onDisk[File] = "as found"
  /\ \E s \in {"changed", "gone"} : onDisk' = [onDisk EXCEPT ![File] = s]
  /\ UNCHANGED <<opts, pc, files, cases, before, after, job, made, results, classOf, smoked, last, code>>

-----------------------------------------------------------------------------
(* The viewer and the report.                                              *)

\* _run_viewer_smoke on the first valid files; the viewer may fail, never change a file.
ValidFiles == SelectSeq(Corpus, LAMBDA f : f \in DOMAIN classOf /\ classOf[f] = "VALID")
NextSmoke == Cardinality(smoked) + 1
SmokesLeft == opts.viewer /\ NextSmoke <= MaxSmokes /\ NextSmoke <= Len(ValidFiles)

Smoke ==
  /\ pc = "files" /\ files = <<>> /\ SmokesLeft
  /\ \E status \in {"OK", "NEEDS_TRIAGE", "BUG"} :
       results' = results \cup {Result(ValidFiles[NextSmoke], "view", status)}
  /\ smoked' = smoked \cup {ValidFiles[NextSmoke]}
  /\ UNCHANGED <<opts, pc, files, cases, onDisk, before, after, job, made, classOf, last, code>>

Statuses == {r.status : r \in results}
Probable == {"BUG", "NEEDS_TRIAGE"}

\* exit_code_for_report
ExitCode ==
  LET fails == CASE opts.gate = "any" -> Statuses \cap (Probable \cup {"BUG_CRITICAL"}) # {}
                 [] opts.gate = "critical" -> "BUG_CRITICAL" \in Statuses
                 [] opts.gate = "bug" -> Statuses \cap (Probable \cup {"BUG_CRITICAL"}) # {}
                 [] OTHER -> FALSE
  IN  IF fails THEN "one" ELSE "zero"

Report ==
  /\ pc = "files" /\ files = <<>> /\ ~SmokesLeft
  /\ pc' = "done" /\ code' = ExitCode
  /\ UNCHANGED <<opts, files, cases, onDisk, before, after, job, made, results, classOf, smoked, last>>

CorpusNext ==
  \/ Prepare \/ TakeFile \/ Begin \/ RunJob \/ Judge \/ AlarmEscapes \/ Meddle \/ Smoke \/ Report

CorpusSpec == CorpusInit /\ [][CorpusNext]_corpusVars

-----------------------------------------------------------------------------
(* Properties.                                                             *)

\* What no comparison of pages can see: an altered page whose content cannot be decoded, in
\* a run that draws nothing or on a page that cannot be drawn in its source; a faint change
\* of a page whose content cannot be decoded.
Blind(page) == ~page.readable /\ (~opts.visual \/ ~page.drawable)
SamePage(page, copy) ==
  \/ copy = page
  \/ Blind(page) /\ copy = [page EXCEPT !.ink = copy.ink]
  \/ ~page.readable /\ copy = [page EXCEPT !.ink = "faint"]

\* A watermark is known to be on every page, of a document that may show anything else.
SameMarks(page, copy) == copy.text \cap {"mark"} = page.text \cap {"mark"} /\ copy.widgets = page.widgets

\* After text recognition a page is known to be its source to the eye, and to the byte if it
\* had a text; where it had none, its own text may be missing.
SameRecognised(page, copy) ==
  \/ SamePage(page, [copy EXCEPT !.text = page.text])
     /\ (copy.text = page.text \/ "recognised" \in page.text)
  \/ "recognised" \in page.text /\ copy = [page EXCEPT !.ink = "faint"]

SameDocument(op, good, copy) ==
  /\ copy.there /\ copy.opens /\ copy.locked = good.locked
  /\ Len(copy.pages) = Len(good.pages)
  /\ op \notin {"watermark", "ocr"} => copy.fields = good.fields
  /\ \A i \in DOMAIN good.pages :
       CASE op = "watermark" -> SameMarks(good.pages[i], copy.pages[i])
         [] op = "ocr" -> SameRecognised(good.pages[i], copy.pages[i])
         [] OTHER -> SamePage(good.pages[i], copy.pages[i])
  /\ op = "ocr" => \E i \in DOMAIN good.pages : copy.pages[i].text = {"recognised"}

OkMeansRight ==
  last.status = "OK" =>
    /\ ~last.harmed
    /\ last.job.end \in {"success", "refused"}
    /\ last.job.end = "refused" => ~last.job.left
    /\ last.job.end = "success" =>
         /\ Len(last.made) = Len(last.good)
         /\ \A o \in DOMAIN last.good : SameDocument(last.case.op, last.good[o], last.made[o])

\* Whether the oracle can confirm a good output at all: every page can be drawn where pages
\* are drawn, and there was a page without text to recognise.
Confirmable(case) ==
  LET pages == UNION {ToSet(PagesOf(case.inputs[i])) : i \in DOMAIN case.inputs}
  IN  /\ opts.visual \/ case.op \in VerifiedOperations => \A page \in pages : page.drawable
      /\ case.op = "ocr" => \E page \in pages : page.text = {}

\* No false alarm, unless an alarm rang or the oracle cannot confirm anything.
RightIsOk ==
  last.status \notin {"none", "OK"} /\ last.job.end = "success" /\ last.made = last.good =>
    last.harmed \/ last.alarmed \/ ~Confirmable(last.case)

\* A run that ends well under the strictest gate has tried every tool on every file it
\* found valid.
CleanRunTriedAll ==
  pc = "done" /\ opts.gate = "any" /\ code = "zero" =>
    \A f \in {f \in DOMAIN classOf : classOf[f] = "VALID"}, t \in opts.tools :
      \E r \in results :
        /\ r.file = f /\ r.tool = t
        /\ r.status \in IF CasesOf(t, f) = <<>> THEN {"SKIPPED"} ELSE {"OK", "EXPECTED_FAILURE"}

\* A verdict is deserved (_run_tool_case, validate_structural_outputs and the oracles of the
\* four other operations): OK for a source left intact and the output asked for, as far as
\* the oracle of the operation looks, and for nothing else.
VerdictIsDeserved == OkMeansRight /\ RightIsOk /\ CleanRunTriedAll
=============================================================================
