---------------------------- MODULE VerifiedCopies ----------------------------
(***************************************************************************)
(* The transformations of a whole document in the worker: metadata,        *)
(* photocopy, redact, watermark, ocr, compress, protect, unlock            *)
(* (engine/pdf_share.py, pdf_photocopy.py, pdf_redaction.py,               *)
(* pdf_watermark.py, pdf_ocr.py, pdf_compression.py, pdf_password.py).     *)
(* Each holds its source open, writes a candidate and, before it answers,  *)
(* looks at that candidate and at the source again.                        *)
(*                                                                         *)
(* What the libraries build may be wrong: a Slip is one thing gone wrong   *)
(* in the building.  The source may be written or replaced at any moment;  *)
(* each version stands for the same document, and a copy keeps the         *)
(* versions it was made of.  A page is one row of pixels, for both         *)
(* directions are treated alike.                                           *)
(***************************************************************************)
EXTENDS Naturals, Sequences, FiniteSets

CONSTANTS
  Tasks,         \* the jobs that are asked for, see TaskRecords
  Pixels, Points, \* so many pixels for so many points, DPI / 72
  Margin,        \* MARGIN_PX
  MaxPixels,     \* MAX_PAGE_PIXELS
  MaxTotal,      \* MAX_TOTAL_BYTES, in pixels
  MaxScanned,    \* OCR_MAX_SCANNED_PAGES
  MaxVersion     \* bound of the model: versions of the source

VARIABLES
  task, pc,
  version,       \* of the file held open
  moved,         \* the name of the source leads to another file
  known,         \* what fstat told before anything was read
  readAt,        \* versions read so far
  unsignedCopy, created,
  slip,
  copy,          \* the candidate
  outcome        \* "none", "success", "no gain", "nothing to do", "refused"

vars == <<task, pc, version, moved, known, readAt, unsignedCopy, created, slip, copy, outcome>>

PageRecords ==
  [points : Nat \ {0}, unit : Nat \ {0}, turn : Nat, text : {"", "native"}, annots : Nat, legible : BOOLEAN]
DocumentRecords ==
  [lock : {"none", "restricted", "password"}, flaw : {"none", "damaged"},
   sign : {"none", "signed", "malformed"}, meta : BOOLEAN, active : BOOLEAN, pages : Seq(PageRecords)]
AreaRecords == [page : Nat, x : Nat, width : Nat \ {0}]

\* What may go wrong in the building of each copy.
Anywhere == {"none", "damaged", "page lost"}
Slips ==
  [metadata  |-> Anywhere \cup {"metadata kept", "catalog lost"},
   photocopy |-> Anywhere \cup {"other pixels", "text kept", "object kept"},
   redact    |-> Anywhere \cup {"area unscaled", "other pixels", "text kept", "object kept"},
   watermark |-> Anywhere \cup {"unmarked", "mark hidden", "as annotation", "lock kept", "signature missed"},
   ocr       |-> Anywhere \cup {"layer elsewhere", "layer lost", "layer seen", "turn kept", "signature missed"},
   compress  |-> Anywhere \cup {"catalog lost", "lock kept", "larger"},
   protect   |-> Anywhere \cup {"catalog lost", "unlocked", "weak lock"},
   unlock    |-> Anywhere \cup {"catalog lost", "lock kept"}]

\* A job: identity is 0 or the version the user was shown.
TaskRecords ==
  [op : DOMAIN Slips, doc : DocumentRecords, identity : Nat, unsigned : BOOLEAN,
   password : {"none", "right", "wrong"}, chosen : SUBSET Nat, areas : SUBSET AreaRecords]

NoCopy == [pages |-> <<>>, there |-> FALSE]
ImageOps == {"photocopy", "redact"}
PasswordOps == {"protect", "unlock"}
ShareOps == ImageOps \cup {"metadata", "watermark"}
Doc == task.doc
Count == Len(Doc.pages)

Floor(n, d) == n \div d
Ceil(n, d) == (n + d - 1) \div d
Lesser(m, n) == IF m < n THEN m ELSE n
LessOrNone(m, n) == IF m < n THEN 0 ELSE m - n

Init ==
  /\ task \in Tasks /\ pc = "asked" /\ version = 1 /\ moved = FALSE /\ known = 0 /\ readAt = {}
  /\ unsignedCopy = FALSE /\ created = FALSE /\ slip \in Slips[task.op]
  /\ copy = NoCopy /\ outcome = "none"

\* Other programs: the source is saved in place, or replaced.  What they do once the job has
\* looked for the last time does not concern it.
Overwritten ==
  /\ pc \notin {"done", "failing"} /\ version < MaxVersion
  /\ version' = version + 1
  /\ UNCHANGED <<task, pc, moved, known, readAt, unsignedCopy, created, slip, copy, outcome>>

Replaced ==
  /\ pc \notin {"asked", "done", "failing"} /\ ~moved
  /\ moved' = TRUE
  /\ UNCHANGED <<task, pc, version, known, readAt, unsignedCopy, created, slip, copy, outcome>>

-----------------------------------------------------------------------------
(* Opening.                                                                 *)

Same == UNCHANGED <<task, version, moved, slip>>
Refused == pc' = "failing" /\ outcome' = "refused"

\* fstat of the held file, against the version the user was shown.
TakesIdentity ==
  /\ pc = "asked" /\ known' = version
  /\ IF task.op \in ShareOps \ {"metadata"} /\ task.identity \notin {0, version}
     THEN Refused
     ELSE pc' = "held" /\ UNCHANGED outcome
  /\ Same /\ UNCHANGED <<readAt, unsignedCopy, created, copy>>

\* pikepdf.open: restrictions alone open with no password.
Opens ==
  CASE task.op = "unlock" -> Doc.lock # "none" /\ task.password = "right"
    [] OTHER -> Doc.lock # "password"

\* reject_decompression_bombs, check_pdf_syntax
IsSound == Doc.flaw = "none"

\* _reject_signatures: no signature, or a copy without it was asked for.
MayDropSignature == task.op \in {"ocr", "redact", "watermark"} /\ task.unsigned
SignatureAllows == Doc.sign = "none" \/ (Doc.sign = "signed" /\ MayDropSignature)

NothingToRemove == task.op = "metadata" /\ ~Doc.meta

Parses ==
  /\ pc = "held" /\ readAt' = readAt \cup {version}
  /\ IF ~(Opens /\ IsSound /\ SignatureAllows)
     THEN Refused /\ UNCHANGED unsignedCopy
     ELSE /\ unsignedCopy' = (Doc.sign = "signed")
          /\ IF NothingToRemove THEN pc' = "failing" /\ outcome' = "nothing to do"
             ELSE pc' = "parsed" /\ UNCHANGED outcome
  /\ Same /\ UNCHANGED <<known, created, copy>>

-----------------------------------------------------------------------------
(* Pictures of pages (pdf_photocopy.py, pdf_redaction.py).                  *)

Physical(page) == page.points * page.unit
PixelWidth(page) == Ceil(Physical(page) * Pixels, Points)
Picture(page) == [i \in 1 .. PixelWidth(page) |-> i]

\* source_geometry; ocr leaves the total to its own bounds.
GeometryIsSupported ==
  LET total[n \in 0 .. Count] == IF n = 0 THEN 0 ELSE total[n - 1] + PixelWidth(Doc.pages[n])
  IN  /\ ~Doc.active
      /\ \A i \in 1 .. Count : Doc.pages[i].turn \in {0, 90} /\ PixelWidth(Doc.pages[i]) <= MaxPixels
      /\ task.op # "ocr" => total[Count] <= MaxTotal

\* pixel_box: pixels from left + 1 to right of the page, in the physical size of the page.
AreaFits(area) ==
  area.page \in 1 .. Count /\ area.x + area.width <= Doc.pages[area.page].points
PixelBox(area, unit) ==
  LET page == Doc.pages[area.page]
      size == PixelWidth(page)
      left == LessOrNone(Floor(area.x * unit * size, Physical(page)), Margin)
      right == Lesser(size, Ceil((area.x + area.width) * unit * size, Physical(page)) + Margin)
  IN  left + 1 .. right

AreasOf(i) == {a \in task.areas : a.page = i}
Boxes(i, built) ==
  UNION {PixelBox(a, IF built = "area unscaled" THEN 1 ELSE Doc.pages[i].unit) : a \in AreasOf(i)}

BlackOut(picture, box) == [i \in DOMAIN picture |-> IF i \in box THEN 0 ELSE picture[i]]

\* What the pixels of page i are given as to the building, and then looked for.
ExpectedPicture(i) == BlackOut(Picture(Doc.pages[i]), IF task.op = "redact" THEN Boxes(i, slip) ELSE {})

ImagePage(i) ==
  [points |-> Physical(Doc.pages[i]),
   picture |-> IF slip = "other pixels" /\ i = 1 THEN Tail(ExpectedPicture(i)) \o <<1>> ELSE ExpectedPicture(i),
   text |-> IF slip = "text kept" /\ i = Count THEN "native" ELSE "",
   extra |-> slip = "object kept" /\ i = Count]

ImagesAllowed ==
  /\ GeometryIsSupported
  /\ task.op = "redact" => task.areas # {} /\ \A a \in task.areas : AreaFits(a)

\* verify_image_pdf: every page and object of the candidate, rendered anew.
ImagesAreVerified ==
  /\ Len(copy.pages) = Count
  /\ \A i \in 1 .. Count :
       LET page == copy.pages[i]
       IN  /\ page.points = Physical(Doc.pages[i]) /\ ~page.extra /\ page.text = ""
           /\ page.picture = ExpectedPicture(i)

\* A mutant: the areas are looked for as if the unit of the page were one point.
UnscaledBox(area) ==
  LET page == copy.pages[area.page]
      size == Len(page.picture)
  IN  Floor(area.x * size, page.points) + 1
        .. Lesser(size, Ceil((area.x + area.width) * size, page.points))

\* verify_redaction finds the areas again, as parts of the page that was written.
VerifiedBox(area) ==
  LET page == copy.pages[area.page]
      size == Len(page.picture)
      unit == Doc.pages[area.page].unit
  IN  Floor(area.x * unit * size, page.points) + 1
        .. Lesser(size, Ceil((area.x + area.width) * unit * size, page.points))

AreasAreVerified == \A a \in task.areas : \A i \in VerifiedBox(a) : copy.pages[a.page].picture[i] = 0

-----------------------------------------------------------------------------
(* Marks and layers of text (pdf_watermark.py, pdf_ocr.py).                 *)

\* page_box and _rotation
CanBeMarked == \A i \in 1 .. Count : Doc.pages[i].turn \in {0, 90} /\ PixelWidth(Doc.pages[i]) <= MaxPixels

\* A page as far as the other operations may change it.
Plain(page) ==
  [points |-> page.points, unit |-> page.unit, turn |-> page.turn, annots |-> page.annots,
   text |-> {page.text} \ {""}, look |-> "as it was"]

\* One drawing with the page's own; the mark of the last page may be lost or hidden.
Marked(i) ==
  LET page == Plain(Doc.pages[i])
  IN  CASE slip = "unmarked" /\ i = Count -> page
        [] slip = "mark hidden" /\ i = Count -> [page EXCEPT !.text = @ \cup {"mark"}]
        [] slip = "as annotation" -> [page EXCEPT !.annots = @ + 1, !.look = "marked"]
        [] OTHER -> [page EXCEPT !.text = @ \cup {"mark"}, !.look = "marked"]

\* verify_watermark: found in the text, and seen where the mark alone would be.
MarksAreVerified ==
  /\ Len(copy.pages) = Count
  /\ \A i \in 1 .. Count :
       LET page == copy.pages[i]
       IN  page.annots = Doc.pages[i].annots /\ "mark" \in page.text /\ page.look = "marked"

\* _chosen_page_indexes; a page with text of its own is left alone.
Chosen == IF task.chosen = {} THEN 1 .. Count ELSE task.chosen
Scanned == {i \in Chosen : Doc.pages[i].text = ""}
Recognized == {i \in Scanned : Doc.pages[i].legible}

\* _check_scanned_geometry, of the pages that get a layer.
CanBeRead ==
  /\ GeometryIsSupported /\ task.chosen \subseteq 1 .. Count
  /\ Scanned # {} /\ Cardinality(Scanned) <= MaxScanned
  /\ \A i \in Scanned : Doc.pages[i].unit = 1 /\ Doc.pages[i].annots = 0
  /\ Recognized # {}

\* _place_layer: over the page as it is turned, and the turn is given back.
Layered(i) ==
  LET page == Plain(Doc.pages[i])
  IN  CASE slip = "layer elsewhere" /\ i \notin Recognized -> [page EXCEPT !.text = @ \cup {"layer"}]
        [] i \notin Recognized -> page
        [] slip = "layer lost" -> page
        [] slip = "layer seen" -> [page EXCEPT !.text = @ \cup {"layer"}, !.look = "changed"]
        [] slip = "turn kept" -> [page EXCEPT !.text = @ \cup {"layer"}, !.turn = 180]
        [] OTHER -> [page EXCEPT !.text = @ \cup {"layer"}]

\* _geometry
GeometryIsKept ==
  /\ Len(copy.pages) = Count
  /\ \A i \in 1 .. Count :
       LET page == copy.pages[i]
           before == Doc.pages[i]
       IN  page.points = before.points /\ page.unit = before.unit
             /\ page.turn = before.turn /\ page.annots = before.annots

\* _verify_candidate
LayersAreVerified ==
  /\ GeometryIsKept
  /\ \A i \in 1 .. Count :
       LET page == copy.pages[i]
           before == Plain(Doc.pages[i])
       IN  /\ page.look = before.look
           /\ IF i \in Recognized THEN page.text # {} /\ page.text # before.text
              ELSE page.text = before.text

-----------------------------------------------------------------------------
(* Writing the candidate.                                                   *)

CanBeMade ==
  /\ task.op \in ImageOps => ImagesAllowed
  /\ task.op = "watermark" => CanBeMarked
  /\ task.op = "ocr" => CanBeRead

PageOf(i) ==
  CASE task.op \in ImageOps -> ImagePage(i)
    [] task.op = "watermark" -> Marked(i)
    [] task.op = "ocr" -> Layered(i)
    [] OTHER -> Plain(Doc.pages[i])

\* Encryption of what is saved.
LockOfCopy ==
  CASE slip = "lock kept" -> "restricted"
    [] slip = "weak lock" -> "weak"
    [] task.op = "protect" /\ slip # "unlocked" -> "password"
    [] OTHER -> "none"

\* strip_signatures: of the fields and the pages; one elsewhere is missed.
SignOfCopy ==
  CASE slip = "signature missed" -> Doc.sign
    [] unsignedCopy \/ task.op \in ImageOps -> "none"
    [] OTHER -> Doc.sign

Built ==
  [there |-> TRUE,
   whole |-> slip # "damaged",
   pages |-> [i \in 1 .. (IF slip = "page lost" THEN Count - 1 ELSE Count) |-> PageOf(i)],
   lock |-> LockOfCopy, sign |-> SignOfCopy,
   meta |-> IF task.op \in ImageOps \cup {"metadata"} THEN slip = "metadata kept" ELSE Doc.meta,
   catalog |-> slip # "catalog lost",
   smaller |-> slip # "larger",
   of |-> readAt \cup {version}]

\* The source is read again, by the renderer and by the save.
Builds ==
  /\ pc = "parsed" /\ readAt' = readAt \cup {version}
  /\ IF CanBeMade
     THEN /\ copy' = Built /\ pc' = "written" /\ UNCHANGED outcome
          /\ created' = TRUE
     ELSE Refused /\ UNCHANGED <<copy, created>>
  /\ Same /\ UNCHANGED <<known, unsignedCopy>>

\* The disk is full: build_image_pdf removes what it has written itself.
SaveFails ==
  /\ pc = "parsed" /\ CanBeMade /\ Refused
  /\ copy' = (IF task.op \in ImageOps THEN NoCopy ELSE [Built EXCEPT !.whole = FALSE])
  /\ created' = (task.op \notin ImageOps \cup {"compress"})
  /\ Same /\ UNCHANGED <<known, readAt, unsignedCopy>>

-----------------------------------------------------------------------------
(* Looking at it again.                                                     *)

StructureIsKept == GeometryIsKept /\ copy.catalog

PropertiesAreGone == StructureIsKept /\ ~copy.meta
CompressionIsVerified == StructureIsKept /\ copy.lock = "none"
LockIsVerified == StructureIsKept /\ copy.lock = (IF task.op = "protect" THEN "password" ELSE "none")

IsVerified ==
  /\ copy.whole
  /\ task.op = "metadata" => PropertiesAreGone
  /\ task.op \in ImageOps => ImagesAreVerified /\ copy.lock = "none"
  /\ task.op = "redact" => AreasAreVerified
  /\ task.op = "watermark" => MarksAreVerified /\ copy.lock = "none"
  /\ task.op = "ocr" => LayersAreVerified /\ copy.lock = "none"
  /\ task.op = "compress" => CompressionIsVerified
  /\ task.op \in PasswordOps => LockIsVerified

Verifies ==
  /\ pc = "written"
  /\ IF IsVerified THEN pc' = "verified" /\ UNCHANGED outcome ELSE Refused
  /\ Same /\ UNCHANGED <<known, readAt, unsignedCopy, created, copy>>

\* _verify_unsigned
VerifiesUnsigned ==
  /\ pc = "verified"
  /\ IF unsignedCopy => copy.sign = "none" THEN pc' = "looking" /\ UNCHANGED outcome ELSE Refused
  /\ Same /\ UNCHANGED <<known, readAt, unsignedCopy, created, copy>>

\* The held file again.
LooksAtFile ==
  /\ pc = "looking"
  /\ IF version = known THEN pc' = "naming" /\ UNCHANGED outcome ELSE Refused
  /\ Same /\ UNCHANGED <<known, readAt, unsignedCopy, created, copy>>

\* A compressed copy that is no smaller is not kept.
HasNoGain == task.op = "compress" /\ ~copy.smaller

\* What the name leads to now, which compress and the password operations do not ask.
LooksAtName ==
  /\ pc = "naming"
  /\ IF task.op \in ShareOps \cup {"ocr"} /\ (moved \/ version # known)
     THEN Refused /\ UNCHANGED copy
     ELSE /\ pc' = "done"
          /\ IF HasNoGain
             THEN copy' = NoCopy /\ outcome' = "no gain"
             ELSE outcome' = "success" /\ UNCHANGED copy
  /\ Same /\ UNCHANGED <<known, readAt, unsignedCopy, created>>

\* The last handlers of each job.
CleansUp ==
  /\ pc = "failing" /\ pc' = "done"
  /\ copy' = (IF created \/ task.op = "compress" THEN NoCopy ELSE copy)
  /\ Same /\ UNCHANGED <<known, readAt, unsignedCopy, created, outcome>>

Next ==
  \/ Overwritten \/ Replaced
  \/ TakesIdentity \/ Parses \/ Builds \/ SaveFails
  \/ Verifies \/ VerifiesUnsigned \/ LooksAtFile \/ LooksAtName \/ CleansUp

Spec == Init /\ [][Next]_vars

-----------------------------------------------------------------------------
\* Part i of the page's width lies in an area that was drawn on it.
IsHidden(i, page, areas) ==
  \E a \in areas :
    /\ i * Physical(page) > a.x * page.unit * PixelWidth(page)
    /\ (i - 1) * Physical(page) < (a.x + a.width) * page.unit * PixelWidth(page)

\* Far from every area, nothing is lost.
IsFar(i, page, areas) ==
  LET reach == Margin + 1
  IN  \A j \in (IF i > reach THEN i - reach ELSE 1) .. i + reach : ~IsHidden(j, page, areas)

HiddenIsGone ==
  \A n \in 1 .. Count :
    LET areas == IF task.op = "redact" THEN AreasOf(n) ELSE {}
        page == Doc.pages[n]
    IN  /\ copy.pages[n].text = "" /\ ~copy.pages[n].extra
        /\ \A i \in 1 .. PixelWidth(page) :
             /\ IsHidden(i, page, areas) => copy.pages[n].picture[i] = 0
             /\ IsFar(i, page, areas) => copy.pages[n].picture[i] = i

TextIsAsBefore(pages) == \A i \in pages : copy.pages[i].text = {Doc.pages[i].text} \ {""}
LooksAsBefore == \A i \in 1 .. Count : copy.pages[i].look = "as it was" /\ copy.pages[i].turn = Doc.pages[i].turn

IsTrue ==
  /\ copy.there /\ copy.whole /\ Len(copy.pages) = Count
  /\ copy.of = {known} /\ (task.op \in ShareOps \ {"metadata"} => task.identity \in {0, known})
  /\ copy.sign # "signed"
  /\ task.op \in ImageOps => HiddenIsGone /\ ~copy.meta
  /\ task.op = "watermark" =>
       \A i \in 1 .. Count : copy.pages[i].look = "marked" /\ copy.pages[i].annots = Doc.pages[i].annots
  /\ task.op = "ocr" => LooksAsBefore /\ TextIsAsBefore((1 .. Count) \ Recognized)
  /\ task.op = "metadata" => LooksAsBefore /\ ~copy.meta
  /\ task.op = "compress" => LooksAsBefore /\ copy.smaller
  /\ task.op \in PasswordOps => LooksAsBefore /\ (copy.lock = "password") = (task.op = "protect")

(* Whatever the libraries build and whenever the source is written, a job  *)
(* of the engine succeeds only with a copy of one version of its source,   *)
(* the one that was shown, that has what was asked for and lost nothing    *)
(* that was not: hidden areas black at every scale of the page, no text    *)
(* or object left under them, the mark on every page, unread pages as they *)
(* were, no signature; any other end leaves no file; and what was built    *)
(* right is not refused (run_share_job, run_ocr_job, run_compression_job,  *)
(* run_password_job and their verifications).                              *)
OnlyTrueCopies ==
  /\ pc = "done" => IF outcome = "success" THEN IsTrue ELSE ~copy.there
  /\ pc = "written" /\ slip = "none" => IsVerified
=============================================================================
