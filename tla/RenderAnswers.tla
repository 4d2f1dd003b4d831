---------------------------- MODULE RenderAnswers ----------------------------
(***************************************************************************)
(* One request of the reader to its isolated worker, and what is read of the *)
(* answer (workers/render_client.py, workers/render_worker.py).  Both sides   *)
(* hold the other to limits: what the reader asks must be within those of the *)
(* worker, and what the worker says within those of the reader.              *)
(*                                                                         *)
(*   doc       the file: its lock, and of its pages the size and the boxes of  *)
(*             their text; hits are the boxes of each match of the words searched *)
(*   known     the pages the reader was told of                               *)
(*   request, result   the last request, with what befell its worker, and what the *)
(*             reader made of the answer                                       *)
(* A box is "plain", "empty", "hair" (so thin that its rounded size is nothing), *)
(* "far" (beyond what the reader believes) or "long" (it begins within the limits *)
(* and ends beyond them); so is a side of a page, and a page has its size in       *)
(* pixels as it is laid out.  Limits are scaled down.                             *)
(***************************************************************************)
EXTENDS Integers, Sequences, SequencesExt

CONSTANTS
  Documents, Conducts,
  MaxPages, MaxSide, MaxPixels, MaxRects, MaxMatches, MaxBoxes, MaxText

VARIABLES doc, known, request, result

vars == <<doc, known, request, result>>

Lower(a, b) == IF a < b THEN a ELSE b
Higher(a, b) == IF a > b THEN a ELSE b
FirstOf(s, n) == SubSeq(s, 1, Lower(n, Len(s)))

-----------------------------------------------------------------------------
(* The size of an image. *)

\* int(sqrt(n / d))
RootOf(n, d) == CHOOSE r \in 0 .. n : r * r * d <= n /\ (r + 1) * (r + 1) * d > n

\* bounded_render_size: the smaller of the scales that fit the side and the pixels.
BoundedSize(size) ==
  LET longest == Higher(size.w, size.h)
      fit(side, other) ==
        Higher(1, Lower(Lower(side, (side * MaxSide) \div longest), RootOf(side * MaxPixels, other)))
  IN  [w |-> fit(size.w, size.h), h |-> fit(size.h, size.w)]

-----------------------------------------------------------------------------
(* The worker. *)
Failed == [status |-> "failed", of |-> <<>>]
Refused(error) == [status |-> error, of |-> <<>>]
Says(what) == [status |-> "answer", of |-> what]

\* Boxes without a size are left out; what is left is rounded.
Kept(boxes) == SelectSeq(boxes, LAMBDA b : b # "empty")

\* The matches that have a box left, up to the limit, even inside a page full of them.
Matches(hits) ==
  FirstOf(SelectSeq([i \in DOMAIN hits |-> Kept(FirstOf(hits[i], MaxBoxes))], LAMBDA m : m # <<>>),
          MaxMatches)

Rendered(q) ==
  IF Lower(q.size.w, q.size.h) < 1 \/ Higher(q.size.w, q.size.h) > MaxSide
       \/ q.size.w * q.size.h > MaxPixels
  THEN Failed ELSE Says(q.size)

\* main() of the worker.
Worker(d, q) ==
  CASE d.lock # "none" -> Refused(d.lock)
    [] d.lock = "none" /\ (d.pages = <<>> \/ Len(d.pages) > MaxPages) -> Failed
    [] OTHER ->
         CASE q.action = "metadata" -> Says([p \in DOMAIN d.pages |-> d.pages[p].side])
           [] q.action = "search" -> Says(Matches(d.hits))
           [] q.action # "metadata" /\ q.action # "search" /\ q.page \notin DOMAIN d.pages -> Failed
           [] q.action = "selection" /\ q.points = "beyond" -> Failed
           [] OTHER ->
                CASE q.action = "render" -> Rendered(q)
                  [] q.action = "selection" ->
                       Says(FirstOf(d.pages[q.page].boxes, MaxText))
                  [] q.action = "text_lines" ->
                       Says(Kept(FirstOf(d.pages[q.page].boxes, MaxRects)))

-----------------------------------------------------------------------------
(* The reader's side. *)

\* _valid_box
Valid(box) == box \in {"plain", "long"}

\* decode_frame
IsRead(q, answer) ==
  /\ answer.status = "answer"
  /\ CASE q.action = "metadata" -> /\ Len(answer.of) \in 1 .. MaxPages
                                   /\ \A i \in DOMAIN answer.of : answer.of[i] = "plain"
       [] q.action = "search" -> /\ Len(answer.of) <= MaxMatches
                                 /\ \A m \in Range(answer.of) :
                                      Len(m) \in 1 .. MaxBoxes /\ \A b \in Range(m) : Valid(b)
       [] q.action = "text_lines" -> /\ Len(answer.of) <= MaxRects
                                     /\ \A b \in Range(answer.of) : Valid(b)
       [] q.action = "selection" -> /\ Len(answer.of) <= MaxText
                                    /\ \A b \in Range(answer.of) : b # "far"
       [] q.action = "render" -> answer.of.w * answer.of.h <= MaxPixels

\* RenderSupervisor.request and _Task.run: what the request comes to.
Outcome(q) ==
  LET answer == Worker(doc, q)
  IN  CASE q.conduct = "unconfined" -> Refused("isolation")
        [] q.conduct \in {"gone", "crash", "memory", "late"} -> Refused("load")
        [] OTHER -> IF answer.status \in {"password", "load"} THEN Refused(answer.status)
                    ELSE IF IsRead(q, answer) THEN answer ELSE Refused("load")

NoSize == [w |-> 1, h |-> 1]
Asked(action, page, size, c) ==
  [action |-> action, page |-> page, size |-> size, points |-> "within", conduct |-> c]
Ask(q) == request' = q /\ result' = Outcome(q)

\* load()
Open(c) ==
  /\ request.action = "none"
  /\ Ask(Asked("metadata", 0, NoSize, c))
  /\ known' = IF result'.status = "answer" THEN result'.of ELSE <<>>
  /\ UNCHANGED doc

\* A page in view, its size brought within the limits by the view and by requestPage.
AskImage(p, c) ==
  /\ Ask(Asked("render", p, BoundedSize(BoundedSize(doc.pages[p].laid)), c))
  /\ UNCHANGED <<doc, known>>

\* A drag ends at a point of a box: of a long one, perhaps past its limit.
AskText(p, c) ==
  /\ \/ Ask(Asked("text_lines", p, NoSize, c))
     \/ \E points \in {"within", "beyond"} :
          /\ points = "beyond" => "long" \in Range(doc.pages[p].boxes)
          /\ Ask([Asked("selection", p, NoSize, c) EXCEPT !.points = points])
  /\ UNCHANGED <<doc, known>>

Search(c) == known # <<>> /\ Ask(Asked("search", 0, NoSize, c)) /\ UNCHANGED <<doc, known>>

Init ==
  /\ doc \in Documents
  /\ known = <<>> /\ result = Refused("none")
  /\ request = Asked("none", 0, NoSize, "good")

Next ==
  \E c \in Conducts :
    Open(c) \/ Search(c) \/ \E p \in DOMAIN known : AskImage(p, c) \/ AskText(p, c)

Spec == Init /\ [][Next]_vars

-----------------------------------------------------------------------------
Unbelieved(q) ==
  CASE q.action = "search" -> Range(FlattenSeq(doc.hits)) \cap {"hair", "far"}
    [] q.action = "text_lines" -> Range(doc.pages[q.page].boxes) \cap {"hair", "far"}
    [] q.action = "selection" -> Range(doc.pages[q.page].boxes) \cap {"far"}
    [] OTHER -> {}

(* Neither side refuses the other for its own limits.  A worker that is left alone *)
(* answers all that the reader asks of a document it has opened: an image of the     *)
(* size asked however large or narrow the page, and as much text, boxes and matches    *)
(* as are allowed, unless a box of the text is one the reader does not believe or a drag  *)
(* ends past the limit inside a long one; a password is asked for a protected document  *)
(* only, and isolation found missing only when it is (bounded_render_size,              *)
(* decode_frame, main of render_worker).                                               *)
LimitsAgree ==
  /\ known # <<>> => Len(known) = Len(doc.pages) /\ doc.lock = "none"
  /\ result.status = "password" => doc.lock = "password"
  /\ result.status = "isolation" <=> request.conduct = "unconfined"
  /\ known # <<>> /\ request.conduct = "good" =>
       result.status = "answer" \/ Unbelieved(request) # {} \/ request.points = "beyond"
  /\ request.action = "render" /\ result.status = "answer" => result.of = request.size
=============================================================================
