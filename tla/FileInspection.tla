---------------------------- MODULE FileInspection ----------------------------
(***************************************************************************)
(* What a file is said to hold before it is shared or treated: the walk    *)
(* through the objects of a PDF with a limit on their number and on the    *)
(* time (engine/share_inspection.py), and the look at its first pages that *)
(* decides whether text recognition is worth it                            *)
(* (engine/document_inspection.py).  An expired limit is a choice, for the *)
(* clock may stop the walk anywhere.                                       *)
(***************************************************************************)
EXTENDS Naturals, FiniteSets, SequencesExt

CONSTANTS
  Files,       \* the files: [objects, root, info, xmp, pages]
  NodeLimits,  \* values of max_nodes
  Ancestors,   \* bound on the parents of a form field, 32 in the code
  MaxEntries,  \* MAX_PROPERTIES
  Letters,     \* what may be shown of all properties together
  Letter,      \* MAX_VALUE_CHARS
  SamplePages, \* MAX_SAMPLE_PAGES
  Streams,     \* max_content_streams
  Bytes,       \* max_declared_content_bytes
  Resources,   \* max_resource_objects
  Nothing      \* no object

VARIABLES
  file,        \* the file inspected
  limit,       \* its max_nodes
  at,          \* "walking", "looking", "done"
  pending,     \* of the walk: pairs <<object, role>>, the last one first
  seen,        \* indirect objects met
  nodes,
  counts,      \* category -> number
  embedded,    \* the streams of attachments met
  complete,
  sampled,     \* pages looked at
  texts, images,   \* pages with text, with images
  used,        \* [streams, bytes, resources] of the budget
  warnings     \* of the look

inspectionVars ==
  <<file, limit, at, pending, seen, nodes, counts, embedded, complete, sampled, texts, images,
    used, warnings>>
walkVars == <<pending, seen, nodes, counts, embedded, complete>>
lookVars == <<sampled, texts, images, used, warnings>>

Categories ==
  {"links", "widgets", "comments", "forms", "empty_signatures", "signatures",
   "internal_navigation", "external_references", "active_actions", "unknown_actions"}

InspectionInit ==
  /\ file \in Files /\ limit \in NodeLimits
  /\ at = "walking"
  /\ pending = <<<<file.root, "">>>> /\ seen = {} /\ nodes = 0
  /\ counts = [c \in Categories |-> 0] /\ embedded = {} /\ complete = TRUE
  /\ sampled = 0 /\ texts = 0 /\ images = 0 /\ warnings = {}
  /\ used = [streams |-> 0, bytes |-> 0, resources |-> 0]

-----------------------------------------------------------------------------
(* One object.  A plain one (a number, a text) holds nothing.              *)

Object(id) == file.objects[id]
One(condition) == IF condition THEN 1 ELSE 0

\* _field_properties: the type and the value of a field, its own or inherited.
Parents[id \in DOMAIN file.objects, n \in 0 .. Ancestors] ==
  IF n = 0 \/ Object(id).parent = Nothing THEN <<id>>
  ELSE <<id>> \o Parents[Object(id).parent, n - 1]
Cyclic(id) == Len(Parents[id, Ancestors]) >= Ancestors
Inherited(id, Has(_)) == \E i \in DOMAIN Parents[id, Ancestors] : Has(Object(Parents[id, Ancestors][i]))
IsField(id) == Inherited(id, LAMBDA o : o.field # "")
FieldOf(id) ==
  LET chain == SelectSeq(Parents[id, Ancestors], LAMBDA p : Object(p).field # "")
  IN  Object(Head(chain)).field
HasValue(id) == Inherited(id, LAMBDA o : o.filled)
AsksForField(id) == Object(id).field # "" \/ Object(id).annot = "widgets"

Signs(o, role) == (o.signs # "" \/ role = "signature_value") /\ o.contents

ActionOf(o, role) ==
  IF role = "action" \/ o.action \in {"external_references", "active_actions"}
  THEN IF o.action = "" THEN "unknown_actions" ELSE o.action
  ELSE ""

\* What the visit of an object adds to a category.
Adds(id, role, c) ==
  LET o == Object(id)
  IN  One(o.annot = c)
      + One(c = "forms" /\ AsksForField(id) /\ IsField(id) /\ ~o.kids)
      + One(c = "empty_signatures" /\ AsksForField(id) /\ IsField(id) /\ ~o.kids
            /\ FieldOf(id) = "sig" /\ ~HasValue(id))
      + One(c = "signatures" /\ Signs(o, role))
      + One(c = ActionOf(o, role))
      + One(c = "internal_navigation" /\ o.dest)
      + One(c = "external_references" /\ o.elsewhere)

RoleOf(o, role, key) ==
  CASE o.shape = "array" -> role
    [] key = "V" /\ o.field = "sig" -> "signature_value"
    [] key \in {"A", "OpenAction", "Next"} -> "action"
    [] key = "AA" -> "additional_actions"
    [] role = "additional_actions" -> "action"
    [] OTHER -> ""

ChildrenOf(id, role) ==
  [i \in DOMAIN Object(id).children |->
     <<Object(id).children[i].to, RoleOf(Object(id), role, Object(id).children[i].key)>>]

-----------------------------------------------------------------------------
(* The walk.                                                               *)

Stop == at' = "looking" /\ UNCHANGED <<file, limit, lookVars>>
Incomplete ==
  /\ complete' = FALSE /\ Stop

\* The limit of nodes is reached, or the time is over.
GiveUp ==
  /\ at = "walking" /\ pending # <<>>
  /\ nodes' = nodes + 1 /\ Incomplete
  /\ UNCHANGED <<pending, seen, counts, embedded>>

\* An object met before is visited again.
VisitAgain(id) == Object(id).shape # "plain"

\* An indirect object is visited once, a direct one has one parent only.
IsVisited(id) == Object(id).shape # "plain" /\ (Object(id).indirect => id \notin seen)

Skip ==
  /\ at = "walking" /\ pending # <<>> /\ nodes < limit
  /\ ~IsVisited(Last(pending)[1])
  /\ nodes' = nodes + 1
  /\ pending' = Front(pending)
  /\ UNCHANGED <<file, limit, at, seen, counts, embedded, complete, lookVars>>

\* A visit: the parents of a field may be a circle, which ends the walk; so does a signature
\* without contents, or a child beyond the limit.
Visit ==
  LET id == Last(pending)[1]  role == Last(pending)[2]  o == Object(id)  rest == Front(pending)
      broken == AsksForField(id) /\ Cyclic(id)
      hollow == o.signs = "range" /\ ~o.contents
      room == IF limit > nodes + 1 + Len(rest) THEN limit - (nodes + 1) - Len(rest) ELSE 0
      children == ChildrenOf(id, role)
      fits == Len(children) <= room
  IN  /\ at = "walking" /\ pending # <<>> /\ nodes < limit
      /\ IsVisited(id)
      /\ nodes' = nodes + 1
      /\ seen' = IF o.indirect THEN seen \cup {id} ELSE seen
      /\ counts' = [c \in Categories |->
                      counts[c] + (IF broken THEN One(o.annot = c) ELSE Adds(id, role, c))]
      /\ embedded' = IF broken THEN embedded ELSE embedded \cup o.embeds
      /\ IF broken \/ hollow \/ ~fits THEN Incomplete
         ELSE UNCHANGED <<file, limit, at, complete, lookVars>>
      /\ pending' = IF broken THEN rest
                    ELSE rest \o SubSeq(children, 1, IF fits THEN Len(children) ELSE room)

WalkEnds ==
  /\ at = "walking" /\ pending = <<>>
  /\ Stop /\ UNCHANGED walkVars

-----------------------------------------------------------------------------
(* The properties of the file that are listed.                             *)

\* metadata, the entries of /Info: what is listed and how it went.
InfoListed == SubSeq(file.info, 1, IF Len(file.info) < MaxEntries THEN Len(file.info) ELSE MaxEntries)
InfoState ==
  CASE file.info = <<>> -> "absent"
    [] \E i \in DOMAIN InfoListed : InfoListed[i] = Nothing -> "unreadable"
    [] Len(file.info) > MaxEntries -> "limited"
    [] OTHER -> "present"

\* _bounded_xmp, _xml_properties: all of it, or nothing.
XmpState ==
  CASE file.xmp = <<>> -> "absent"
    [] \E i \in DOMAIN file.xmp : i <= MaxEntries + 1 /\ file.xmp[i] = Nothing -> "unreadable"
    [] Len(file.xmp) > MaxEntries -> "limited"
    [] OTHER -> "present"

Readable(list) == SelectSeq(list, LAMBDA length : length # Nothing)
Listed == Readable(InfoListed) \o (IF XmpState = "present" THEN file.xmp ELSE <<>>)

\* add: as much of a value as there is room for.
ShownOf[i \in 0 .. Len(Listed)] ==
  IF i = 0 THEN [left |-> Letters, shown |-> <<>>]
  ELSE LET before == ShownOf[i - 1]
           room == IF Letter < before.left THEN Letter ELSE before.left
           n == IF Listed[i] < room THEN Listed[i] ELSE room
       IN  [left |-> before.left - n,
            shown |-> Append(before.shown, [letters |-> n, shortened |-> Listed[i] > room])]
Properties == ShownOf[Len(Listed)].shown

-----------------------------------------------------------------------------
(* The look at the first pages.                                            *)

\* _page_has_nonempty_content, stopped by the clock before stream `cut` + 1.
TextFrom(page, cut) ==
  LET n == Len(page.streams)
      taken[i \in 0 .. n] ==
        IF i = 0 THEN [text |-> FALSE, streams |-> used.streams, bytes |-> used.bytes, over |-> {}]
        ELSE LET was == taken[i - 1]  size == page.streams[i]
             IN  IF was.over # {} THEN was
                 ELSE IF i > cut THEN [was EXCEPT !.over = {"timeout"}]
                 ELSE IF was.streams >= Streams THEN [was EXCEPT !.over = {"streams"}]
                 ELSE IF size = 0 THEN [was EXCEPT !.streams = @ + 1]
                 ELSE IF size > Bytes - was.bytes
                   THEN [text |-> TRUE, streams |-> was.streams + 1, bytes |-> Bytes, over |-> {"bytes"}]
                 ELSE [text |-> TRUE, streams |-> was.streams + 1, bytes |-> was.bytes + size, over |-> {}]
  IN  taken[n]

\* _page_has_image_xobjects
ImageFrom(page, cut) ==
  LET n == Len(page.resources)
      first == CHOOSE i \in 1 .. n + 1 :
                 /\ i <= n => page.resources[i] = "image"
                 /\ \A j \in 1 .. i - 1 : page.resources[j] # "image"
      needed == IF first <= n THEN first ELSE n
      free == Resources - used.resources
  IN  IF needed <= cut /\ needed <= free
        THEN [image |-> first <= n, resources |-> used.resources + needed, over |-> {}]
      ELSE IF cut <= free
        THEN [image |-> FALSE, resources |-> used.resources + cut, over |-> {"timeout"}]
      ELSE [image |-> FALSE, resources |-> Resources, over |-> {"resources"}]

\* _inspect_sample_pages
MorePages == sampled < SamplePages /\ sampled < Len(file.pages)

LookAtPage ==
  LET page == file.pages[sampled + 1]
      none == [text |-> FALSE, streams |-> used.streams, bytes |-> used.bytes, over |-> {}]
  IN  /\ at = "looking" /\ MorePages /\ "timeout" \notin warnings
      /\ sampled' = sampled + 1
      /\ \E s \in 0 .. Len(page.streams), r \in 0 .. Len(page.resources) :
           LET t == IF page.fonts THEN TextFrom(page, s) ELSE none
               i == ImageFrom(page, IF "timeout" \in t.over THEN 0 ELSE r)
           IN  /\ texts' = texts + One(~page.broken /\ t.text)
               /\ images' = images + One(~page.broken /\ i.image)
               /\ used' = [streams |-> t.streams, bytes |-> t.bytes, resources |-> i.resources]
               /\ warnings' = warnings \cup t.over \cup i.over \cup (IF page.broken THEN {"page"} ELSE {})
      /\ UNCHANGED <<file, limit, at, walkVars>>

LookEnds ==
  /\ at = "looking" /\ at' = "done"
  /\ warnings' = IF MorePages THEN warnings \cup {"timeout"} ELSE warnings
  /\ UNCHANGED <<file, limit, walkVars, sampled, texts, images, used>>

\* _scan_likelihood
Likelihood ==
  CASE sampled = 0 -> "unknown"
    [] texts > 0 -> "low"
    [] images = 0 -> "unknown"
    [] images + 1 >= sampled -> "high"
    [] OTHER -> "medium"
RecommendsOcr == Likelihood \in {"medium", "high"} /\ texts = 0

InspectionNext == GiveUp \/ Skip \/ Visit \/ WalkEnds \/ LookAtPage \/ LookEnds

InspectionSpec == InspectionInit /\ [][InspectionNext]_inspectionVars

-----------------------------------------------------------------------------
(* Properties.                                                             *)

Step(pairs) ==
  pairs \cup UNION {{ChildrenOf(p[1], p[2])[i] : i \in DOMAIN Object(p[1]).children} :
                    p \in {q \in pairs : Object(q[1]).shape # "plain"}}
\* Every object under every role it can be met in.
Reached[n \in 0 .. Cardinality(DOMAIN file.objects)] ==
  IF n = 0 THEN {<<file.root, "">>} ELSE Step(Reached[n - 1])
AllReached == Reached[Cardinality(DOMAIN file.objects)]
Held == {p[1] : p \in {q \in AllReached : Object(q[1]).shape # "plain"}}

Most(id, c) ==
  LET most == {Adds(id, p[2], c) : p \in {q \in AllReached : q[1] = id}}
  IN  CHOOSE n \in most : \A m \in most : m <= n

PageHasText(page) == page.fonts /\ \E i \in DOMAIN page.streams : page.streams[i] > 0

\* What an inspection says is so.  A walk that says it is complete has counted, once, each
\* thing that shows in its own entries, so that what it reports as absent is absent; one that
\* is not complete has counted no more than there is.  Properties said to be present are all
\* listed, in full or marked as shortened.  Text recognition is recommended without a warning
\* only if no page that was looked at has text.
SaysWhatIsThere ==
  at = "done" =>
    /\ \A c \in Categories : counts[c] <= MapThenSumSet(LAMBDA id : Most(id, c), Held)
    /\ complete => /\ \A c \in Categories : counts[c] >= MapThenSumSet(LAMBDA id : Adds(id, "", c), Held)
                   /\ embedded = UNION {Object(id).embeds : id \in Held}
    /\ InfoState = "present" => \A i \in DOMAIN file.info :
         Properties[i].letters = file.info[i] \/ Properties[i].shortened
    /\ XmpState = "present" => \A i \in DOMAIN file.xmp :
         LET p == Properties[Len(Readable(InfoListed)) + i]
         IN  p.letters = file.xmp[i] \/ p.shortened
    /\ (RecommendsOcr /\ warnings = {}) => \A i \in 1 .. sampled : ~PageHasText(file.pages[i])
=============================================================================
