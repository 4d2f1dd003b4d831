----------------------------- MODULE LayeredPages -----------------------------
(***************************************************************************)
(* The page operations of the engine inside the worker: pages of one or    *)
(* more documents are copied into new ones, and the layers those pages     *)
(* reach keep the visibility they have in their document                   *)
(* (engine/pdf_structural.py).                                             *)
(*                                                                         *)
(* A document is its pages, a graph of objects, and a catalog of layers.   *)
(* Its objects are containers ("dict", "array"), layers ("layer"), pages   *)
(* and the page tree ("pages") and what holds nothing ("scalar"); a direct *)
(* object lies in one container only and has no number of its own.         *)
(***************************************************************************)
EXTENDS Naturals, Integers, Sequences, FiniteSets

CONSTANTS
  Docs,          \* name -> [objects : id -> [kind, kids : Seq(id), direct], pages : Seq(Seq(id)), catalog]
  Operations,    \* [op, inputs : Seq(name), pages : Seq(page number), groups : Seq(Seq(page number)),
                 \*  after, angle]
  WalkBudget,    \* OPTIONAL_CONTENT_WALK_BUDGET
  EntryBudget    \* OPTIONAL_CONTENT_ENTRY_BUDGET

VARIABLES
  task,       \* the operation
  pc,
  todo,       \* what is left to copy: [out, input, pages], one per call of _copy_pages
  at,         \* the page of the present call whose layers are looked for
  stack,      \* of the walk, the last first
  seen,       \* numbered objects met in the present call
  reachable,  \* layers met in it
  left,       \* [containers, entries] of the budgets
  read,       \* inputs whose catalog has been read
  outputs,    \* per output: [pages : Seq(<<input, page>>), turned : Seq(page),
              \*              layers : Seq(<<input, id>>), off : set]
  created,    \* outputs saved
  outcome

vars == <<task, pc, todo, at, stack, seen, reachable, left, read, outputs, created, outcome>>

Range(s) == {s[i] : i \in DOMAIN s}
Upto(n) == [i \in 1 .. n |-> i]
FromTo(m, n) == [i \in 1 .. (IF n >= m THEN n - m + 1 ELSE 0) |-> m + i - 1]
Doc(t, input) == Docs[t.inputs[input]]
PageCount(t, input) == Len(Doc(t, input).pages)

\* A sequence without its later repetitions (_unique_pdf_objects).
Unique(s) ==
  LET firsts[n \in 0 .. Len(s)] ==
        IF n = 0 THEN <<>>
        ELSE IF s[n] \in Range(firsts[n - 1]) THEN firsts[n - 1] ELSE Append(firsts[n - 1], s[n])
  IN  firsts[Len(s)]

\* What of a sequence is in a set, in its order.
Those(s, S) ==
  LET those[n \in 0 .. Len(s)] ==
        IF n = 0 THEN <<>> ELSE IF s[n] \in S THEN Append(those[n - 1], s[n]) ELSE those[n - 1]
  IN  those[Len(s)]

\* The documents and the operations there may be.
IsDocument(doc) ==
  /\ IsFiniteSet(DOMAIN doc.objects)
  /\ \A x \in DOMAIN doc.objects :
       /\ doc.objects[x].kind \in {"dict", "array", "layer", "pages", "scalar"}
       /\ doc.objects[x].direct \in BOOLEAN /\ doc.objects[x].kids \in Seq(DOMAIN doc.objects)
  /\ doc.pages \in Seq(Seq(DOMAIN doc.objects))
  /\ \A list \in {doc.catalog.groups, doc.catalog.on, doc.catalog.off} : list \in Seq(DOMAIN doc.objects)

OperationRecords ==
  [op : {"merge", "extract", "remove", "reorder", "rotate", "split", "insert", "blank"},
   inputs : Seq(DOMAIN Docs) \ {<<>>}, pages : Seq(Nat), groups : Seq(Seq(Nat)), after : Nat, angle : Nat]
IsOperation(t) == t \in OperationRecords /\ (t.op = "insert" => Len(t.inputs) = 2)

-----------------------------------------------------------------------------
(* What each operation copies, and when it is refused.                      *)

\* validate_page_numbers
PagesExist(numbers, count) == count > 0 /\ numbers # <<>> /\ \A i \in DOMAIN numbers : numbers[i] \in 1 .. count

Remaining(t) == Those(Upto(PageCount(t, 1)), (1 .. PageCount(t, 1)) \ Range(t.pages))

IsValid(t) ==
  CASE t.op = "merge" -> TRUE
    [] t.op \in {"extract", "rotate"} -> PagesExist(t.pages, PageCount(t, 1))
    [] t.op = "remove" -> PagesExist(t.pages, PageCount(t, 1)) /\ Remaining(t) # <<>>
    [] t.op = "reorder" ->
         PagesExist(t.pages, PageCount(t, 1)) /\ Range(t.pages) = 1 .. PageCount(t, 1)
    [] t.op = "split" ->
         t.groups # <<>> /\ \A i \in DOMAIN t.groups : PagesExist(t.groups[i], PageCount(t, 1))
    [] t.op = "insert" ->
         /\ t.inputs[1] # t.inputs[2]
         /\ t.after \in 0 .. PageCount(t, 1) /\ PagesExist(t.pages, PageCount(t, 2))
    [] t.op = "blank" -> t.after \in 0 .. PageCount(t, 1)

Copy(out, input, pages) == [out |-> out, input |-> input, pages |-> pages]
Blank == [out |-> 1, input |-> 0, pages |-> <<>>]

MergeCopies(t) == [i \in DOMAIN t.inputs |-> Copy(1, i, Upto(PageCount(t, i)))]
SelectionCopies(t) == <<Copy(1, 1, IF t.op = "remove" THEN Remaining(t) ELSE t.pages)>>
SplitCopies(t) == [i \in DOMAIN t.groups |-> Copy(i, 1, t.groups[i])]

Before(t) == IF t.after > 0 THEN <<Copy(1, 1, Upto(t.after))>> ELSE <<>>
After(t) ==
  IF t.after < PageCount(t, 1) THEN <<Copy(1, 1, FromTo(t.after + 1, PageCount(t, 1)))>> ELSE <<>>
InsertionCopies(t) ==
  Before(t) \o <<IF t.op = "blank" THEN Blank ELSE Copy(1, 2, t.pages)>> \o After(t)

Copies(t) ==
  CASE t.op = "merge" -> MergeCopies(t)
    [] t.op \in {"extract", "remove", "reorder"} -> SelectionCopies(t)
    [] t.op = "split" -> SplitCopies(t)
    [] t.op \in {"insert", "blank"} -> InsertionCopies(t)

Empty == [pages |-> <<>>, turned |-> <<>>, layers |-> <<>>, off |-> {}]
OutputsOf(t) == IF t.op = "split" THEN DOMAIN t.groups ELSE {1}

Init ==
  /\ task \in Operations
  /\ pc = "open"
  /\ todo = <<>> /\ at = 0 /\ stack = <<>> /\ seen = {} /\ reachable = <<>>
  /\ left = [containers |-> WalkBudget, entries |-> EntryBudget]
  /\ read = {} /\ created = {}
  /\ outputs = [o \in OutputsOf(task) |-> Empty]
  /\ outcome = "none"

-----------------------------------------------------------------------------
Call == Head(todo)
Source == Doc(task, Call.input)
Catalog == Source.catalog
HasLayers == Catalog.groups # <<>>

\* Every file of the operation that was saved is taken back (_cleanup_created_outputs).
Fails(result) ==
  /\ pc' = "done" /\ outcome' = result /\ created' = {}
  /\ UNCHANGED <<task, todo, at, stack, seen, reachable, read, outputs>>

\* _ResourceWalk.spend: the budgets are those of the whole operation.
Spent(containers, entries) ==
  [containers |-> left.containers - containers, entries |-> left.entries - entries]
Exceeded(budgets) == budgets.containers < 0 \/ budgets.entries < 0

OpenFails ==
  /\ \/ pc = "open"
     \/ pc = "copy" /\ task.op = "merge" /\ todo # <<>> /\ Call.input \notin read
  /\ Fails("open_error") /\ UNCHANGED left

\* A rotation turns pages of the opened document itself, a repeated page once.
Turned(t) == IF t.angle = 0 THEN <<>> ELSE Unique(t.pages)
Rotates ==
  /\ pc = "open" /\ task.op = "rotate" /\ IsValid(task)
  /\ outputs' = [outputs EXCEPT ![1].pages = [i \in 1 .. PageCount(task, 1) |-> <<1, i>>],
                                ![1].turned = Turned(task)]
  /\ todo' = <<Copy(1, 1, Upto(PageCount(task, 1)))>>
  /\ pc' = "save"
  /\ UNCHANGED <<task, at, stack, seen, reachable, left, read, created, outcome>>

Opens ==
  /\ pc = "open" /\ (task.op = "rotate" => ~IsValid(task))
  /\ IF ~IsValid(task) THEN Fails("invalid") /\ UNCHANGED left
     ELSE /\ pc' = "copy" /\ todo' = Copies(task)
          /\ UNCHANGED <<task, at, stack, seen, reachable, left, read, outputs, created, outcome>>

SeenInTheOperation ==
  /\ pc = "copy" /\ todo # <<>> /\ Call.input # 0
  /\ LET entries == Len(Catalog.groups) + Len(Catalog.on) + Len(Catalog.off)
         budgets == IF HasLayers /\ Call.input \notin read THEN Spent(1, entries) ELSE left
     IN  /\ left' = budgets
         /\ IF Exceeded(budgets) THEN Fails("too_complex")
            ELSE /\ pc' = IF HasLayers THEN "look" ELSE "add"
                 /\ read' = read \cup {Call.input}
                 /\ at' = 1 /\ stack' = <<>> /\ reachable' = <<>>
                 /\ UNCHANGED <<task, todo, seen, outputs, created, outcome>>

\* The catalog of an input is read, and paid for, once (_ResourceWalk.catalog).
ReadsCatalog ==
  /\ pc = "copy" /\ todo # <<>> /\ Call.input # 0
  /\ LET entries == Len(Catalog.groups) + Len(Catalog.on) + Len(Catalog.off)
         budgets == IF HasLayers /\ Call.input \notin read THEN Spent(1, entries) ELSE left
     IN  /\ left' = budgets
         /\ IF Exceeded(budgets) THEN Fails("too_complex")
            ELSE /\ pc' = IF HasLayers THEN "look" ELSE "add"
                 /\ read' = read \cup {Call.input}
                 /\ at' = 1 /\ stack' = <<>> /\ seen' = {} /\ reachable' = <<>>
                 /\ UNCHANGED <<task, todo, outputs, created, outcome>>

LooksAtPage ==
  /\ pc = "look" /\ stack = <<>>
  /\ IF at > Len(Call.pages)
     THEN pc' = "add" /\ UNCHANGED <<at, stack>>
     ELSE pc' = "walk" /\ at' = at + 1 /\ stack' = Source.pages[Call.pages[at]]
  /\ UNCHANGED <<task, todo, seen, reachable, left, read, outputs, created, outcome>>

Top == stack[Len(stack)]
Below == SubSeq(stack, 1, Len(stack) - 1)
Object == Source.objects[Top]
Reversed(s) == [i \in DOMAIN s |-> s[Len(s) + 1 - i]]
IsNew == Object.kind # "scalar" /\ Top \notin seen

\* One turn of the walk: a container met before in this call is passed over; pages and the
\* page tree are not walked, nor what a layer holds (_page_optional_content_groups).
Visits ==
  /\ pc = "walk" /\ stack # <<>>
  /\ IF ~IsNew
     THEN /\ stack' = Below
          /\ UNCHANGED <<task, pc, todo, at, seen, reachable, left, read, outputs, created, outcome>>
     ELSE LET budgets == Spent(1, Len(Object.kids))
          IN  /\ left' = budgets
              /\ IF Exceeded(budgets) THEN Fails("too_complex")
                 ELSE /\ seen' = IF Object.direct THEN seen ELSE seen \cup {Top}
                      /\ reachable' = IF Object.kind = "layer" THEN Append(reachable, Top) ELSE reachable
                      /\ stack' = IF Object.kind \in {"layer", "pages"} THEN Below
                                  ELSE Below \o Reversed(Object.kids)
                      /\ UNCHANGED <<task, pc, todo, at, read, outputs, created, outcome>>

LeavesPage ==
  /\ pc = "walk" /\ stack = <<>> /\ pc' = "look"
  /\ UNCHANGED <<task, todo, at, stack, seen, reachable, left, read, outputs, created, outcome>>

\* _read_layer_catalog: numbered layers of the catalog, and those hidden when it opens.
Listed(doc) ==
  {g \in Range(doc.catalog.groups) : doc.objects[g].kind \in {"layer", "dict"} /\ ~doc.objects[g].direct}
Hidden(doc) ==
  {g \in Listed(doc) :
     g \in Range(doc.catalog.off) \/ (doc.catalog.base = "OFF" /\ g \notin Range(doc.catalog.on))}

OnlyTheLast(output) ==
  LET found == Those(Unique(reachable), Listed(Source))
  IN  [output EXCEPT !.layers = [i \in DOMAIN found |-> <<Call.input, found[i]>>],
                     !.off = {<<Call.input, g>> : g \in Range(found) \cap Hidden(Source)}]

\* _preserve_optional_content_defaults: the copies of the listed layers join those of the
\* calls before; a copy is of an object of an input, whatever its name.
Preserved(output) ==
  LET found == Those(Unique(reachable), Listed(Source))
      copies == [i \in DOMAIN found |-> <<Call.input, found[i]>>]
  IN  [output EXCEPT !.layers = Unique(@ \o copies),
                     !.off = @ \cup {<<Call.input, g>> : g \in Range(found) \cap Hidden(Source)}]

Copied(output) ==
  [output EXCEPT !.pages = @ \o [i \in DOMAIN Call.pages |-> <<Call.input, Call.pages[i]>>]]

IsLastOf(out) == Len(todo) = 1 \/ todo[2].out # out

AddsPages ==
  /\ pc = "add"
  /\ outputs' = [outputs EXCEPT ![Call.out] =
                   IF HasLayers THEN Preserved(Copied(@)) ELSE Copied(@)]
  /\ pc' = IF IsLastOf(Call.out) THEN "save" ELSE "copy"
  /\ todo' = IF IsLastOf(Call.out) THEN todo ELSE Tail(todo)
  /\ UNCHANGED <<task, at, stack, seen, reachable, left, read, created, outcome>>

AddsBlank ==
  /\ pc = "copy" /\ todo # <<>> /\ Call.input = 0
  /\ outputs' = [outputs EXCEPT ![1].pages = Append(@, <<0, 0>>)]
  /\ pc' = IF IsLastOf(1) THEN "save" ELSE "copy"
  /\ todo' = IF IsLastOf(1) THEN todo ELSE Tail(todo)
  /\ UNCHANGED <<task, at, stack, seen, reachable, left, read, created, outcome>>

Saves ==
  /\ pc = "save"
  /\ created' = created \cup {Call.out}
  /\ todo' = Tail(todo)
  /\ pc' = IF Tail(todo) = <<>> THEN "done" ELSE "copy"
  /\ outcome' = IF Tail(todo) = <<>> THEN "success" ELSE outcome
  /\ UNCHANGED <<task, at, stack, seen, reachable, left, read, outputs>>

SaveFails == pc = "save" /\ Fails("output_write_error") /\ UNCHANGED left

Next ==
  \/ OpenFails \/ Rotates \/ Opens \/ ReadsCatalog \/ LooksAtPage \/ Visits \/ LeavesPage
  \/ AddsPages \/ AddsBlank \/ Saves \/ SaveFails

Spec == Init /\ [][Next]_vars

-----------------------------------------------------------------------------
Succeeded == outcome = "success"

\* What can be reached from a page without passing through a layer, a page or the page tree.
ReachedFrom(doc, roots) ==
  LET opened(ids) == {x \in ids : doc.objects[x].kind \in {"dict", "array"}}
      within[n \in 0 .. Cardinality(DOMAIN doc.objects)] ==
        IF n = 0 THEN Range(roots)
        ELSE within[n - 1] \cup UNION {Range(doc.objects[x].kids) : x \in opened(within[n - 1])}
  IN  within[Cardinality(DOMAIN doc.objects)]

ReachedFromPages(doc, pages) == UNION {ReachedFrom(doc, doc.pages[p]) : p \in pages}

LayersOf(out, input) ==
  LET doc == Doc(task, input)
      pages == {p \in 1 .. Len(doc.pages) : <<input, p>> \in Range(outputs[out].pages)}
  IN  {g \in ReachedFromPages(doc, pages) : doc.objects[g].kind = "layer" /\ g \in Listed(doc)}

(* A copied page shows and hides in the new document what it shows and     *)
(* hides in its own: every layer it reaches that its document lists is     *)
(* listed once, hidden exactly if hidden there, whatever was copied before *)
(* or after it, and no layer of another page is                            *)
(* (_copy_pages, _preserve_optional_content_defaults).                     *)
LayersAreKept ==
  Succeeded /\ task.op # "rotate" =>
    \A out \in DOMAIN outputs :
       LET kept == UNION {{<<i, g>> : g \in LayersOf(out, i)} : i \in DOMAIN task.inputs}
       IN  /\ Range(outputs[out].layers) = kept
           /\ Len(outputs[out].layers) = Cardinality(kept)
           /\ outputs[out].off = {k \in kept : k[2] \in Hidden(Doc(task, k[1]))}

\* The pages of the inputs before input i.
PagesBefore(i) ==
  LET before[k \in 1 .. Len(task.inputs) + 1] ==
        IF k = 1 THEN 0 ELSE before[k - 1] + PageCount(task, k - 1)
  IN  before[i]

PageAt(out, i) == outputs[out].pages[i]
Has(out, n) == Len(outputs[out].pages) = n
Kept(n) == Cardinality({p \in 1 .. n : p \notin Range(task.pages)})

(* The pages of the result are those that were asked for, in that order,   *)
(* none lost at the seam of two copies (merge_pdfs, remove_pages,          *)
(* insert_pdf_pages, insert_blank_page, ...).                              *)
PagesAreAsAsked ==
  LET n == PageCount(task, 1)
      m == IF task.op = "blank" THEN 1 ELSE Len(task.pages)
      given(i) == IF task.op = "blank" THEN <<0, 0>> ELSE <<2, task.pages[i]>>
  IN  Succeeded =>
        CASE task.op \in {"extract", "reorder"} ->
               Has(1, m) /\ \A i \in 1 .. m : PageAt(1, i) = <<1, task.pages[i]>>
          [] task.op = "rotate" ->
               /\ Has(1, n) /\ \A i \in 1 .. n : PageAt(1, i) = <<1, i>>
               /\ \A p \in 1 .. n :
                    Cardinality({i \in DOMAIN outputs[1].turned : outputs[1].turned[i] = p})
                      = IF task.angle # 0 /\ p \in Range(task.pages) THEN 1 ELSE 0
          [] task.op = "remove" ->
               /\ Has(1, Kept(n))
               /\ \A p \in 1 .. n : p \in Range(task.pages) \/ PageAt(1, Kept(p)) = <<1, p>>
          [] task.op = "split" ->
               \A o \in DOMAIN task.groups :
                 /\ Has(o, Len(task.groups[o]))
                 /\ \A i \in DOMAIN task.groups[o] : PageAt(o, i) = <<1, task.groups[o][i]>>
          [] task.op = "merge" ->
               /\ Has(1, PagesBefore(Len(task.inputs) + 1))
               /\ \A i \in DOMAIN task.inputs : \A p \in 1 .. PageCount(task, i) :
                    PageAt(1, PagesBefore(i) + p) = <<i, p>>
          [] task.op \in {"insert", "blank"} ->
               /\ Has(1, n + m)
               /\ \A i \in 1 .. task.after : PageAt(1, i) = <<1, i>>
               /\ \A i \in 1 .. m : PageAt(1, task.after + i) = given(i)
               /\ \A i \in task.after + 1 .. n : PageAt(1, m + i) = <<1, i>>
=============================================================================
