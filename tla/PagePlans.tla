------------------------------- MODULE PagePlans -------------------------------
(***************************************************************************)
(* What a tool on pages will do, from the settings of the user to the      *)
(* files of the job: splitting, extracting and removing pages              *)
(* (ui/tool_pages/visual_page_operation_page.py, ui/components/             *)
(* page_groups.py, tool_flow.py, domain/page_plans.py, page_ranges.py,      *)
(* engine/pdf_structural.py).                                              *)
(*                                                                         *)
(* Pages are numbers, an output is a sequence of pages, a typed expression  *)
(* is the sequence of its <<first, last>> parts ("1-2,4" is                *)
(* << <<1, 2>>, <<4, 4>> >>, and a text with no meaning stands for one with *)
(* a part whose end is before its start).  The name of an output is a       *)
(* tuple: <<"part", i>>, <<"pages", first, last>>, or <<"file", k>> for the *)
(* k-th name proposed for a single file.  How the source is counted is the  *)
(* subject of CountedSources, how the outputs are published that of         *)
(* OutputPublication: here publishing is one step.                          *)
(***************************************************************************)
EXTENDS Naturals, SequencesExt

CONSTANTS
  Operations,  \* the tools considered: "split", "extract", "remove"
  PageCounts,  \* the numbers of pages a source may have
  Texts,       \* the expressions the user may type
  MaxGroups,   \* MAX_SPLIT_OUTPUT_GROUPS
  MaxListed,   \* bound: the pages listed in the outputs of a split, repeats counted
  MaxFile      \* bound: the names proposed for a single file

Modes == {"every_n", "single_pages", "groups", "ranges"}
NoPlan == [kind |-> "none", parts |-> <<>>]
NoResult == [shown |-> FALSE]

VARIABLES
  operation,  \* the tool, fixed
  portable,   \* the name of the source is one every system takes, fixed
  onDisk,     \* the pages of the source
  count,      \* the pages counted, 0 before
  s,          \* the settings: mode, size, sizeMax, groups, marked, text, dirty, visible
  folder,     \* the names taken in the output folder
  target,     \* the number of the name proposed for a single file
  job,        \* the running job: its plan, its target, what was announced
  bar,        \* the action bar: whether the action is offered, the success shown
  unheard     \* history: the settings changed since without the page hearing of it

constant == <<operation, portable>>
files == <<onDisk, folder, target>>
vars == <<constant, count, s, files, job, bar, unheard>>

(***************************************************************************)
(* Pages and expressions.                                                  *)
(***************************************************************************)
Interval(first, last) == [i \in 1 .. (last + 1 - first) |-> first + i - 1]
Increasing(list) == \A i, j \in DOMAIN list : i < j => list[i] < list[j]
InOrder(pages) == CHOOSE list \in [1 .. Cardinality(pages) -> pages] : Increasing(list)
Pages(parts) == UNION {ToSet(parts[i]) : i \in DOMAIN parts}
Min2(a, b) == IF a < b THEN a ELSE b

\* pages_to_range_expression: the runs of consecutive pages, in order.
RangesOf(pages) ==
  LET begins == {p \in pages : p = 1 \/ p - 1 \notin pages}
      runs == {r \in begins \X pages :
                 r[1] <= r[2] /\ r[1] .. r[2] \subseteq pages /\ r[2] + 1 \notin pages}
  IN  SetToSortSeq(runs, LAMBDA x, y : x[1] < y[1])

\* parse_page_range_groups
Parses(text) == text # <<>> /\ \A i \in DOMAIN text : 1 <= text[i][1] /\ text[i][1] <= text[i][2]
Parsed(text) == [i \in DOMAIN text |-> Interval(text[i][1], text[i][2])]

\* validate_page_numbers
Valid(parts, n) == Pages(parts) # {} /\ Pages(parts) \subseteq 1 .. n

\* every_n_pages_groups: the last group keeps the remainder.
EveryN(n, size) ==
  [i \in 1 .. ((n + size - 1) \div size) |-> Interval((i - 1) * size + 1, Min2(i * size, n))]

\* PageGroupListWidget._insert_unique_pages: where the incoming pages go among those
\* that stay.  The index is compared with what is left of itself.
Adjusted(current, incoming, index) ==
  LET left[i \in 0 .. Len(current)] ==
        IF i = 0 THEN Min2(index, Len(current))
        ELSE IF current[i] \in incoming /\ i - 1 < left[i - 1] THEN left[i - 1] - 1
        ELSE left[i - 1]
  IN  left[Len(current)]

Without(list, pages) == SelectSeq(list, LAMBDA p : p \notin pages)

\* _unique_pages
Unique(list) ==
  FoldLeft(LAMBDA kept, p : IF Contains(kept, p) THEN kept ELSE Append(kept, p), <<>>, list)

Inserted(current, incoming, index) ==
  LET retained == Without(current, ToSet(incoming))
      at == Min2(Adjusted(current, ToSet(incoming), index), Len(retained))
  IN  SubSeq(retained, 1, at) \o incoming \o SubSeq(retained, at + 1, Len(retained))

\* _move_selected_to: the row a page moves to; rows count from 0 there, from 1 here.
Moved(list, from, index) ==
  LET row == IF index >= from THEN index ELSE index + 1
  IN  InsertAt(RemoveAt(list, from), row, list[from])

(***************************************************************************)
(* The plan in force: _job_options, NoPlan when it raises.                 *)
(***************************************************************************)
ManualRangeActive(t) ==
  /\ t.text # <<>>
  /\ IF operation = "split" THEN t.mode = "ranges" ELSE t.dirty /\ t.visible

ManualUnbounded(t, n) ==
  IF ~Parses(t.text) THEN NoPlan
  ELSE IF operation = "split" THEN [kind |-> "ranges", parts |-> Parsed(t.text)]
  ELSE [kind |-> "pages", parts |-> <<FlattenSeq(Parsed(t.text))>>]

ManualPlan(t, n) ==
  LET parts == Parsed(t.text)
      plan == IF operation = "split" THEN [kind |-> "ranges", parts |-> parts]
              ELSE [kind |-> "pages", parts |-> <<FlattenSeq(parts)>>]
      removesAll == operation = "remove" /\ Pages(plan.parts) = 1 .. n
  IN  IF Parses(t.text) /\ Valid(plan.parts, n) /\ ~removesAll THEN plan ELSE NoPlan

\* SplitPlanModel: empty outputs are ignored, a page goes to one output, once.
\* A page listed twice in one output is not looked for.
NonEmpty(groups) ==
  LET order == InOrder({g \in DOMAIN groups : groups[g] # <<>>})
  IN  [i \in DOMAIN order |-> groups[order[i]]]

Apart(parts) == \A i, j \in DOMAIN parts : i # j => ToSet(parts[i]) \cap ToSet(parts[j]) = {}

GroupsPlan(t, n) ==
  LET groups == NonEmpty(t.groups)
  IN  IF Apart(groups) /\ Valid(groups, n) THEN [kind |-> "groups", parts |-> groups] ELSE NoPlan

SplitPlan(t, n) ==
  IF t.mode = "ranges" THEN NoPlan
  ELSE IF t.mode = "groups" THEN GroupsPlan(t, n)
  ELSE [kind |-> "groups", parts |-> EveryN(n, IF t.mode = "every_n" THEN t.size ELSE 1)]

\* PageSelectionModel
MarkedPlan(t, n) ==
  IF Valid(<<t.marked>>, n) /\ ~(operation = "remove" /\ ToSet(t.marked) = 1 .. n)
  THEN [kind |-> "pages", parts |-> <<t.marked>>] ELSE NoPlan

Plan(t, n) ==
  IF n = 0 THEN NoPlan
  ELSE IF ManualRangeActive(t) THEN ManualPlan(t, n)
  ELSE IF operation = "split" THEN SplitPlan(t, n) ELSE MarkedPlan(t, n)

\* split_group_file_names, split_range_file_names
Names(plan, k) ==
  IF plan.kind = "pages" THEN << <<"file", k>> >>
  ELSE [i \in DOMAIN plan.parts |->
          IF plan.kind = "groups" THEN <<"part", i>>
          ELSE <<"pages", Head(plan.parts[i]), Last(plan.parts[i])>>]

\* _split_file_names: nothing is announced of a name that must be changed.
SplitNames(plan) == IF operation = "split" /\ portable THEN Names(plan, target) ELSE <<>>

\* _blocker
CopiesWhole(plan, n) ==
  operation = "split" /\ Len(plan.parts) = 1 /\ plan.parts[1] = Interval(1, n)

Blocked(t, n, taken) ==
  \/ n = 0
  \/ operation = "split" /\ n < 2
  \/ LET plan == Plan(t, n)
     IN  plan = NoPlan \/ CopiesWhole(plan, n) \/ ToSet(SplitNames(plan)) \cap taken # {}

(***************************************************************************)
(* The handlers of the settings.  They are disabled during a job; most end  *)
(* with clear_result and _update_action_state.                             *)
(***************************************************************************)
Editing == job.kind = "none"

Offer(t, n, result) == bar' = [offered |-> ~Blocked(t, n, folder), result |-> result]

Edited(t) ==
  /\ s' = t
  /\ Offer(t, count, NoResult)
  /\ unheard' = FALSE
  /\ UNCHANGED <<constant, count, files, job>>

EditedUnheard(t) ==
  /\ s' = t
  /\ unheard' = TRUE
  /\ UNCHANGED <<constant, count, files, job, bar>>

\* _sync_advanced_from_visual: the expression follows the pages until it is edited.
Synced(t) ==
  IF t.dirty THEN t
  ELSE [t EXCEPT !.text = IF operation = "split" THEN <<>> ELSE RangesOf(ToSet(t.marked))]

Listed(groups) == Len(FlattenSeq(groups))

\* dropEvent and _split_pages_dropped: the other outputs lose the pages.
DroppedOn(groups, g, pages, index) ==
  [h \in DOMAIN groups |->
     IF h = g THEN Unique(Inserted(groups[g], pages, index))
     ELSE Without(groups[h], ToSet(pages))]

SplitPagesDropped(g, pages, index) ==
  /\ Editing /\ operation = "split" /\ s.mode = "groups"
  /\ index <= Len(s.groups[g])
  /\ LET groups == DroppedOn(s.groups, g, pages, index)
     IN  Listed(groups) <= MaxListed /\ Edited(Synced([s EXCEPT !.groups = groups]))

\* A page dragged from another output is copied by the list itself, which tells nobody.
OutputPageCopied(g, h, page) ==
  /\ Editing /\ operation = "split" /\ s.mode = "groups"
  /\ g # h /\ page \in ToSet(s.groups[h])
  /\ Listed(s.groups) < MaxListed
  /\ EditedUnheard([s EXCEPT !.groups[g] = Append(@, page)])

OutputPageMoved(g, from, index) ==
  /\ Editing /\ operation = "split" /\ s.mode = "groups"
  /\ from \in DOMAIN s.groups[g] /\ index \in 0 .. Len(s.groups[g])
  /\ index \notin {from - 1, from}
  /\ Edited(Synced([s EXCEPT !.groups[g] = Moved(@, from, index)]))

OutputPageRemoved(g, page) ==
  /\ Editing /\ operation = "split" /\ s.mode = "groups"
  /\ page \in ToSet(s.groups[g])
  /\ Edited(Synced([s EXCEPT !.groups[g] = Without(@, {page})]))

\* _add_split_group
AddSplitGroup ==
  /\ Editing /\ operation = "split" /\ s.mode = "groups"
  /\ Len(s.groups) < MaxGroups
  /\ s' = [s EXCEPT !.groups = Append(@, <<>>)]
  /\ Offer(s', count, bar.result)
  /\ UNCHANGED <<constant, count, files, job, unheard>>

ExtractPagesDropped(pages, index) ==
  /\ Editing /\ operation = "extract" /\ count # 0
  /\ index <= Len(s.marked)
  /\ Edited(Synced([s EXCEPT !.marked = Inserted(@, pages, index)]))

ExtractPageMoved(from, index) ==
  /\ Editing /\ operation = "extract"
  /\ from \in DOMAIN s.marked /\ index \in 0 .. Len(s.marked)
  /\ index \notin {from - 1, from}
  /\ Edited(Synced([s EXCEPT !.marked = Moved(@, from, index)]))

\* _source_page_clicked adds to the extracted pages, and restores a page removed.
SourcePageClicked(page) ==
  /\ Editing /\ page \in 1 .. count
  /\ \/ /\ operation = "extract"
        /\ Edited(Synced([s EXCEPT !.marked = IF page \in ToSet(@) THEN @ ELSE Append(@, page)]))
     \/ /\ operation = "remove"
        /\ LET kept == ToSet(s.marked)
               marked == IF page \in kept THEN kept \ {page} ELSE kept \cup {page}
           IN  Edited(Synced([s EXCEPT !.marked = InOrder(marked)]))

\* A page of the extracted output is removed by a click on it.
ExtractPageRemoved(page) ==
  /\ Editing /\ operation = "extract" /\ page \in ToSet(s.marked)
  /\ Edited(Synced([s EXCEPT !.marked = Without(@, {page})]))

ManualTextEdited(text) ==
  /\ Editing /\ text # s.text
  /\ IF operation = "split" THEN s.mode = "ranges" ELSE s.visible
  /\ Edited([s EXCEPT !.text = text, !.dirty = TRUE])

SplitModeChanged(mode) ==
  /\ Editing /\ operation = "split" /\ mode # s.mode
  /\ Edited([s EXCEPT !.mode = mode])

SizeChangedUnnoticed(size) ==
  /\ Editing /\ operation = "split" /\ s.mode = "every_n"
  /\ size \in 1 .. s.sizeMax /\ size # s.size
  /\ s' = [s EXCEPT !.size = size]
  /\ Offer(s', count, bar.result)
  /\ UNCHANGED <<constant, count, files, job, unheard>>

SplitSizeChanged(size) ==
  /\ Editing /\ operation = "split" /\ s.mode = "every_n"
  /\ size \in 1 .. s.sizeMax /\ size # s.size
  /\ Edited([s EXCEPT !.size = size])

\* _toggle_advanced: neither the result nor the action hears of it.
ToggleAdvanced ==
  /\ Editing /\ operation # "split"
  /\ EditedUnheard([s EXCEPT !.visible = ~@])

\* _choose: another folder, where nothing is in the way.
OutputChosen ==
  /\ Editing /\ folder # {}
  /\ folder' = {} /\ target' = 1
  /\ bar' = [offered |-> ~Blocked(s, count, {}), result |-> NoResult]
  /\ UNCHANGED <<constant, count, s, onDisk, job, unheard>>

(***************************************************************************)
(* The source, which the window may replace at any moment, and its folder. *)
(***************************************************************************)
FirstFree(taken) == CHOOSE k \in 1 .. MaxFile + 1 :
  <<"file", k>> \notin taken /\ \A l \in 1 .. k - 1 : <<"file", l>> \in taken

\* _set_input_path: the file is given again, or another that is like it; the result of
\* a running job is on its way.
SetInputPath ==
  /\ count # 0
  /\ s' = [s EXCEPT !.groups = [g \in DOMAIN s.groups |-> <<>>], !.marked = <<>>,
                    !.text = <<>>, !.dirty = FALSE]
  /\ count' = 0
  /\ target' = FirstFree(folder)
  /\ bar' = [offered |-> FALSE, result |-> NoResult]
  /\ job' = [job EXCEPT !.replaced = job.kind # "none"]
  /\ unheard' = FALSE
  /\ UNCHANGED <<constant, onDisk, folder>>

\* _page_count_finished
PageCountFinished ==
  /\ count = 0
  /\ count' = onDisk
  /\ s' = [s EXCEPT !.sizeMax = onDisk, !.size = Min2(2, onDisk)]
  /\ Offer(s', onDisk, bar.result)
  /\ UNCHANGED <<constant, files, job, unheard>>

\* Another program saves the source, or a file in the output folder.
SourceRewritten(n) ==
  /\ n # onDisk
  /\ onDisk' = n
  /\ UNCHANGED <<constant, count, s, folder, target, job, bar, unheard>>

NameTaken(name) ==
  /\ folder = {} /\ folder' = {name}
  /\ UNCHANGED <<constant, onDisk, count, s, target, job, bar, unheard>>

FolderTidied ==
  /\ folder # {} /\ folder' = {}
  /\ UNCHANGED <<constant, onDisk, count, s, target, job, bar, unheard>>

(***************************************************************************)
(* The job.                                                                *)
(***************************************************************************)
NoJob == [kind |-> "none", plan |-> NoPlan, target |-> 0, announced |-> <<>>, counted |-> 0,
          replaced |-> FALSE]

StartOperation ==
  /\ Editing /\ bar.offered /\ target <= MaxFile
  /\ ~Blocked(s, count, folder)
  /\ job' = [kind |-> operation, plan |-> Plan(s, count), target |-> target,
             announced |-> SplitNames(Plan(s, count)), counted |-> count, replaced |-> FALSE]
  /\ bar' = [bar EXCEPT !.result = NoResult]
  /\ unheard' = FALSE
  /\ UNCHANGED <<constant, count, s, files>>

\* What the engine writes of a source of n pages.
Contents(kind, plan, n) ==
  IF kind = "remove" THEN << InOrder(1 .. n \ ToSet(plan.parts[1])) >> ELSE plan.parts

\* split_pdf_by_ranges, split_pdf_by_page_groups, extract_pages, remove_pages
Refusal(names) ==
  LET contents == Contents(job.kind, job.plan, onDisk)
  IN  IF ~Valid(job.plan.parts, onDisk) \/ <<>> \in ToSet(contents) THEN "selection"
      ELSE IF \E i, j \in DOMAIN names : i # j /\ names[i] = names[j] THEN "names"
      ELSE IF ToSet(names) \cap folder # {} THEN "exists"
      ELSE "none"

\* _operation_finished: a name that was taken is left for the next free one.
Finished(result, taken) ==
  /\ bar' = [offered |-> ~Blocked(s, count, taken), result |-> result]
  /\ job' = NoJob
  /\ UNCHANGED <<constant, onDisk, count, s, unheard>>

OperationSucceeds ==
  /\ job.kind # "none"
  /\ LET names == Names(job.plan, job.target)
         contents == Contents(job.kind, job.plan, onDisk)
         taken == folder \cup ToSet(names)
     IN  /\ Refusal(names) = "none"
         /\ folder' = taken
         /\ target' = IF <<"file", target>> \in taken THEN FirstFree(taken) ELSE target
         /\ Finished([shown |-> TRUE, job |-> job,
                      files |-> [i \in DOMAIN names |-> [name |-> names[i], pages |-> contents[i]]]],
                     taken)

\* The engine refuses, a name is taken, the job is cancelled or its worker fails: an
\* error is shown instead.
OperationFails ==
  /\ job.kind # "none"
  /\ Finished(NoResult, folder)
  /\ UNCHANGED <<folder, target>>

Init ==
  /\ operation \in Operations
  /\ portable \in IF operation = "split" THEN BOOLEAN ELSE {TRUE}
  /\ onDisk \in PageCounts
  /\ count = 0
  /\ s = [mode |-> "every_n", size |-> 2, sizeMax |-> 2, groups |-> << <<>>, <<>> >>,
          marked |-> <<>>, text |-> <<>>, dirty |-> FALSE, visible |-> FALSE]
  /\ folder = {} /\ target = 1
  /\ job = NoJob
  /\ bar = [offered |-> FALSE, result |-> NoResult]
  /\ unheard = FALSE

SettingsChange ==
  \/ \E g \in DOMAIN s.groups :
       \/ \E pages \in SUBSET (1 .. count) \ {{}}, index \in 0 .. MaxListed :
            SplitPagesDropped(g, InOrder(pages), index)
       \/ \E h \in DOMAIN s.groups, page \in 1 .. count : OutputPageCopied(g, h, page)
       \/ \E from, index \in 0 .. MaxListed : OutputPageMoved(g, from, index)
       \/ \E page \in 1 .. count : OutputPageRemoved(g, page)
  \/ \E pages \in SUBSET (1 .. count) \ {{}}, index \in 0 .. count :
       ExtractPagesDropped(InOrder(pages), index)
  \/ \E from, index \in 0 .. count : ExtractPageMoved(from, index)
  \/ \E page \in 1 .. count : SourcePageClicked(page) \/ ExtractPageRemoved(page)
  \/ \E text \in Texts : ManualTextEdited(text)
  \/ \E mode \in Modes : SplitModeChanged(mode)
  \/ \E size \in 1 .. s.sizeMax : SplitSizeChanged(size)
  \/ AddSplitGroup \/ ToggleAdvanced \/ OutputChosen

Next ==
  \/ SettingsChange
  \/ SetInputPath \/ PageCountFinished
  \/ \E n \in PageCounts : SourceRewritten(n)
  \/ NameTaken(IF operation = "split" THEN <<"part", 1>> ELSE <<"file", 1>>)
  \/ FolderTidied
  \/ StartOperation
  \/ OperationSucceeds \/ OperationFails

Spec == Init /\ [][Next]_vars

-----------------------------------------------------------------------------
(* The types of the variables, the lists of pages being those of the       *)
(* counted source.                                                         *)
TypeOK ==
  /\ operation \in Operations /\ portable \in BOOLEAN
  /\ onDisk \in PageCounts /\ count \in PageCounts \cup {0}
  /\ s.mode \in Modes /\ s.size \in 1 .. s.sizeMax
  /\ Len(s.groups) \in 2 .. MaxGroups /\ Listed(s.groups) <= MaxListed
  /\ Pages(s.groups) \cup ToSet(s.marked) \subseteq 1 .. count
  /\ s.dirty \in BOOLEAN /\ s.visible \in BOOLEAN
  /\ target \in 1 .. MaxFile + 1

(* A plan that the page accepts is one the engine carries out, unless the  *)
(* source was saved with other pages since, or an expression of a split    *)
(* names the same range twice, or another program took a name: what the    *)
(* page checks (_blocker, SplitPlanModel, PageSelectionModel) and what the  *)
(* engine checks again in its own way agree.                               *)
AcceptedPlansAreCarriedOut ==
  job.kind # "none" =>
    LET refusal == Refusal(Names(job.plan, job.target))
        parts == job.plan.parts
    IN  /\ refusal = "selection" => onDisk # job.counted
        /\ refusal = "names" =>
             job.plan.kind = "ranges" /\ \E i, j \in DOMAIN parts : i # j /\ parts[i] = parts[j]

(* The result on screen is of the settings on screen: they are frozen      *)
(* while the job runs, and a change clears the result (_update_action_state,*)
(* clear_result).  Showing or hiding the field of ranges, and a page copied *)
(* by a list itself, are not heard of; and the source may be given anew    *)
(* while its job runs.                                                     *)
ResultIsOfTheSettings ==
  bar.result.shown =>
    unheard \/ bar.result.job.replaced \/ bar.result.job.plan = Plan(s, count)

(* The files of a success are those announced before it, where a name      *)
(* could be; cutting a source in parts of n pages keeps every page, once,  *)
(* in order; no page is in two outputs made by dragging; and a removal     *)
(* leaves the other pages, some at least, in order.                        *)
FilesAreAsPlanned ==
  bar.result.shown =>
    LET done == bar.result.job
        made == bar.result.files
        pages == [i \in DOMAIN made |-> made[i].pages]
    IN  /\ done.kind = "split" /\ portable =>
             [i \in DOMAIN made |-> made[i].name] = done.announced
        /\ done.plan.kind = "groups" => Apart(pages)
        /\ done.plan.kind = "groups" /\ ~done.replaced /\ s.mode \in {"every_n", "single_pages"} =>
             /\ Pages(pages) = 1 .. done.counted
             /\ \A i \in DOMAIN pages : Increasing(pages[i])
             /\ \A i, j \in DOMAIN pages : i < j =>
                  \A p \in ToSet(pages[i]), q \in ToSet(pages[j]) : p < q
        /\ done.kind = "remove" =>
             /\ pages[1] # <<>> /\ Increasing(pages[1])
             /\ ToSet(pages[1]) \cap ToSet(done.plan.parts[1]) = {}

(* A plan that was accepted is carried out, and its files are as planned.  *)
PlansAreCarriedOut == AcceptedPlansAreCarriedOut /\ FilesAreAsPlanned

=============================================================================
