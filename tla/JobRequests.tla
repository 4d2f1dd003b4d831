----------------------------- MODULE JobRequests -----------------------------
(***************************************************************************)
(* A job from the page that asks for it to the worker, and its answer      *)
(* back: the rules of domain/jobs.py, the staging of process_supervisor.py *)
(* and the messages of pdf_protocol.py, three layers that check the same   *)
(* values each in its own way.                                             *)
(*                                                                         *)
(* A job is [op, inputs : Seq(path), dir, options : key -> value,          *)
(* password : BOOLEAN], a path [dir, name].  The folders of the computer   *)
(* are constants: nothing in them changes while a job is on its way.       *)
(***************************************************************************)
EXTENDS Naturals, Sequences, FiniteSets, Functions

CONSTANTS
  Requests,      \* jobs the pages may ask for, well made or not
  RealDir,       \* directory -> directory it leads to
  Links,         \* path -> path the symbolic link of that name leads to
  Files,         \* real paths of files
  Odd,           \* names with a line end, or bytes outside UTF-8
  Length,        \* name -> its length in a message
  MaxItems,      \* MAX_OPTION_SEQUENCE_ITEMS, MAX_SEQUENCE_ITEMS
  MaxPage,       \* MAX_PAGE_NUMBER
  MaxAreas,      \* REDACTION_MAX_AREAS
  MaxOcrPages,   \* OCR_MAX_DOCUMENT_PAGES
  MaxInputs,     \* MAX_INPUT_FILES
  MaxOutputs,    \* MAX_OUTPUT_FILES
  MaxMessage     \* MAX_REQUEST_BYTES, MAX_RESPONSE_BYTES

VARIABLES
  asked,      \* as the page asks for it
  pc,
  job,        \* as the supervisor has it
  message,    \* the request on the pipe
  received,   \* as the worker has it
  answer,     \* of the worker: its result, then what is read of it
  outcome     \* "none", "answered", or the code of the failure

vars == <<asked, pc, job, message, received, answer, outcome>>

NoJob == [op |-> "none"]

-----------------------------------------------------------------------------
(* Operations and their options (domain/jobs.py).                           *)

Operations ==
  {"protect", "unlock", "metadata", "photocopy", "ocr", "redact", "watermark", "compress",
   "merge", "extract", "remove", "split", "rotate", "reorder", "insert", "blank"}

PasswordOperations == {"protect", "unlock"}
RenderingOperations == {"photocopy", "ocr", "redact", "watermark"}
StagedOperations == PasswordOperations \cup RenderingOperations \cup {"metadata", "compress"}
ReplacingOperations == PasswordOperations \cup {"metadata", "photocopy"}

\* _OPTION_KEYS: what an operation must and may be told; height_mm is like width_mm, and
\* layout like strength.
Keys(op) ==
  CASE op \in {"protect", "unlock", "metadata"} -> [must |-> {"output_path"}, may |-> {"replace_input"}]
    [] op = "photocopy" -> [must |-> {"output_path"}, may |-> {"replace_input", "source_identity"}]
    [] op = "ocr" ->
         [must |-> {"output_path"}, may |-> {"languages", "page_numbers", "allow_unsigned_copy"}]
    [] op = "redact" ->
         [must |-> {"output_path", "areas"}, may |-> {"source_identity", "allow_unsigned_copy"}]
    [] op = "watermark" ->
         [must |-> {"output_path", "text"}, may |-> {"strength", "source_identity", "allow_unsigned_copy"}]
    [] op = "compress" -> [must |-> {"output_path"}, may |-> {"profile"}]
    [] op = "merge" -> [must |-> {}, may |-> {"output_path"}]
    [] op \in {"extract", "remove"} -> [must |-> {"page_numbers"}, may |-> {"output_path"}]
    [] op = "split" -> [must |-> {}, may |-> {"ranges", "page_groups", "base_name"}]
    [] op = "rotate" -> [must |-> {"page_numbers", "angle"}, may |-> {"output_path"}]
    [] op = "reorder" -> [must |-> {"page_order"}, may |-> {"output_path"}]
    [] op = "insert" -> [must |-> {"page_numbers", "insert_after_page"}, may |-> {"output_path"}]
    [] op = "blank" -> [must |-> {"width_mm", "insert_after_page"}, may |-> {"output_path"}]

\* What stands for an option that is not given and has a value all the same.
Defaults ==
  [replace_input |-> FALSE, allow_unsigned_copy |-> FALSE, source_identity |-> <<>>,
   languages |-> <<"eng">>, page_numbers |-> <<>>, strength |-> "medium", profile |-> "lossless"]

Completed(op, options) ==
  LET given == DOMAIN options
      added == (Keys(op).may \cap DOMAIN Defaults) \ given
  IN  [k \in given \cup added |-> IF k \in given THEN options[k] ELSE Defaults[k]]

Pages(s) == s # <<>> /\ Len(s) <= MaxItems /\ \A i \in DOMAIN s : s[i] \in 1 .. MaxPage
NoneTwice(s) == Cardinality(Range(s)) = Len(s)

LengthOf(plan) ==
  LET total[i \in 0 .. Len(plan)] == IF i = 0 THEN 0 ELSE total[i - 1] + Len(plan[i])
  IN  total[Len(plan)]

\* A range is written first, last and every page of it.
PagesOf(range) == [i \in 1 .. (range[2] - range[1] + 1) |-> range[1] + i - 1]
RangePages(ranges) == [i \in DOMAIN ranges |-> PagesOf(ranges[i])]

\* validate_redaction_area, of each of a bounded number of areas.
AreasAreSound(areas) == Len(areas) \in 1 .. MaxAreas /\ "outside" \notin Range(areas)

\* The file an output is made of: no identity, or its five numbers.
IdentityIsSound(identity) == Len(identity) \in {0, 5}

\* validate_ocr_languages
LanguagesAreSound(languages) == Len(languages) \in 1 .. 3 /\ NoneTwice(languages)

\* validate_watermark_text
TextIsSound(text) == text # "" /\ text # "unprintable"

\* __post_init__ of the options of an operation.
IsSound(op, key, v) ==
  /\ key = "page_numbers" =>
       (op = "ocr" /\ v = <<>>) \/ (Pages(v) /\ (op = "ocr" => NoneTwice(v) /\ Len(v) <= MaxOcrPages))
  /\ key = "page_order" => Pages(v)
  /\ key = "page_groups" =>
       v # <<>> /\ (\A i \in DOMAIN v : Pages(v[i])) /\ LengthOf(v) <= MaxItems
  /\ key = "ranges" =>
       /\ v # <<>> /\ \A i \in DOMAIN v : v[i][1] \in 1 .. v[i][2] /\ v[i][2] <= MaxPage
       /\ LengthOf(RangePages(v)) <= MaxItems
  /\ key = "angle" => v \in {0, 90, 180, 270}
  /\ key = "insert_after_page" => v \in 0 .. MaxPage
  /\ key = "areas" => AreasAreSound(v)
  /\ key = "languages" => LanguagesAreSound(v)
  /\ key = "source_identity" => IdentityIsSound(v)
  /\ key = "text" => TextIsSound(v)
  /\ key = "width_mm" => v \in 1 .. 5080
  /\ key = "base_name" => v # ""

InRealDir(p) == [p EXCEPT !.dir = RealDir[@]]
Real(p) == LET q == InRealDir(p) IN IF q \in DOMAIN Links THEN Links[q] ELSE q

ArityIsRight(op, inputs) ==
  CASE op = "merge" -> Len(inputs) >= 2
    [] op = "insert" -> Len(inputs) = 2 /\ Real(inputs[1]) # Real(inputs[2])
    [] OTHER -> Len(inputs) = 1

\* JobRequest(...): the same rules for a page and, of what it reads, for the worker.
IsJob(j) ==
  LET keys == Keys(j.op)
  IN  /\ j.password = (j.op \in PasswordOperations)
      /\ ArityIsRight(j.op, j.inputs)
      /\ keys.must \subseteq DOMAIN j.options /\ DOMAIN j.options \subseteq keys.must \cup keys.may
      /\ j.op = "split" => Cardinality({"ranges", "page_groups"} \cap DOMAIN j.options) = 1
      /\ \A k \in DOMAIN j.options : IsSound(j.op, k, j.options[k])

Made(j) == [j EXCEPT !.options = Completed(j.op, j.options)]

\* What a page may ask: any operation, of any values of the right types.
IsPath(p) == p = [dir |-> p.dir, name |-> p.name]
IsAsked(r) ==
  /\ r = [op |-> r.op, inputs |-> r.inputs, dir |-> r.dir, options |-> r.options, password |-> r.password]
  /\ r.op \in Operations
  /\ r.inputs \in Seq(Range(r.inputs)) /\ \A p \in Range(r.inputs) : IsPath(p)
  /\ r.options = [k \in DOMAIN r.options |-> r.options[k]]
  /\ "output_path" \in DOMAIN r.options => IsPath(r.options["output_path"])
  /\ "page_groups" \in DOMAIN r.options => r.options["page_groups"] \in Seq(Seq(Nat))
  /\ "ranges" \in DOMAIN r.options => r.options["ranges"] \in Seq(Nat \X Nat)

Init ==
  /\ asked \in {r \in Requests : IsJob(r)} /\ pc = "asked"
  /\ job = NoJob /\ message = NoJob /\ received = NoJob /\ answer = NoJob /\ outcome = "none"

-----------------------------------------------------------------------------
Fails(code) == pc' = "over" /\ outcome' = code

\* _require_encodable_path: names as they are given, of the inputs and the folder.
NamesAreCarried == \A i \in DOMAIN asked.inputs : asked.inputs[i].name \notin Odd

Checks ==
  /\ pc = "asked"
  /\ IF NamesAreCarried
     THEN pc' = "named" /\ job' = Made(asked) /\ UNCHANGED outcome
     ELSE Fails("input_path_error") /\ UNCHANGED job
  /\ UNCHANGED <<asked, message, received, answer>>

\* _with_real_paths: an input is what its link leads to, an output keeps its name.  That
\* it leads to a file, and not to a directory, is looked at by _exchange, with the same code.
Followed(j) ==
  LET options == [k \in DOMAIN j.options |->
                    IF k = "output_path" THEN InRealDir(j.options[k]) ELSE j.options[k]]
  IN  [op |-> j.op, inputs |-> [i \in DOMAIN j.inputs |-> Real(j.inputs[i])],
       dir |-> RealDir[j.dir], options |-> options, password |-> j.password]

FollowsLinks ==
  /\ pc = "named"
  /\ IF \A i \in DOMAIN job.inputs : Real(job.inputs[i]) \in Files
     THEN pc' = "real" /\ job' = Followed(job) /\ UNCHANGED outcome
     ELSE Fails("input_path_error") /\ UNCHANGED job
  /\ UNCHANGED <<asked, message, received, answer>>

Output(j) == j.options["output_path"]
HasOutput(j) == "output_path" \in DOMAIN j.options
Replaces(j) == j.op \in ReplacingOperations /\ j.options["replace_input"]

\* _replacement_target and snapshot_replacement_source: the source itself, not a link to it.
TargetIsTheSource(j) == Output(j) = j.inputs[1] /\ Output(j).dir = j.dir

\* prepare_new_output_path: a name no file and no link of the folder of the job has.
OutputIsNew(j) == Output(j).dir = j.dir /\ Output(j) \notin Files \cup DOMAIN Links

OutputIsRight(j) == HasOutput(j) => IF Replaces(j) THEN TargetIsTheSource(j) ELSE OutputIsNew(j)

\* Before the job is first written, or, of an operation with no staged output, after it.
IsStaged == job.op \in StagedOperations
ChecksOutput ==
  /\ pc = IF IsStaged THEN "real" ELSE "written"
  /\ IF OutputIsRight(job)
     THEN pc' = (IF IsStaged THEN "safe" ELSE "ready") /\ UNCHANGED outcome
     ELSE Fails("dangerous_output")
  /\ UNCHANGED <<asked, job, message, received, answer>>

-----------------------------------------------------------------------------
(* Messages (pdf_protocol.py).                                              *)

IsCarried(p) == p.name \notin Odd

NumbersAreCarried(s) == Len(s) <= MaxItems /\ Range(s) \subseteq 1 .. MaxPage

\* _encode_options and _decode_options check alike.
ValueIsCarried(key, v) ==
  /\ key = "output_path" => IsCarried(v)
  /\ key \in {"page_numbers", "page_order"} => NumbersAreCarried(v)
  /\ key = "page_groups" => Len(v) <= MaxItems /\ \A i \in DOMAIN v : NumbersAreCarried(v[i])
  /\ key = "ranges" => Len(v) <= MaxItems /\ \A i \in DOMAIN v : NumbersAreCarried(PagesOf(v[i]))
  /\ key = "angle" => v \in 0 .. 360
  /\ key = "insert_after_page" => v \in 0 .. MaxPage
  /\ key = "areas" => Len(v) \in 1 .. MaxAreas
  /\ key = "languages" => LanguagesAreSound(v)
  /\ key = "source_identity" => IdentityIsSound(v)
  /\ key = "width_mm" => v \in 1 .. 5080

\* A text loses what the engine would not find again, a soft hyphen for one.
Clean(text) == IF text = "soft text" THEN "text" ELSE text
Written(j) ==
  [j EXCEPT !.options = [k \in DOMAIN @ |-> IF k = "text" THEN Clean(@[k]) ELSE @[k]]]

PathLengths(paths) ==
  LET total[i \in 0 .. Len(paths)] == IF i = 0 THEN 0 ELSE total[i - 1] + Length[paths[i].name]
  IN  total[Len(paths)]

SizeOf(key, v) ==
  CASE key = "output_path" -> Length[v.name]
    [] key \in {"page_numbers", "page_order", "areas"} -> Len(v)
    [] key = "page_groups" -> LengthOf(v)
    [] key = "ranges" -> LengthOf(RangePages(v))
    [] OTHER -> 1

Size(j) == PathLengths(j.inputs) + SumFunction([k \in DOMAIN j.options |-> SizeOf(k, j.options[k])])

Fits(j) == Size(j) <= MaxMessage

\* encode_job_request
CanBeWritten(j) ==
  /\ \A i \in DOMAIN j.inputs : IsCarried(j.inputs[i])
  /\ \A k \in DOMAIN j.options : ValueIsCarried(k, j.options[k])
  /\ Fits(j)

\* run_job writes the job once before anything is set up for it, and drops that message.
WritesAsAsked ==
  /\ pc = IF IsStaged THEN "safe" ELSE "real"
  /\ IF CanBeWritten(job)
     THEN pc' = (IF IsStaged THEN "ready" ELSE "written") /\ UNCHANGED outcome
     ELSE Fails("worker_protocol_error")
  /\ UNCHANGED <<asked, job, message, received, answer>>

Private(name) == [dir |-> "private", name |-> name]

StagedAndReplacing(j) ==
  LET output == Private(IF j.op \in StagedOperations THEN "candidate" ELSE Output(j).name)
      options == IF HasOutput(j) THEN [j.options EXCEPT !["output_path"] = output] ELSE j.options
  IN  [j EXCEPT !.dir = "private", !.options = options]

\* What the worker is told: the same work, into the private directory, nothing to replace.
Staged(j) ==
  LET output == Private(IF j.op \in StagedOperations THEN "candidate" ELSE Output(j).name)
      options == IF HasOutput(j) THEN [j.options EXCEPT !["output_path"] = output] ELSE j.options
  IN  [op |-> j.op, inputs |-> j.inputs, dir |-> "private",
       options |-> IF j.op \in ReplacingOperations
                   THEN [options EXCEPT !["replace_input"] = FALSE] ELSE options,
       password |-> j.password]

WritesForTheWorker ==
  /\ pc = "ready"
  /\ IF CanBeWritten(Staged(job))
     THEN pc' = "sent" /\ message' = Written(Staged(job)) /\ UNCHANGED outcome
     ELSE Fails("worker_protocol_error") /\ UNCHANGED message
  /\ UNCHANGED <<asked, job, received, answer>>

\* decode_request, in the worker, which ends with code 65 when it cannot.
CanBeRead(m) ==
  /\ Fits(m)
  /\ Len(m.inputs) \in 1 .. MaxInputs
  /\ \A k \in DOMAIN m.options : ValueIsCarried(k, m.options[k])
  /\ IsJob(m)

WorkerReads ==
  /\ pc = "sent"
  /\ IF CanBeRead(message)
     THEN pc' = "working" /\ received' = Made(message) /\ UNCHANGED outcome
     ELSE Fails("worker_crashed") /\ UNCHANGED received
  /\ UNCHANGED <<asked, job, message, answer>>

-----------------------------------------------------------------------------
(* The answer.                                                              *)

OutputCount(j) ==
  IF j.op # "split" THEN 1
  ELSE Len(IF "ranges" \in DOMAIN j.options THEN j.options["ranges"] ELSE j.options["page_groups"])

\* JobResult(...), in the worker and again of what is read.
IsResult(r) ==
  /\ r.success = (r.files > 0)
  /\ r.gain # "none" => (r.success => r.gain = "smaller" /\ r.files = 1)
  /\ r.code = "compression_no_gain" => ~r.success /\ r.gain \notin {"none", "smaller"}

Result(success, files, code, gain) == [success |-> success, files |-> files, code |-> code, gain |-> gain]

\* What the engine may answer to a job it has understood.
Results(j) ==
  {Result(FALSE, 0, "pdf_error", "none")}
  \cup (IF j.op = "compress"
        THEN {Result(TRUE, 1, "", "smaller"), Result(FALSE, 0, "compression_no_gain", "not smaller")}
        ELSE {Result(TRUE, OutputCount(j), "", "none")})

WorkerAnswers ==
  /\ pc = "working"
  /\ \E r \in Results(received) : IsResult(r) /\ answer' = r
  /\ pc' = "answering"
  /\ UNCHANGED <<asked, job, message, received, outcome>>

\* decode_response, and what run_job makes of it.
AnswerIsRead(r) ==
  /\ r.files <= MaxOutputs /\ IsResult(r)
  /\ job.op # "compress" => r.gain = "none"

ReadsAnswer ==
  /\ pc = "answering"
  /\ IF AnswerIsRead(answer)
     THEN pc' = "over" /\ outcome' = "answered"
     ELSE Fails("worker_protocol_error")
  /\ UNCHANGED <<asked, job, message, received, answer>>

Next ==
  \/ Checks \/ FollowsLinks \/ ChecksOutput \/ WritesAsAsked \/ WritesForTheWorker
  \/ WorkerReads \/ WorkerAnswers \/ ReadsAnswer

Spec == Init /\ [][Next]_vars

-----------------------------------------------------------------------------
ReadsTheSame ==
  /\ received.op = asked.op
  /\ Len(received.inputs) = Len(asked.inputs)
  /\ \A i \in DOMAIN asked.inputs : received.inputs[i] = Real(asked.inputs[i])
  /\ \A k \in DOMAIN asked.options \ {"output_path", "replace_input", "text"} :
       received.options[k] = asked.options[k]

WritesInPrivate ==
  /\ received.dir = "private"
  /\ HasOutput(received) => Output(received).dir = "private"
  /\ ~Replaces(received)

\* More than the protocol carries, in number or in size.
IsTooMuch ==
  \/ Len(asked.inputs) > MaxInputs
  \/ OutputCount(asked) > MaxOutputs
  \/ job # NoJob /\ (~Fits(job) \/ ~Fits(Staged(job)))

\* A name that cannot be carried, behind a link or of an output.
HasOddName ==
  \/ \E i \in DOMAIN asked.inputs : Real(asked.inputs[i]).name \in Odd
  \/ HasOutput(asked) /\ Output(asked).name \in Odd

(* The three layers agree: a job a page may ask for is read by the worker  *)
(* as it was asked, of the real files and in their order, but for its      *)
(* outputs, all of them private, and its answer is understood; only a name *)
(* or an amount the messages cannot carry ends in a fault of the protocol  *)
(* (JobRequest, _with_real_paths, staged_job, encode_job_request,          *)
(* decode_request, decode_response).                                       *)
JobArrivesAsAsked ==
  /\ received # NoJob => ReadsTheSame /\ WritesInPrivate
  /\ outcome \in {"worker_protocol_error", "worker_crashed"} => IsTooMuch \/ HasOddName
=============================================================================
