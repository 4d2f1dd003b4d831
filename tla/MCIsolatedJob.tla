---------------------------- MODULE MCIsolatedJob ----------------------------
(***************************************************************************)
(* Isolated jobs for TLC, seen from three sides, one of them per           *)
(* behaviour, for they share no state:                                     *)
(*   threads  IsolatedJob: the runner, the exchange's thread, the process  *)
(*   pipes    WorkerExchange: what goes through the pipes, and what is     *)
(*            made of it                                                   *)
(*   messages JobRequests: what a page asks for, and what the worker has   *)
(*            read of it                                                   *)
(***************************************************************************)
EXTENDS IsolatedJob

CONSTANTS Works, RequestSize, Capacity, MaxOutput, MaxMarks,
  Requests, RealDir, Links, Files, Odd, Length,
  MaxItems, MaxPage, MaxAreas, MaxOcrPages, MaxInputs, MaxOutputs, MaxMessage

\* What a worker holds in its pipe, with a mark without its line end, and an answer are heard.
ASSUME PipesAssumption ==
  /\ RequestSize \in Nat \ {0} /\ Capacity \in Nat \ {0}
  /\ MaxOutput \in Nat /\ MaxOutput >= 3 /\ MaxOutput > Capacity /\ MaxMarks \in Nat

VARIABLES atWork, wJob, wConduct, wTalk, wInPipe, wOutPipe, wWorker, wHelper, wCancel, wExpired,
          wPublished, wOutcome,
          rAsked, rStep, rJob, rMessage, rReceived, rAnswer, rOutcome

pipeVars == <<wJob, wConduct, wTalk, wInPipe, wOutPipe, wWorker, wHelper, wCancel, wExpired,
              wPublished, wOutcome>>
requestVars == <<rAsked, rStep, rJob, rMessage, rReceived, rAnswer, rOutcome>>
allVars == <<atWork, vars, pipeVars, requestVars>>

-----------------------------------------------------------------------------
(* The Works TLC tries: jobs, and what their workers may write, leave in    *)
(* the private directory and exit with, right or wrong.                     *)

\* For the tokens of the works.
Tokens == INSTANCE WorkerExchange WITH
  Works <- {},
  job <- wJob, conduct <- wConduct, talk <- wTalk, inPipe <- wInPipe, outPipe <- wOutPipe,
  worker <- wWorker, helper <- wHelper, cancel <- wCancel, expired <- wExpired,
  published <- wPublished, outcome <- wOutcome

WorkerJobs ==
  {[kind |-> "split", names |-> <<"one", "two">>, remarks |-> FALSE],
   [kind |-> "named", names |-> <<"one">>, remarks |-> FALSE],
   [kind |-> "staged", names |-> <<"one">>, remarks |-> TRUE]}

Private(names) == [i \in DOMAIN names |-> [dir |-> "private", name |-> names[i]]]
Told(j) == [to |-> "this request", success |-> TRUE, files |-> Private(j.names), remarks |-> j.remarks]

Lies(j) ==
  {[Told(j) EXCEPT !.to = "another request"],
   [Told(j) EXCEPT !.success = FALSE],
   [Told(j) EXCEPT !.success = FALSE, !.files = <<>>],
   [Told(j) EXCEPT !.files = <<>>],
   [Told(j) EXCEPT !.files = Tail(@)],
   [Told(j) EXCEPT !.files = Append(@, Head(@))],
   [Told(j) EXCEPT !.files[1].dir = "elsewhere"],
   [Told(j) EXCEPT !.files[1].name = "two"],
   [Told(j) EXCEPT !.remarks = ~@]}

Line(token) == <<token, Tokens!LineEnd>>
Progress == Line(Tokens!Mark(1, 2)) \o Line(Tokens!Mark(2, 2))
Marks == {<<>>, Progress}
BadMarks ==
  {Line(Tokens!Mark(2, 2)) \o Line(Tokens!Mark(1, 2)), Line(Tokens!Mark(1, 2)) \o Line(Tokens!Mark(1, 3)),
   Line(Tokens!Mark(3, 2)), Line(Tokens!Mark(0, 0)), <<Tokens!Mark(1, 2)>>, Progress \o Line(Tokens!Mark(2, 2))}

Texts(j) ==
  {[writes |-> m \o Tokens!Response(Told(j)), tells |-> "the truth"] : m \in Marks}
  \cup {[writes |-> w, tells |-> "something else"] : w \in
          {Progress \o Tokens!Response(lie) : lie \in Lies(j)}
          \cup {m \o Tokens!Response(Told(j)) : m \in BadMarks}
          \cup {<<>>, <<Tokens!LineEnd>>, <<Head(Tokens!Response(Told(j)))>>, Tokens!Response(Told(j)) \o Progress,
                Tokens!Response(Told(j)) \o Tokens!Response(Told(j))}}

Good == [f \in {"one", "two"} |-> "regular"]
Made == {Good, [f \in {"two"} |-> "regular"]}
  \cup {[Good EXCEPT !["one"] = q] : q \in {"link", "empty", "shared"}}
  \cup {[Good EXCEPT !["two"] = "oversize"]}

Conduct(text, files, code, stays, descendant) ==
  [writes |-> text.writes, tells |-> text.tells, made |-> files, code |-> code,
   stays |-> stays, helper |-> descendant]

Truth(j) == {t \in Texts(j) : t.tells = "the truth"}
Silence == [writes |-> <<>>, tells |-> "something else"]

Conducts(j) ==
  {Conduct(t, Good, 0, FALSE, FALSE) : t \in Texts(j)}
  \cup {Conduct(t, Good, c, s, h) :
          t \in Truth(j) \cup {Silence}, c \in {0, 70}, s \in BOOLEAN, h \in BOOLEAN}
  \cup {Conduct(t, m, 0, FALSE, FALSE) : t \in Truth(j), m \in Made}
  \cup {Conduct(Silence, Good, 78, FALSE, FALSE)}

IsMark(token) ==
  /\ token = Tokens!Mark(token.done, token.total)
  /\ token.total \in Nat \ {0} /\ token.done \in 0 .. token.total

\* The truth is told after some marks, each on its line, of one total, none going back.
TellsTheTruth(work) ==
  LET writes == work.conduct.writes
  IN  /\ writes \in Seq({writes[i] : i \in DOMAIN writes})
      /\ \E m \in 0 .. MaxMarks :
           /\ Len(writes) = 2 * m + 3
           /\ \A i \in 1 .. m :
                /\ IsMark(writes[2 * i - 1]) /\ writes[2 * i] = Tokens!LineEnd
                /\ i > 1 => /\ writes[2 * i - 3].total = writes[2 * i - 1].total
                            /\ writes[2 * i - 3].done <= writes[2 * i - 1].done
           /\ <<writes[2 * m + 1], writes[2 * m + 2], writes[2 * m + 3]>> = Tokens!Response(Told(work.job))

\* A job has an output, and one only that does not split (JobRequest); a file is of one of
\* these qualities.
ASSUME WorksAssumption ==
  \A work \in Works :
    /\ work.job.kind \in {"split", "named", "staged"}
    /\ work.job.names \in Seq(STRING) /\ work.job.names # <<>>
    /\ work.job.kind # "split" => Len(work.job.names) = 1
    /\ \A name \in DOMAIN work.conduct.made :
         work.conduct.made[name] \in {"regular", "link", "empty", "shared", "oversize"}
    /\ work.conduct.tells = "the truth" => TellsTheTruth(work)

WorkerWorks == UNION {{[job |-> j, conduct |-> c] : c \in Conducts(j)} : j \in WorkerJobs}

-----------------------------------------------------------------------------
(* The jobs and the folders of JobRequests: "docs", a link "desk" to it, in  *)
(* it files, a link to one of them and a link to a file whose name has a    *)
(* line end.                                                                *)

Path(dir, name) == [dir |-> dir, name |-> name]
SampleDirs == [docs |-> "docs", desk |-> "docs", private |-> "private"]
SampleFiles == {Path("docs", "one"), Path("docs", "two"), Path("docs", "odd"), Path("docs", "long")}
SampleLinks ==
  [p \in {Path("docs", "link"), Path("docs", "to odd"), Path("docs", "broken")} |->
     CASE p.name = "link" -> Path("docs", "one")
       [] p.name = "to odd" -> Path("docs", "odd")
       [] OTHER -> Path("docs", "gone")]
SampleOdd == {"odd"}
SampleLengths ==
  [n \in {"one", "two", "odd", "long", "link", "to odd", "broken", "gone", "new", "candidate"} |->
     IF n = "long" THEN 4 ELSE 1]

InputNames == {"one", "odd", "long", "link", "to odd", "broken", "gone"}
Single == {<<Path(d, n)>> : d \in {"docs", "desk"}, n \in InputNames}
FileOne == Path("docs", "one")
FileTwo == Path("docs", "two")
Several ==
  {<<FileOne, FileTwo>>, <<FileTwo, Path("desk", "link")>>, <<FileOne, FileOne>>, <<FileOne>>, <<FileOne, FileTwo, FileOne>>,
   <<FileOne, FileTwo, FileTwo, FileOne>>, <<Path("docs", "long"), Path("docs", "long")>>}
Outputs == {Path(d, n) : d \in {"docs", "desk"}, n \in {"new", "one", "link", "odd"}}

Ask(op, inputs, options) ==
  [op |-> op, inputs |-> inputs, dir |-> "docs", options |-> options,
   password |-> op \in {"protect", "unlock"}]

PageSequences == {<<>>, <<1>>, <<2, 1>>, <<3, 3, 1>>, <<1, 3, 2>>, <<1, 2, 3, 1>>, <<4>>}
Staging ==
  {Ask(op, s, [output_path |-> o, replace_input |-> r]) :
     op \in {"protect", "unlock", "metadata", "photocopy"}, s \in Single, o \in Outputs, r \in BOOLEAN}
Rendering ==
  {Ask("ocr", <<FileOne>>, [output_path |-> o, page_numbers |-> p, languages |-> l]) :
     o \in Outputs, p \in PageSequences, l \in {<<"eng">>, <<"eng", "fra">>, <<"eng", "eng">>}}
  \cup {Ask("redact", <<FileOne>>, [output_path |-> Path("docs", "new"), areas |-> a, source_identity |-> i]) :
          a \in {<<>>, <<"area">>, <<"area", "area">>, <<"outside">>, <<"area", "area", "area">>},
          i \in {<<>>, <<1, 2, 3, 4, 5>>, <<1>>}}
  \cup {Ask("watermark", s, [output_path |-> Path("desk", "new"), text |-> t]) :
          s \in Single, t \in {"", "text", "soft text", "unprintable"}}
  \cup {Ask("compress", s, [output_path |-> Path("desk", "new"), profile |-> "strong"]) : s \in Single}
OfPages ==
  {Ask(op, s, [output_path |-> o, page_numbers |-> p]) :
     op \in {"extract", "remove"}, s \in {<<FileOne>>, <<Path("docs", "link")>>}, o \in Outputs, p \in PageSequences}
  \cup {Ask("rotate", <<FileOne>>, [output_path |-> Path("docs", "new"), page_numbers |-> p, angle |-> a]) :
          p \in PageSequences, a \in {0, 90, 45}}
  \cup {Ask("reorder", <<FileOne>>, [page_order |-> p]) : p \in PageSequences}
  \cup {Ask("insert", s, [page_numbers |-> p, insert_after_page |-> a]) :
          s \in Several, p \in PageSequences, a \in {0, 3, 4}}
  \cup {Ask("blank", <<FileOne>>, [width_mm |-> w, insert_after_page |-> a]) : w \in {0, 1, 5080}, a \in {0, 4}}
Merging == {Ask("merge", s, [output_path |-> o]) : s \in Several, o \in Outputs}
Splitting ==
  {Ask("split", <<FileOne>>, [ranges |-> r]) :
     r \in {<<>>, <<<<1, 2>>>>, <<<<1, 1>>, <<2, 3>>>>, <<<<1, 3>>, <<1, 1>>>>, <<<<2, 1>>>>, <<<<4, 4>>>>,
            <<<<1, 1>>, <<2, 2>>, <<3, 3>>>>}}
  \cup {Ask("split", <<FileOne>>, [page_groups |-> g, base_name |-> b]) :
          g \in {<<>>, <<<<1>>, <<2, 1>>>>, <<<<>>>>, <<<<1, 2>>, <<3, 3>>>>}, b \in {"", "name"}}
  \cup {Ask("split", <<FileOne>>, [ranges |-> <<<<1, 1>>>>, page_groups |-> <<<<1>>>>])}

SampleRequests == Staging \cup Rendering \cup OfPages \cup Merging \cup Splitting

-----------------------------------------------------------------------------
Messages == INSTANCE JobRequests WITH
  asked <- rAsked, pc <- rStep, job <- rJob, message <- rMessage, received <- rReceived,
  answer <- rAnswer, outcome <- rOutcome

Pipes == INSTANCE WorkerExchange WITH
  job <- wJob, conduct <- wConduct, talk <- wTalk, inPipe <- wInPipe, outPipe <- wOutPipe,
  worker <- wWorker, helper <- wHelper, cancel <- wCancel, expired <- wExpired,
  published <- wPublished, outcome <- wOutcome

AtPipes == atWork = "pipes"

AtMessages == atWork = "messages"

\* A real path leads to itself, and the name of a private output is one that is carried.
ASSUME RequestsAssumption ==
  /\ \A request \in Requests : Messages!IsAsked(request)
  /\ \A file \in Files : Messages!IsPath(file) /\ RealDir[file.dir] = file.dir /\ file \notin DOMAIN Links
  /\ "candidate" \notin Odd
ASSUME LimitsAssumption ==
  /\ MaxItems \in Nat /\ MaxPage \in Nat /\ MaxAreas \in Nat /\ MaxOcrPages \in Nat
  /\ MaxInputs \in Nat /\ MaxOutputs \in Nat /\ MaxMessage \in Nat

\* What a side that is not at work has before it.
AnyWork == CHOOSE work \in Works : TRUE
AnyRequest == CHOOSE request \in Requests : Messages!IsJob(request)

JobsInit ==
  /\ Init /\ Pipes!Init /\ Messages!Init
  /\ atWork \in {"threads", "pipes", "messages"}
  /\ atWork # "threads" => kind = "job"
  /\ atWork # "pipes" => [job |-> wJob, conduct |-> wConduct] = AnyWork
  /\ atWork # "messages" => rAsked = AnyRequest

JobsNext ==
  /\ UNCHANGED atWork
  /\ \/ atWork = "threads" /\ Next /\ UNCHANGED <<pipeVars, requestVars>>
     \/ AtPipes /\ Pipes!Next /\ UNCHANGED <<vars, requestVars>>
     \/ AtMessages /\ Messages!Next /\ UNCHANGED <<vars, pipeVars>>

\* A side that is not at work stays in its initial state, where no step of IsolatedJob's
\* Fairness is enabled.
JobsSpec ==
  /\ JobsInit /\ [][JobsNext]_allVars
  /\ Fairness
  /\ WF_pipeVars(AtPipes /\ Pipes!Supervisor)
  /\ WF_pipeVars(AtPipes /\ Pipes!Worker)
  /\ WF_pipeVars(AtPipes /\ Pipes!Stuck /\ Pipes!DeadlinePasses)

\* What is published is what was announced, whole, and after the worker's good end
\* (WorkerExchange).
OnlyTheAnnouncedFiles == Pipes!OnlyTheAnnouncedFiles

\* A job is read by the worker as it was asked, its answer understood (JobRequests), and good
\* work recognised whatever the cut of its chunks and the speed of its exit (WorkerExchange).
JobsAreUnderstood == Messages!JobArrivesAsAsked /\ Pipes!WorkDoneIsPublished

\* The two pipes never wait on each other, nor on a descendant for ever (WorkerExchange).
ExchangeEnds == AtPipes ~> Pipes!At("done")

\* A job that was started ends, the window can be closed whatever runs (IsolatedJob), and the
\* exchange with a worker ends too.
EveryJobEnds == Responsive /\ CloseCompletes /\ ExchangeEnds
=============================================================================
