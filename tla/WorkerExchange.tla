---------------------------- MODULE WorkerExchange ----------------------------
(***************************************************************************)
(* One job through the pipes of its worker process: the request goes in,   *)
(* marks of progress and one answer come out, bounded in size and in time, *)
(* and what the answer names is looked at before it is published           *)
(* (ProcessSupervisor._bounded_communicate, _exchange, _publish_*,         *)
(* pdf_protocol, pdf_worker.main).                                         *)
(*                                                                         *)
(* Pipes carry tokens: a mark of progress, the two halves of an answer, a  *)
(* line end.  The worker follows its conduct, which may be anything;       *)
(* IsolatedJob has the threads, the termination of the process and the     *)
(* directory, and OutputPublication the system calls of each publication.  *)
(*   job      [kind : {"split", "named", "staged"}, names : Seq(name),      *)
(*             remarks : BOOLEAN]                                           *)
(*   conduct  [writes : Seq(token), tells, made : name -> quality of the    *)
(*             file, code, stays (never exits), helper (a descendant keeps  *)
(*             the pipes)]                                                  *)
(***************************************************************************)
EXTENDS Naturals, Sequences

CONSTANTS
  Works,         \* jobs and what their workers may do, see below
  RequestSize,   \* tokens of a request
  Capacity,      \* tokens a pipe holds
  MaxOutput,     \* _max_response_bytes, in tokens
  MaxMarks       \* marks of progress accepted, 1001 in the code

VARIABLES
  job, conduct,
  talk,       \* the supervisor's loop: pc, sent, stdin (open), stdout (open), heard: its
              \* output without the marks at its front, marks, done, total (ProgressFrames)
  inPipe,     \* tokens of the request not read yet
  outPipe,    \* tokens of the worker not read yet
  worker,     \* [stage, written, code]
  helper,     \* a descendant of the worker keeps its pipes open
  cancel, expired,
  published,  \* names published so far
  outcome

vars == <<job, conduct, talk, inPipe, outPipe, worker, helper, cancel, expired, published, outcome>>

LineEnd == [is |-> "end"]
Mark(done, total) == [is |-> "mark", done |-> done, total |-> total]
Half(n, answer) == [is |-> "half", n |-> n, answer |-> answer]

\* encode_job_response: an object on a line of its own.
Response(answer) == <<Half(1, answer), Half(2, answer), LineEnd>>

Exited == worker.stage = "exited"
PipesHeld == ~Exited \/ helper
At(pc) == talk.pc = pc
Prefix(s, n) == SubSeq(s, 1, n)
Lesser(m, n) == IF m < n THEN m ELSE n

Init ==
  /\ \E work \in Works : job = work.job /\ conduct = work.conduct
  /\ talk = [pc |-> "talk", sent |-> 0, stdin |-> TRUE, stdout |-> TRUE,
             heard |-> [output |-> <<>>, marks |-> 0, done |-> 0, total |-> 0]]
  /\ inPipe = 0 /\ outPipe = <<>>
  /\ worker = [stage |-> "reads", written |-> 0, code |-> 0]
  /\ helper = FALSE
  /\ cancel = FALSE /\ expired = FALSE
  /\ published = <<>> /\ outcome = "none"

-----------------------------------------------------------------------------
(* The worker process (pdf_worker.main): it reads the request to its end,   *)
(* then writes; a conduct that ends in an error may end at any point.       *)

WorkerReads ==
  /\ worker.stage = "reads" /\ inPipe > 0
  /\ inPipe' = 0
  /\ UNCHANGED <<job, conduct, talk, outPipe, worker, helper, cancel, expired, published, outcome>>

WorkerHasRead ==
  /\ worker.stage = "reads" /\ inPipe = 0 /\ ~talk.stdin
  /\ worker' = [worker EXCEPT !.stage = "writes"]
  /\ helper' = conduct.helper
  /\ UNCHANGED <<job, conduct, talk, inPipe, outPipe, cancel, expired, published, outcome>>

WorkerWrites ==
  /\ worker.stage = "writes" /\ worker.written < Len(conduct.writes)
  /\ Len(outPipe) < Capacity
  /\ outPipe' = Append(outPipe, conduct.writes[worker.written + 1])
  /\ worker' = [worker EXCEPT !.written = @ + 1]
  /\ UNCHANGED <<job, conduct, talk, inPipe, helper, cancel, expired, published, outcome>>

WorkerExits ==
  /\ worker.stage = "writes" /\ worker.written = Len(conduct.writes) /\ ~conduct.stays
  /\ worker' = [worker EXCEPT !.stage = "exited", !.code = conduct.code]
  /\ UNCHANGED <<job, conduct, talk, inPipe, outPipe, helper, cancel, expired, published, outcome>>

WorkerFails ==
  /\ ~Exited /\ conduct.code # 0
  /\ worker' = [worker EXCEPT !.stage = "exited", !.code = conduct.code]
  /\ UNCHANGED <<job, conduct, talk, inPipe, outPipe, helper, cancel, expired, published, outcome>>

HelperEnds ==
  /\ helper /\ helper' = FALSE
  /\ UNCHANGED <<job, conduct, talk, inPipe, outPipe, worker, cancel, expired, published, outcome>>

Worker == WorkerReads \/ WorkerHasRead \/ WorkerWrites \/ WorkerExits

-----------------------------------------------------------------------------
(* The loop over the pipes (_bounded_communicate).                          *)

\* _terminate_process_group: a leader that has exited is not signalled, nor is its group.
Terminated ==
  /\ worker' = IF Exited THEN worker ELSE [worker EXCEPT !.stage = "exited", !.code = 137]
  /\ helper' = (helper /\ Exited)

Ends(result) ==
  /\ talk' = [talk EXCEPT !.pc = "done"]
  /\ outcome' = result
  /\ published' = <<>>

Raises(result) ==
  /\ Ends(result) /\ Terminated
  /\ UNCHANGED <<job, conduct, inPipe, outPipe, cancel, expired>>

Looping == At("talk") /\ (talk.stdout \/ ~Exited)
Serving == Looping /\ ~cancel /\ ~expired

StopsForCancel == Looping /\ cancel /\ Raises("user_cancelled")

StopsForDeadline == Looping /\ ~cancel /\ expired /\ Raises("worker_timeout")

\* A reader that is gone ends the request as a complete one does.
Feeds ==
  /\ Serving /\ talk.stdin
  /\ LET n == Lesser(RequestSize - talk.sent, Capacity - inPipe)
         sent == IF PipesHeld THEN talk.sent + n ELSE RequestSize
     IN  /\ PipesHeld => n > 0
         /\ inPipe' = IF PipesHeld THEN inPipe + n ELSE inPipe
         /\ talk' = [talk EXCEPT !.sent = sent, !.stdin = sent < RequestSize]
  /\ UNCHANGED <<job, conduct, outPipe, worker, helper, cancel, expired, published, outcome>>

HasLineEnd(output) == \E i \in DOMAIN output : output[i] = LineEnd
FirstLineEnd(output) ==
  CHOOSE i \in DOMAIN output : output[i] = LineEnd /\ \A j \in 1 .. i - 1 : output[j] # LineEnd
Rest(output) == SubSeq(output, FirstLineEnd(output) + 1, Len(output))

HasMark(t) == t.output # <<>> /\ Head(t.output).is = "mark" /\ HasLineEnd(t.output)

\* A mark is alone on its line, never goes back, and keeps the total of the first.
MarkIsSound(t) ==
  LET mark == Head(t.output)
  IN  /\ FirstLineEnd(t.output) = 2
      /\ t.marks < MaxMarks
      /\ mark.done <= mark.total /\ mark.total > 0
      /\ mark.done >= t.done
      /\ t.total \in {0, mark.total}

\* ProgressFrames.consume, for one mark and for all those at the front of the output.
AfterMark(t) ==
  [output |-> Rest(t.output), marks |-> t.marks + 1,
   done |-> Head(t.output).done, total |-> Head(t.output).total]
Consumed(t) ==
  LET after[n \in 0 .. Len(t.output)] ==
        IF n = 0 THEN t
        ELSE LET before == after[n - 1]
             IN  IF HasMark(before) /\ MarkIsSound(before) THEN AfterMark(before) ELSE before
  IN  after[Len(t.output)]

Hears ==
  /\ Serving /\ talk.stdout /\ outPipe # <<>>
  /\ LET t == Consumed([talk.heard EXCEPT !.output = @ \o outPipe])
     IN  IF Len(talk.heard.output) + Len(outPipe) > MaxOutput THEN Raises("worker_response_too_large")
         ELSE IF HasMark(t) THEN Raises("worker_protocol_error")
         ELSE /\ talk' = [talk EXCEPT !.heard = t] /\ outPipe' = <<>>
              /\ UNCHANGED <<job, conduct, inPipe, worker, helper, cancel, expired, published, outcome>>

HearsTheEnd ==
  /\ Serving /\ talk.stdout /\ outPipe = <<>> /\ ~PipesHeld
  /\ talk' = [talk EXCEPT !.stdout = FALSE]
  /\ UNCHANGED <<job, conduct, inPipe, outPipe, worker, helper, cancel, expired, published, outcome>>

HasHeard ==
  /\ At("talk") /\ ~talk.stdout /\ Exited
  /\ talk' = [talk EXCEPT !.pc = "check"]
  /\ UNCHANGED <<job, conduct, inPipe, outPipe, worker, helper, cancel, expired, published, outcome>>

-----------------------------------------------------------------------------
(* The answer (_exchange, decode_response, JobResult).                      *)

\* One whole answer and nothing else; its line end may be missing.
IsResponse(output) ==
  \E i \in DOMAIN output :
     /\ output[i].is = "half"
     /\ \/ output = Response(output[i].answer)
        \/ output = Prefix(Response(output[i].answer), 2)

Answer == Head(talk.heard.output).answer

\* It answers this request, and declares files exactly when it succeeded.
IsCoherent(answer) ==
  /\ answer.to = "this request"
  /\ answer.success <=> answer.files # <<>>

Ended ==
  CASE cancel -> "user_cancelled"
    [] ~cancel /\ worker.code = 78 -> "network_isolation_unavailable"
    [] ~cancel /\ worker.code \notin {0, 78} -> "worker_crashed"
    [] OTHER -> "exit"

\* The count, the names and the remarks that the job leads to (_publish_structural_outputs
\* before its loop, _publish_staged_output); a single output that is not staged is compared
\* by name in the loop.
RemarksAreRight(answer) == answer.remarks = job.remarks
CountIsRight(answer) == Len(answer.files) = Len(job.names) /\ RemarksAreRight(answer)
FilesAreAnnounced(answer) ==
  CountIsRight(answer) /\
  CASE job.kind = "split" -> [i \in DOMAIN answer.files |-> answer.files[i].name] = job.names
    [] job.kind = "staged" -> answer.files = <<[dir |-> "private", name |-> job.names[1]]>>
    [] job.kind = "named" -> TRUE

ChecksAnswer ==
  /\ At("check")
  /\ IF Ended # "exit" THEN Ends(Ended)
     ELSE IF ~IsResponse(talk.heard.output) \/ ~IsCoherent(Answer) THEN Ends("worker_protocol_error")
     ELSE IF ~Answer.success THEN Ends("failure")
     ELSE IF ~FilesAreAnnounced(Answer) THEN Ends("worker_protocol_error")
     ELSE talk' = [talk EXCEPT !.pc = "publish"] /\ UNCHANGED <<published, outcome>>
  /\ UNCHANGED <<job, conduct, inPipe, outPipe, worker, helper, cancel, expired>>

-----------------------------------------------------------------------------
(* The publication, one file after the other, all withdrawn on the first    *)
(* that will not do.                                                        *)

\* What the loop finds wrong with a file before it is copied.
Fault(file) ==
  CASE file.dir # "private" -> "worker_protocol_error"
    [] job.kind = "named" /\ file.name # job.names[1] -> "worker_protocol_error"
    [] file.name \notin DOMAIN conduct.made -> "output_write_error"
    [] conduct.made[file.name] = "link" -> "output_write_error"
    [] conduct.made[file.name] \in {"empty", "shared", "oversize"} -> "worker_protocol_error"
    [] OTHER -> "none"

\* Copied: the stop is looked at for every piece.
Publishes ==
  /\ At("publish") /\ Len(published) < Len(Answer.files)
  /\ LET file == Answer.files[Len(published) + 1]
     IN  IF Fault(file) # "none" THEN Ends(Fault(file))
         ELSE IF cancel THEN Ends("user_cancelled")
         ELSE IF expired THEN Ends("worker_timeout")
         ELSE published' = Append(published, file.name) /\ UNCHANGED <<talk, outcome>>
  /\ UNCHANGED <<job, conduct, inPipe, outPipe, worker, helper, cancel, expired>>

\* The last look, at the deadline too for a staged output only.
HasPublished ==
  /\ At("publish") /\ Len(published) = Len(Answer.files)
  /\ IF cancel THEN Ends("user_cancelled")
     ELSE IF expired /\ job.kind = "staged" THEN Ends("worker_timeout")
     ELSE /\ talk' = [talk EXCEPT !.pc = "done"]
          /\ outcome' = "success"
          /\ UNCHANGED published
  /\ UNCHANGED <<job, conduct, inPipe, outPipe, worker, helper, cancel, expired>>

Supervisor ==
  \/ StopsForCancel \/ StopsForDeadline \/ Feeds \/ Hears \/ HearsTheEnd \/ HasHeard
  \/ ChecksAnswer \/ Publishes \/ HasPublished

Cancel ==
  /\ ~At("done") /\ ~cancel /\ cancel' = TRUE
  /\ UNCHANGED <<job, conduct, talk, inPipe, outPipe, worker, helper, expired, published, outcome>>

DeadlinePasses ==
  /\ ~At("done") /\ ~expired /\ expired' = TRUE
  /\ UNCHANGED <<job, conduct, talk, inPipe, outPipe, worker, helper, cancel, published, outcome>>

Next == Supervisor \/ Worker \/ WorkerFails \/ HelperEnds \/ Cancel \/ DeadlinePasses

\* Time must pass only for one who waits for it: a worker that never exits, or a helper.
Stuck ==
  \/ worker.stage = "writes" /\ worker.written = Len(conduct.writes) /\ conduct.stays
  \/ Exited /\ helper

Spec == Init /\ [][Next]_vars

FairSpec ==
  /\ Spec
  /\ WF_vars(Supervisor) /\ WF_vars(Worker) /\ WF_vars(Stuck /\ DeadlinePasses)

-----------------------------------------------------------------------------
(* A success publishes the announced files, all of them, in their order,   *)
(* each a complete regular file of the worker's private directory; any     *)
(* other end leaves none, and nothing is ever published before the worker  *)
(* has ended well, whatever it wrote, named or left behind.                *)
OnlyTheAnnouncedFiles ==
  /\ outcome = "success" => published = job.names
  /\ outcome \notin {"none", "success"} => published = <<>>
  /\ published # <<>> => Exited /\ worker.code = 0
  /\ \A i \in DOMAIN published :
        published[i] = job.names[i] /\ conduct.made[published[i]] = "regular"

\* The conduct of a worker that does its work.
Sound ==
  /\ conduct.code = 0 /\ ~conduct.stays
  /\ \A i \in DOMAIN job.names :
        job.names[i] \in DOMAIN conduct.made /\ conduct.made[job.names[i]] = "regular"
  /\ conduct.tells = "the truth"

(* A worker that does its work is believed: unless the job is cancelled or *)
(* its time is over, the whole answer is read, however it was cut into     *)
(* chunks and however soon the process was gone, and the job succeeds.     *)
WorkDoneIsPublished ==
  outcome # "none" /\ Sound /\ ~cancel /\ ~expired => outcome = "success"

(* The exchange ends: two full pipes never wait on each other, and the     *)
(* deadline is needed only for a worker that does not exit and for a descendant that   *)
(* keeps its output open after it (_bounded_communicate).                  *)
ExchangeEnds == At("talk") ~> At("done")
=============================================================================
