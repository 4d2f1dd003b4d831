---------------------------- MODULE RenderMemory ----------------------------
(***************************************************************************)
(* The memory budget of the workers that draw pages: before it reads its    *)
(* request, such a worker asks a separate broker for a systemd scope with a *)
(* memory limit, then looks in the kernel's own files whether the limit is  *)
(* in force.  The broker serves one connection at a time, keeps at most     *)
(* MaxActive scopes, and forgets a scope once its process has ended         *)
(* (workers/render_memory_broker.py, render_memory.py, pdf_worker.py).      *)
(*                                                                         *)
(* The user manager (systemd) and the kernel are external: a scope is       *)
(* "asked" when its creation was enqueued, "enforced" once the process was  *)
(* moved into it, "stopped" once its stop was enqueued; its limit holds as  *)
(* long as a process is inside.                                             *)
(***************************************************************************)
EXTENDS Naturals, FiniteSets, Sequences

CONSTANTS
  Drawers,     \* workers that draw pages, each of them one process
  MaxActive,   \* _MAX_ACTIVE
  NoDrawer     \* no connection is being served

VARIABLES
  stage,       \* what each worker is doing
  told,        \* what the broker has written on its socket
  scope,       \* its scope, as the user manager has it
  backlog,     \* connections the broker has not accepted yet
  peer,        \* the connection being served
  broker,      \* where the broker is
  active,      \* the scopes it remembers (pidfd, name)
  fullWith     \* history: whom a refusal for lack of room counted, by the refused worker

budgetVars == <<stage, told, scope, backlog, peer, broker, active, fullWith>>

LivingStages == {"asking", "verifying", "working"}

Living(w) == stage[w] \in LivingStages
Serving == broker \in {"sweeping", "creating", "created"}

BudgetInit ==
  /\ stage = [w \in Drawers |-> "idle"]
  /\ told = [w \in Drawers |-> "nothing"]
  /\ scope = [w \in Drawers |-> "none"]
  /\ backlog = <<>>
  /\ peer = NoDrawer
  /\ broker = "listening"
  /\ active = {}
  /\ fullWith = <<>>

(***************************************************************************)
(* The worker.                                                             *)
(***************************************************************************)

\* request_render_budget: connect.  Without a listening broker the worker
\* ends with 79 (no budget, no drawing).
Ask(w) ==
  /\ stage[w] = "idle"
  /\ IF broker = "listening" \/ Serving
       THEN /\ stage' = [stage EXCEPT ![w] = "asking"]
            /\ backlog' = Append(backlog, w)
       ELSE /\ stage' = [stage EXCEPT ![w] = "ended"]
            /\ UNCHANGED backlog
  /\ UNCHANGED <<told, scope, peer, broker, active, fullWith>>

\* The byte that answers: 1 goes on to look at the kernel, anything else, a
\* closed socket included, ends the worker.
ReadAnswer(w) ==
  /\ stage[w] = "asking"
  /\ told[w] # "nothing"
  /\ stage' = [stage EXCEPT ![w] = IF told[w] = "yes" THEN "verifying" ELSE "ended"]
  /\ UNCHANGED <<told, scope, backlog, peer, broker, active, fullWith>>

\* verify_render_budget: the process is inside a scope with the limit, or it
\* looks again for up to three seconds.
Verify(w) ==
  /\ stage[w] = "verifying"
  /\ scope[w] \in {"enforced", "stopped"}
  /\ stage' = [stage EXCEPT ![w] = "working"]
  /\ UNCHANGED <<told, scope, backlog, peer, broker, active, fullWith>>

\* The five seconds of the answer or the three of the verification have
\* passed (79), the work is done, or the supervisor has killed the worker.
End(w) ==
  /\ Living(w)
  /\ stage' = [stage EXCEPT ![w] = "ended"]
  /\ UNCHANGED <<told, scope, backlog, peer, broker, active, fullWith>>

(***************************************************************************)
(* The user manager.                                                       *)
(***************************************************************************)

\* The process is moved into the scope whose creation was only enqueued.
Migrate(w) ==
  /\ scope[w] = "asked"
  /\ Living(w)
  /\ scope' = [scope EXCEPT ![w] = "enforced"]
  /\ UNCHANGED <<stage, told, backlog, peer, broker, active, fullWith>>

\* Stopping a scope ends the processes inside it.
KillStopped(w) ==
  /\ scope[w] = "stopped"
  /\ Living(w)
  /\ stage' = [stage EXCEPT ![w] = "ended"]
  /\ UNCHANGED <<told, scope, backlog, peer, broker, active, fullWith>>

(***************************************************************************)
(* The broker.                                                             *)
(***************************************************************************)

Accept ==
  /\ broker = "listening"
  /\ backlog # <<>>
  /\ peer' = Head(backlog)
  /\ backlog' = Tail(backlog)
  /\ broker' = "sweeping"
  /\ UNCHANGED <<stage, told, scope, active, fullWith>>

\* The variant in which ended processes are never forgotten.
RememberedAll == active

\* The scopes it still remembers once those whose process has ended (a
\* readable pidfd) are forgotten.
Remembered == {w \in active : Living(w)}

\* _register_peer up to the creation: forget what has ended, then refuse if
\* there is no room.
Sweep ==
  /\ broker = "sweeping"
  /\ active' = Remembered
  /\ IF Cardinality(Remembered) >= MaxActive
       THEN /\ told' = [told EXCEPT ![peer] = "no"]
            /\ fullWith' = [w \in DOMAIN fullWith \cup {peer} |->
                              IF w = peer THEN {x \in Drawers : Living(x)} \ {peer} ELSE fullWith[w]]
            /\ peer' = NoDrawer
            /\ broker' = "listening"
       ELSE broker' = "creating" /\ UNCHANGED <<told, fullWith, peer>>
  /\ UNCHANGED <<stage, scope, backlog>>

\* _create_scope: the call is answered; or it fails (the process is gone, no
\* manager); or its three seconds pass although the manager took the order.
Create ==
  /\ broker = "creating"
  /\ \E taken \in {TRUE, FALSE}, answered \in {TRUE, FALSE} :
       /\ taken => Living(peer)
       /\ answered => taken
       /\ scope' = IF taken THEN [scope EXCEPT ![peer] = "asked"] ELSE scope
       /\ IF answered
            THEN broker' = "created" /\ UNCHANGED <<told, peer>>
            ELSE /\ told' = [told EXCEPT ![peer] = "no"]
                 /\ broker' = "listening"
                 /\ peer' = NoDrawer
  /\ UNCHANGED <<stage, backlog, active, fullWith>>

\* The scope is remembered and the worker is told so; a worker that has left
\* meanwhile does not read it.
Record ==
  /\ broker = "created"
  /\ active' = active \cup {peer}
  /\ told' = [told EXCEPT ![peer] = "yes"]
  /\ peer' = NoDrawer
  /\ broker' = "listening"
  /\ UNCHANGED <<stage, scope, backlog, fullWith>>

\* Everyone still waiting for an answer finds the socket closed.
Closed(w) == w = peer \/ \E i \in 1..Len(backlog) : backlog[i] = w

\* SIGTERM or SIGINT raises SystemExit wherever the broker is: the sockets
\* are closed, then the remembered scopes are stopped.
Terminate ==
  /\ broker = "listening" \/ Serving
  /\ broker' = "stopping"
  /\ told' = [w \in Drawers |-> IF Closed(w) THEN "closed" ELSE told[w]]
  /\ backlog' = <<>>
  /\ peer' = NoDrawer
  /\ UNCHANGED <<stage, scope, active, fullWith>>

\* One scope of the final sweep; a refusal of the manager is passed over.
StopOne ==
  /\ broker = "stopping"
  /\ \E w \in active, done \in {TRUE, FALSE} :
       /\ active' = active \ {w}
       /\ scope' = IF done THEN [scope EXCEPT ![w] = "stopped"] ELSE scope
  /\ UNCHANGED <<stage, told, backlog, peer, broker, fullWith>>

Leave ==
  /\ broker = "stopping"
  /\ active = {}
  /\ broker' = "ended"
  /\ UNCHANGED <<stage, told, scope, backlog, peer, active, fullWith>>

\* The broker dies with the bwrap that runs it: nothing is stopped.
Killed ==
  /\ broker \notin {"ended", "killed"}
  /\ broker' = "killed"
  /\ told' = [w \in Drawers |-> IF Closed(w) THEN "closed" ELSE told[w]]
  /\ backlog' = <<>>
  /\ peer' = NoDrawer
  /\ UNCHANGED <<stage, scope, active, fullWith>>

BudgetNext ==
  \/ \E w \in Drawers :
       \/ Ask(w) \/ ReadAnswer(w) \/ Verify(w) \/ End(w)
       \/ Migrate(w) \/ KillStopped(w)
  \/ Accept \/ Sweep \/ Create \/ Record
  \/ Terminate \/ StopOne \/ Leave \/ Killed

(***************************************************************************)
(* Properties.                                                             *)
(***************************************************************************)

BudgetTypeOK ==
  /\ stage \in [Drawers -> LivingStages \cup {"idle", "ended"}]
  /\ told \in [Drawers -> {"nothing", "yes", "no", "closed"}]
  /\ scope \in [Drawers -> {"none", "asked", "enforced", "stopped"}]
  /\ backlog \in Seq(Drawers)
  /\ peer \in Drawers \cup {NoDrawer}
  /\ broker \in {"listening", "sweeping", "creating", "created", "stopping", "ended", "killed"}
  /\ active \in SUBSET Drawers
  /\ \E refused \in SUBSET Drawers : fullWith \in [refused -> SUBSET Drawers]

\* A worker that draws is inside a scope that limits it, whatever the broker
\* has answered, forgotten or left behind.
WorksUnderItsBudget ==
  \A w \in Drawers : stage[w] = "working" => scope[w] \in {"enforced", "stopped"}

\* A drawer refused for lack of room was refused while MaxActive others were
\* really alive: what has ended never takes the place of what could start.
RefusedOnlyWhenFull ==
  \A w \in DOMAIN fullWith : Cardinality(fullWith[w]) >= MaxActive

\* At no time do more than MaxActive workers that were answered live at once
\* (a scope the broker made is counted until its process has ended).
NeverMoreThanTheRoom ==
  Cardinality({w \in Drawers : Living(w) /\ told[w] = "yes"}) <= MaxActive

\* The budget of the drawers (_register_peer, request_render_budget): no
\* drawing without an enforced limit, never more of them than the room, and
\* no refusal on account of a worker that has already ended.
BudgetOrNothing ==
  /\ WorksUnderItsBudget
  /\ RefusedOnlyWhenFull
  /\ NeverMoreThanTheRoom

=============================================================================
