---------------------------- MODULE ComfyServer ----------------------------
(***************************************************************************)
(* The ComfyUI server as its client sees it: a queue worked off by one     *)
(* prompt_worker thread, /history, and events sent to the client's         *)
(* websocket.  ComfyUI itself is outside the repository and is modelled    *)
(* from how adapters/comfy_http.py and the guard node use it; the guard    *)
(* node (comfyui_guard_node) is the repository's, and decides what a       *)
(* framework-level exception inside PromptExecutor.execute comes to.       *)
(***************************************************************************)
EXTENDS Integers, Sequences, FiniteSets

CONSTANTS
  Prompts,  \* prompt ids
  Methods   \* of PromptExecutor, in the version of ComfyUI that is installed

ASSUME ServerAssumption == Methods \subseteq {"execute", "execute_async"}

VARIABLES
  job,       \* where a prompt is on the server
  executor,  \* PromptExecutor: success, history_result once it is an attribute
  worker,    \* the prompt_worker thread
  history,   \* entries of /history
  socket,    \* events sent on the open websocket and not read yet
  \* history variable
  fate       \* what became of a prompt's execution

serverVars == <<job, executor, worker, history, socket, fate>>

-----------------------------------------------------------------------------
\* "returned": execute has returned, task_done has not been called yet.
JobStates == {"unknown", "queued", "running", "returned", "finished", "lost"}
Fates == {"ok", "failed"}

\* Whose images a JobOutcome, or the history entry it is made of, names.
Outcome == [prompt : Prompts, ok : BOOLEAN, files : SUBSET Prompts]
Event == [prompt : Prompts, ok : BOOLEAN]

FreshExecutor == [success |-> TRUE, hasResult |-> FALSE, result |-> {}]

ServerInit ==
  /\ job = [p \in Prompts |-> "unknown"]
  /\ executor = FreshExecutor
  /\ worker = "alive"
  /\ history = {}
  /\ socket = <<>>
  /\ fate = [p \in Prompts |-> "none"]

\* patch_prompt_executor wraps whatever it finds of the two, and confirms execute,
\* which is what prompt_worker calls.  No PromptExecutor is no methods.
Guarded == "execute" \in Methods

Idle == \A p \in Prompts : job[p] \notin {"running", "returned"}

\* POST /prompt, accepted.
Enqueue(p) ==
  /\ job[p] = "unknown"
  /\ job' = [job EXCEPT ![p] = "queued"]

\* The thread takes an item; PromptExecutor.reset leaves history_result alone.
\* The queue's order is nothing the client relies on (front=True, reordering).
Start(p) ==
  /\ worker = "alive" /\ Idle /\ job[p] = "queued"
  /\ job' = [job EXCEPT ![p] = "running"]
  /\ executor' = [executor EXCEPT !.success = TRUE]
  /\ UNCHANGED <<worker, history, socket, fate>>

\* The event goes out from inside execute; nobody keeps it for a client that
\* is not connected.
Emitted(open, p, ok) ==
  IF open THEN Append(socket, [prompt |-> p, ok |-> ok]) ELSE socket

\* execute runs to its end: success, or a node's own failure (or an interrupt),
\* which ComfyUI handles itself.
Execute(p, open) ==
  /\ worker = "alive" /\ job[p] = "running"
  /\ \E ok \in BOOLEAN :
       /\ executor' = [success |-> ok, hasResult |-> TRUE, result |-> {p}]
       /\ fate' = [fate EXCEPT ![p] = IF ok THEN "ok" ELSE "failed"]
       /\ socket' = Emitted(open, p, ok)
  /\ job' = [job EXCEPT ![p] = "returned"]
  /\ UNCHANGED <<worker, history>>

\* _mark_prompt_failed_and_log: failed, an empty result, and a message.
\* Mutation: the exception is caught, history_result is left as it is.
MarkedFailedOnly(e) == [e EXCEPT !.success = FALSE]
\* Mutation: the result is reset, success is not.
ResultResetOnly(e) == [e EXCEPT !.hasResult = TRUE, !.result = {}]
MarkedFailed(e) == [success |-> FALSE, hasResult |-> TRUE, result |-> {}]

\* A framework-level exception inside execute.  The guard catches it; telling
\* the client may fail (no add_message, no send_sync, an id not found).
FrameworkFault(p, open) ==
  /\ worker = "alive" /\ job[p] = "running"
  /\ fate' = [fate EXCEPT ![p] = "failed"]
  /\ IF Guarded
     THEN /\ executor' = MarkedFailed(executor)
          /\ job' = [job EXCEPT ![p] = "returned"]
          /\ \E sent \in BOOLEAN : socket' = Emitted(open /\ sent, p, FALSE)
          /\ UNCHANGED worker
     ELSE /\ worker' = "dead"
          /\ UNCHANGED <<job, executor, socket>>
  /\ UNCHANGED history

\* q.task_done(item_id, e.history_result, status): an attribute that is not
\* there ends the thread.
TaskDone(p) ==
  /\ worker = "alive" /\ job[p] = "returned"
  /\ IF executor.hasResult
     THEN /\ job' = [job EXCEPT ![p] = "finished"]
          /\ history' = history \cup
               {[prompt |-> p, ok |-> executor.success, files |-> executor.result]}
          /\ UNCHANGED worker
     ELSE /\ worker' = "dead"
          /\ UNCHANGED <<job, history>>
  /\ UNCHANGED <<executor, socket, fate>>

\* The process is replaced: queue, history and connections are gone.
Restart ==
  /\ job' = [p \in Prompts |-> IF job[p] = "unknown" THEN "unknown" ELSE "lost"]
  /\ executor' = FreshExecutor
  /\ worker' = "alive"
  /\ history' = {}
  /\ socket' = <<>>
  /\ UNCHANGED fate
=============================================================================
