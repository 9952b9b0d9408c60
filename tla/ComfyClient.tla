---------------------------- MODULE ComfyClient ----------------------------
(***************************************************************************)
(* ComfyHTTP (src/comfy_controller/adapters/comfy_http.py): submit and     *)
(* await_outcome of any number of callers, and the one reader coroutine    *)
(* that shares _in_flight, _results and _waiters with them: it connects,   *)
(* checks what is in flight against /history, then dispatches events.      *)
(* Each action runs from one await of its coroutine to the next.           *)
(***************************************************************************)
EXTENDS ComfyServer

CONSTANTS
  MaxCalls,  \* calls in progress at once (Workers of the runner, the canary)
  MaxFaults  \* dropped sockets, lost replies, server restarts, failed GETs

ASSUME ClientAssumption == MaxCalls \in Nat /\ MaxFaults \in Nat

VARIABLES
  call,       \* per prompt: how far its submitter is
  inFlight,   \* _in_flight
  results,    \* _results
  waiters,    \* _waiters
  reader,     \* _ws_reader_loop
  faults,
  \* history variable
  told        \* what the submitter of a prompt was told, with which files

clientVars == <<call, inFlight, results, waiters, told>>
vars == <<job, executor, worker, history, socket, fate,
          call, inFlight, results, waiters, reader, faults, told>>

-----------------------------------------------------------------------------
\* "posted": accepted, the reply is on its way; "submitted": submit has
\* returned; "waiting", "asking": in await_outcome, in its last look at history;
\* "orphan": its reply was lost; "uncollected": nobody calls await_outcome.
CallStates == {"none", "posted", "submitted", "waiting", "asking", "over",
               "orphan", "uncollected"}
InCall == {"posted", "submitted", "waiting", "asking"}

\* "off": not started or closed; "down": backoff, connecting; "checking":
\* _reconcile_in_flight; "reading": at the next message; "fetching": in the
\* history request of a success event.
ReaderStates == {"off", "down", "checking", "reading", "fetching"}

ReaderAt(pc, todo) == [pc |-> pc, todo |-> todo]
Connected == reader.pc \in {"checking", "reading", "fetching"}

Untold == [end |-> "none", files |-> {}]
Unknown == [end |-> "unknown", files |-> {}]
Aborted == [end |-> "aborted", files |-> {}]
ToldOf(o) == [end |-> IF o.ok THEN "ok" ELSE "failed", files |-> o.files]

TypeOK ==
  /\ job \in [Prompts -> JobStates] /\ worker \in {"alive", "dead"}
  /\ executor \in [success : BOOLEAN, hasResult : BOOLEAN, result : SUBSET Prompts]
  /\ history \subseteq Outcome /\ results \subseteq Outcome
  /\ socket \in Seq(Event)
  /\ fate \in [Prompts -> Fates \cup {"none"}]
  /\ call \in [Prompts -> CallStates] /\ inFlight \subseteq Prompts
  /\ waiters \in [Prompts -> {"none", "unset", "set"}]
  /\ reader \in [pc : ReaderStates, todo : SUBSET Prompts]
  /\ faults \in Nat
  /\ told \in [Prompts -> [end : Fates \cup {"none", "unknown", "aborted"}, files : SUBSET Prompts]]

Init ==
  /\ ServerInit
  /\ call = [p \in Prompts |-> "none"]
  /\ inFlight = {}
  /\ results = {}
  /\ waiters = [p \in Prompts |-> "none"]
  /\ reader = ReaderAt("off", {})
  /\ faults = 0
  /\ told = [p \in Prompts |-> Untold]

Fault == faults < MaxFaults /\ faults' = faults + 1

-----------------------------------------------------------------------------
(* submit                                                                  *)

\* _ensure_reader_started; _wait_connected goes on after 10 s in any case.
ReaderStarted == reader' = IF reader.pc = "off" THEN ReaderAt("down", {}) ELSE reader

Post(p) ==
  /\ call[p] = "none"
  /\ Cardinality({q \in Prompts : call[q] \in InCall}) < MaxCalls
  /\ Enqueue(p)
  /\ call' = [call EXCEPT ![p] = "posted"]
  /\ ReaderStarted
  /\ UNCHANGED <<executor, worker, history, socket, fate,
                 inFlight, results, waiters, faults, told>>

\* The reply is lost: _post_json posts the same graph again (a Post of another
\* id), or gives up; either way this prompt is nobody's.
PostRepeated(p) ==
  /\ call[p] = "none"
  /\ Fault
  /\ Enqueue(p)
  /\ call' = [call EXCEPT ![p] = "orphan"]
  /\ ReaderStarted
  /\ UNCHANGED <<executor, worker, history, socket, fate,
                 inFlight, results, waiters, told>>

Replied(p) ==
  /\ call[p] = "posted"
  /\ call' = [call EXCEPT ![p] = "submitted"]
  /\ inFlight' = inFlight \cup {p}
  /\ UNCHANGED <<serverVars, results, waiters, reader, faults, told>>

\* The canary, and a worker that stops between submit and await_outcome.
NotAwaited(p) ==
  /\ call[p] = "submitted"
  /\ call' = [call EXCEPT ![p] = "uncollected"]
  /\ UNCHANGED <<serverVars, inFlight, results, waiters, reader, faults, told>>

-----------------------------------------------------------------------------
(* await_outcome                                                           *)

ResultOf(p) == {r \in results : r.prompt = p}

Tell(p, what) ==
  /\ told' = [told EXCEPT ![p] = what]
  /\ call' = [call EXCEPT ![p] = "over"]

\* The finally block.
DropBookkeeping(p) ==
  /\ waiters' = [waiters EXCEPT ![p] = "none"]
  /\ inFlight' = inFlight \ {p}

\* The outcome came first.
AwaitCached(p) ==
  /\ call[p] = "submitted"
  /\ \E r \in ResultOf(p) : Tell(p, ToldOf(r))
  /\ results' = results \ ResultOf(p)
  /\ waiters' = [waiters EXCEPT ![p] = "none"]
  /\ UNCHANGED <<serverVars, inFlight, reader, faults>>

\* waiters.setdefault
AwaitBegins(p) ==
  /\ call[p] = "submitted" /\ ResultOf(p) = {}
  /\ call' = [call EXCEPT ![p] = "waiting"]
  /\ waiters' = [waiters EXCEPT ![p] = IF @ = "none" THEN "unset" ELSE @]
  /\ ReaderStarted
  /\ UNCHANGED <<serverVars, inFlight, results, faults, told>>

\* Without a result this would be the RuntimeError.
Wake(p) ==
  /\ call[p] = "waiting" /\ waiters[p] = "set"
  /\ IF ResultOf(p) = {} THEN Tell(p, Unknown)
     ELSE \E r \in ResultOf(p) : Tell(p, ToldOf(r))
  /\ results' = results \ ResultOf(p)
  /\ DropBookkeeping(p)
  /\ UNCHANGED <<serverVars, reader, faults>>

Timeout(p) ==
  /\ call[p] = "waiting" /\ waiters[p] # "set"
  /\ call' = [call EXCEPT ![p] = "asking"]
  /\ UNCHANGED <<serverVars, inFlight, results, waiters, reader, faults, told>>

EntryOf(p) == {e \in history : e.prompt = p}

\* Mutation: a timeout is a timeout, whatever history says.
TimedOutAtOnce(p) == Tell(p, Unknown)
LastLook(p) ==
  IF EntryOf(p) = {} THEN Tell(p, Unknown)
  ELSE \E e \in EntryOf(p) : Tell(p, ToldOf(e))

Asked(p) ==
  /\ call[p] = "asking"
  /\ LastLook(p)
  /\ DropBookkeeping(p)
  /\ UNCHANGED <<serverVars, results, reader, faults>>

\* history() raises, or the caller is cancelled.
AwaitAborted(p) ==
  /\ call[p] \in {"waiting", "asking"}
  /\ Fault
  /\ Tell(p, Aborted)
  /\ DropBookkeeping(p)
  /\ UNCHANGED <<serverVars, results, reader>>

-----------------------------------------------------------------------------
(* The reader                                                              *)

\* _resolve
\* Mutation: the waiter is woken, the outcome is not stored.
WakeOnly(o) ==
  /\ waiters' = [waiters EXCEPT ![o.prompt] = "set"]
  /\ inFlight' = inFlight \ {o.prompt}
  /\ UNCHANGED results
Resolve(o) ==
  /\ results' = {r \in results : r.prompt # o.prompt} \cup {o}
  /\ inFlight' = inFlight \ {o.prompt}
  /\ waiters' = [waiters EXCEPT ![o.prompt] = "set"]

Connect ==
  /\ reader.pc = "down"
  /\ reader' = ReaderAt("checking", inFlight)
  /\ UNCHANGED <<serverVars, clientVars, faults>>

\* One prompt of the copy of _in_flight.
Check(p) ==
  /\ reader.pc = "checking" /\ p \in reader.todo
  /\ reader' = ReaderAt("checking", reader.todo \ {p})
  /\ IF EntryOf(p) = {} THEN UNCHANGED <<results, inFlight, waiters>>
     ELSE \E e \in EntryOf(p) : Resolve(e)
  /\ UNCHANGED <<serverVars, call, faults, told>>

BeginReading ==
  /\ reader.pc = "checking" /\ reader.todo = {}
  /\ reader' = ReaderAt("reading", {})
  /\ UNCHANGED <<serverVars, clientVars, faults>>

\* _dispatch_event of execution_error and execution_interrupted, and the
\* first half of execution_success.
Dispatch ==
  /\ reader.pc = "reading" /\ socket # <<>>
  /\ socket' = Tail(socket)
  /\ LET event == Head(socket) IN
       IF event.ok
       THEN /\ reader' = ReaderAt("fetching", {event.prompt})
            /\ UNCHANGED <<results, inFlight, waiters>>
       ELSE /\ Resolve([prompt |-> event.prompt, ok |-> FALSE, files |-> {}])
            /\ UNCHANGED reader
  /\ UNCHANGED <<job, executor, worker, history, fate, call, faults, told>>

\* (entry or {}).get("outputs"): no entry yet is no files.
Fetched ==
  /\ reader.pc = "fetching"
  /\ \E p \in reader.todo :
       Resolve([prompt |-> p, ok |-> TRUE,
                files |-> UNION {e.files : e \in EntryOf(p)}])
  /\ reader' = ReaderAt("reading", {})
  /\ UNCHANGED <<serverVars, call, faults, told>>

\* The socket closes, or history() raises inside the loop.
Dropped ==
  /\ Connected /\ Fault
  /\ reader' = ReaderAt("down", {})
  /\ socket' = <<>>
  /\ UNCHANGED <<job, executor, worker, history, fate, clientVars>>

\* close: after the run, when no call is in progress.
Close ==
  /\ reader.pc # "off"
  /\ \A p \in Prompts : call[p] \notin InCall \cup {"none"}
  /\ reader' = ReaderAt("off", {})
  /\ socket' = <<>>
  /\ UNCHANGED <<job, executor, worker, history, fate, clientVars, faults>>

-----------------------------------------------------------------------------
Server ==
  /\ UNCHANGED <<clientVars, reader, faults>>
  /\ \E p \in Prompts :
       \/ Start(p)
       \/ Execute(p, Connected)
       \/ FrameworkFault(p, Connected)
       \/ TaskDone(p)

ServerRestarts ==
  /\ Fault
  /\ Restart
  /\ reader' = IF Connected THEN ReaderAt("down", {}) ELSE reader
  /\ UNCHANGED clientVars

Caller(p) ==
  \/ Post(p) \/ PostRepeated(p) \/ Replied(p) \/ NotAwaited(p)
  \/ AwaitCached(p) \/ AwaitBegins(p) \/ Wake(p)
  \/ Timeout(p) \/ Asked(p) \/ AwaitAborted(p)

Reader ==
  \/ Connect \/ (\E p \in Prompts : Check(p)) \/ BeginReading
  \/ Dispatch \/ Fetched \/ Dropped \/ Close

Next ==
  \/ \E p \in Prompts : Caller(p)
  \/ Reader
  \/ Server
  \/ ServerRestarts

Spec == Init /\ [][Next]_vars

\* The event loop runs ready coroutines and fires timers; the server works off
\* its queue.  Nothing is assumed of faults or of callers submitting anything.
CallGoesOn(p) ==
  Replied(p) \/ AwaitCached(p) \/ AwaitBegins(p) \/ Wake(p) \/ Timeout(p) \/ Asked(p)

ReaderGoesOn ==
  Connect \/ (\E p \in Prompts : Check(p)) \/ BeginReading \/ Dispatch \/ Fetched

FairSpec ==
  /\ Spec
  /\ \A p \in Prompts : WF_vars(CallGoesOn(p))
  /\ WF_vars(ReaderGoesOn)
  /\ WF_vars(Server)

-----------------------------------------------------------------------------
(* Properties                                                              *)

\* Whatever the order of replies, events, reconnects and timeouts, what a
\* caller is told of a prompt names no other prompt's images, and the outcome
\* is the one the execution had.  (Without the guard's reset of history_result
\* the previous job's outputs would be a failed prompt's.)
ToldTheTruth ==
  \A p \in Prompts :
    /\ told[p].files \subseteq {p}
    /\ told[p].end \in Fates => told[p].end = fate[p]

\* The RuntimeError of await_outcome ("waiter fired without a stored outcome")
\* is unreachable: no order of resolving, waiting and giving up leaves a waiter
\* set whose outcome is gone while its caller still waits.
NeverWokenForNothing ==
  \A p \in Prompts :
    call[p] \in {"submitted", "waiting"} /\ waiters[p] = "set" => ResultOf(p) # {}

\* A prompt whose execution is on record while its caller waits is reported as
\* what it was: lost events, reconnects at the wrong moment and the gap between
\* an event and its history entry cost time, never the outcome.  Unless
\* the server restarts, or the caller is cancelled or refused an answer.
FinishedIsReported ==
  \A p \in Prompts :
    (call[p] = "waiting" /\ EntryOf(p) # {})
      ~> (told[p].end \in {fate[p], "aborted"} \/ job[p] = "lost")

\* The client keeps the promise of PromptOutcome: a prompt's fate is told once,
\* as it is, and only after it was decided.
Promise == INSTANCE PromptOutcome WITH
  told <- [p \in Prompts |->
            IF told[p].end = "aborted" THEN "unknown" ELSE told[p].end]
ImplementsPromptOutcome == Promise!Spec

\* "Every exit path (...) must drop the waiter and stop treating the prompt as
\* in flight" (comfy_http.py:322): once its caller has left, the client keeps
\* nothing of a prompt.
NothingIsKept ==
  \A p \in Prompts :
    call[p] = "over" /\ job[p] = "finished" /\ socket = <<>> /\ reader.pc = "reading"
      => p \notin inFlight /\ waiters[p] = "none" /\ ResultOf(p) = {}

\* A prompt reported as a success comes with its images
\* (ComfyHTTP._outcome_from_history, runner.py:633).
SuccessHasItsFiles ==
  \A p \in Prompts : told[p].end = "ok" => told[p].files = {p}
=============================================================================
