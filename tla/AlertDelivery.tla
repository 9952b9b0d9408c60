--------------------------- MODULE AlertDelivery ---------------------------
(***************************************************************************)
(* How an alert of the batch reaches its reader: AlertCoalescer of         *)
(* reporting.py (one buffer and one timer task per title), the sinks of    *)
(* the two notifiers (SlackNotifier sends from the event loop's thread     *)
(* pool, ConsoleNotifier prints), and the teardown of cli._run_batch.      *)
(*                                                                         *)
(* An action is what a task does between two awaits.  A detail is a        *)
(* number: alerts are counted in the order in which they are raised.       *)
(***************************************************************************)
EXTENDS Integers, FiniteSets, Sequences, SequencesExt

CONSTANTS
  Titles,     \* of alerts
  Threads,    \* of the loop's default executor
  \* bounds
  MaxAlerts,
  MayBeKilled \* may the process end without its teardown?

ASSUME AlertAssumption ==
  /\ IsFiniteSet(Titles) /\ Titles # {}
  /\ Threads \in Nat \ {0} /\ MaxAlerts \in Nat
  /\ MayBeKilled \in BOOLEAN

VARIABLES
  sink,    \* "slack" or "console"
  stage,   \* of the process
  raised,  \* the alerts so far
  pending, \* AlertCoalescer._pending: the details buffered under a title
  timers,  \* the titles in AlertCoalescer._tasks
  jobs,    \* the messages handed to the sink, in order
  closing  \* aclose: titles it has yet to flush, the job it awaits

vars == <<sink, stage, raised, pending, timers, jobs, closing>>

-----------------------------------------------------------------------------
NoJob == 0
Details == 1 .. MaxAlerts
Stages == {"running", "closing", "closed", "killed"}
JobStates == {"queued", "sending", "sent", "failed", "dropped"}
Busy == {"queued", "sending"}

\* what: of the pending alert; by: the timer or aclose; state: "queued" in the
\* pool, "sending" in one of its threads.
Message(title, what, by, state) ==
  [title |-> title, what |-> what, by |-> by, state |-> state]

Buffered(title) == pending[title] # <<>>
Sending == {j \in DOMAIN jobs : jobs[j].state = "sending"}
Alive == stage \in {"running", "closing"}

TypeOK ==
  /\ sink \in {"slack", "console"}
  /\ stage \in Stages
  /\ raised \in 0 .. MaxAlerts
  /\ pending \in [Titles -> Seq(Details)]
  /\ timers \subseteq Titles
  /\ \A j \in DOMAIN jobs :
       jobs[j] \in [title : Titles, what : Seq(Details),
                   by : {"timer", "close"}, state : JobStates]
  /\ closing.todo \subseteq Titles /\ closing.awaits \in 0 .. Len(jobs)

Init ==
  /\ sink \in {"slack", "console"}
  /\ stage = "running"
  /\ raised = 0
  /\ pending = [t \in Titles |-> <<>>]
  /\ timers = {}
  /\ jobs = <<>>
  /\ closing = [todo |-> {}, awaits |-> NoJob]

-----------------------------------------------------------------------------
(* AlertCoalescer                                                          *)

\* submit: the first alert of a title starts its timer.
\* Mutation: a timer for the first alert of the run only.
StartsTimerOnce(title) ==
  ~Buffered(title) /\ \A j \in DOMAIN jobs : jobs[j].title # title
StartsTimer(title) == ~Buffered(title)

Submit(title) ==
  /\ stage = "running" /\ raised < MaxAlerts
  /\ raised' = raised + 1
  /\ pending' = [pending EXCEPT ![title] = Append(@, raised')]
  /\ timers' = IF StartsTimer(title) THEN timers \cup {title} ELSE timers
  /\ UNCHANGED <<sink, stage, jobs, closing>>

\* _flush_one, up to its await: the alert leaves the buffer before it is sent.
\* Mutation: it leaves the buffer when it has been sent.
KeptUntilSent(title) == UNCHANGED pending
Taken(title) == pending' = [pending EXCEPT ![title] = <<>>]

\* Slack: one call of chat_postMessage or of the webhook in the pool; the console
\* has printed when the sink returns.
FlushOne(title, by) ==
  /\ Taken(title)
  /\ jobs' = Append(jobs, Message(title, pending[title], by,
                                  IF sink = "slack" THEN "queued" ELSE "sent"))

\* _flush_after: the window is over.  The task leaves _tasks before it sends.
TimerExpires(title) ==
  /\ Alive /\ title \in timers
  /\ timers' = timers \ {title}
  /\ IF Buffered(title) THEN FlushOne(title, "timer") ELSE UNCHANGED <<pending, jobs>>
  /\ UNCHANGED <<sink, stage, raised, closing>>

-----------------------------------------------------------------------------
(* The thread pool                                                         *)

SendBegins(j) ==
  /\ Alive
  /\ jobs[j].state = "queued" /\ Cardinality(Sending) < Threads
  /\ \A i \in 1 .. j - 1 : jobs[i].state # "queued"
  /\ jobs' = [jobs EXCEPT ![j].state = "sending"]
  /\ UNCHANGED <<sink, stage, raised, pending, timers, closing>>

\* _send_blocks logs an exception of Slack's client; it is not tried again.
\* asyncio.run waits for the calls that its pool has begun.
SendEnds(j) ==
  /\ stage # "killed"
  /\ jobs[j].state = "sending"
  /\ \E state \in {"sent", "failed"} : jobs' = [jobs EXCEPT ![j].state = state]
  /\ UNCHANGED <<sink, stage, raised, pending, timers, closing>>

-----------------------------------------------------------------------------
(* Teardown                                                                *)

\* What is left in the buffer when the timers are gone.
\* Mutation: nothing, as if a cancelled timer had sent it.
LeftToTimers == {}
LeftToFlush == {t \in Titles : Buffered(t)}

\* run() has returned or raised: aclose cancels the timers in _tasks, and lists
\* what is buffered.  A flush that a timer has begun is not in _tasks any more.
CloseBegins ==
  /\ stage = "running"
  /\ stage' = "closing"
  /\ timers' = {}
  /\ closing' = [todo |-> LeftToFlush, awaits |-> NoJob]
  /\ UNCHANGED <<sink, raised, pending, jobs>>

Awaited == closing.awaits # NoJob /\ jobs[closing.awaits].state \in Busy

\* The loop over the buffer awaits every flush before the next.
CloseFlushes(title) ==
  /\ stage = "closing" /\ ~Awaited /\ title \in closing.todo
  /\ FlushOne(title, "close")
  /\ closing' = [todo |-> closing.todo \ {title}, awaits |-> Len(jobs')]
  /\ UNCHANGED <<sink, stage, raised, timers>>

\* The other components are closed and the loop ends: asyncio.run cancels what
\* still runs, and with it the calls its pool has not begun.
Exit ==
  /\ stage = "closing" /\ ~Awaited /\ closing.todo = {}
  /\ stage' = "closed"
  /\ jobs' = [j \in DOMAIN jobs |->
                IF jobs[j].state = "queued" THEN [jobs[j] EXCEPT !.state = "dropped"]
                ELSE jobs[j]]
  /\ UNCHANGED <<sink, raised, pending, timers, closing>>

\* SIGTERM, SIGKILL, the end of the instance: no teardown.
Killed ==
  /\ MayBeKilled /\ Alive
  /\ stage' = "killed"
  /\ UNCHANGED <<sink, raised, pending, timers, jobs, closing>>

Next ==
  \/ \E t \in Titles : Submit(t) \/ TimerExpires(t) \/ CloseFlushes(t)
  \/ \E j \in DOMAIN jobs : SendBegins(j) \/ SendEnds(j)
  \/ CloseBegins \/ Exit \/ Killed

Spec == Init /\ [][Next]_vars

\* Timers expire, threads run and Slack's client has a timeout; the teardown
\* goes on once it has begun.  A batch need not end.
FairSpec ==
  /\ Spec
  /\ \A t \in Titles : WF_vars(TimerExpires(t)) /\ WF_vars(CloseFlushes(t))
  /\ WF_vars(\E j \in DOMAIN jobs : SendBegins(j))
  /\ \A j \in Details : WF_vars(j \in DOMAIN jobs /\ SendEnds(j))
  /\ WF_vars(Exit)

-----------------------------------------------------------------------------
(* Properties                                                              *)

InJob(d) == {j \in DOMAIN jobs : d \in ToSet(jobs[j].what)}
InBuffer(d) == {t \in Titles : d \in ToSet(pending[t])}

\* An alert is in exactly one place, the buffer or one message: the flush of a
\* timer, later alerts of the title and the flush of aclose neither send one
\* twice nor drop one between them.
EveryAlertIsInOnePlace ==
  \A d \in 1 .. raised : Cardinality(InJob(d)) + Cardinality(InBuffer(d)) = 1

\* What the teardown finds in the buffer it sends or tries before the process
\* ends, however busy the threads are with what the timers have flushed.
BufferedIsSentBeforeExit ==
  stage = "closed" =>
    /\ \A d \in 1 .. raised : InBuffer(d) = {}
    /\ \A j \in DOMAIN jobs : jobs[j].by = "close" => jobs[j].state \in {"sent", "failed"}

\* "(...) so nothing buffered is lost when the process exits"
\* (slack_notifier.py:143), whoever flushes it.
NothingIsLostAtExit ==
  stage = "closed" => \A j \in DOMAIN jobs : jobs[j].state # "dropped"

\* An alert does not wait for the end of the batch: it is sent, or tried, while
\* the process lives.
AlertsGoOut ==
  \A d \in Details :
    d <= raised ~> \/ \E j \in InJob(d) : jobs[j].state \notin Busy
                   \/ stage = "killed"
=============================================================================
