------------------------- MODULE ComfyClientProofs -------------------------
(***************************************************************************)
(* What holds of ComfyClient for any number of prompts, callers and        *)
(* faults: types, that callers are told the truth, that no waiter is woken *)
(* for nothing, and the refinement of PromptOutcome.                       *)
(***************************************************************************)
EXTENDS ComfyClient, TLAPS

USE DEF JobStates, Fates, Outcome, Event, CallStates, ReaderStates

-----------------------------------------------------------------------------
(* Types                                                                   *)

LEMMA HeadOfSocket ==
  ASSUME NEW S, NEW s \in Seq(S), s # <<>>
  PROVE  Head(s) \in S /\ Tail(s) \in Seq(S)
  OBVIOUS

LEMMA EmittedType ==
  ASSUME socket \in Seq(Event), NEW p \in Prompts, NEW open \in BOOLEAN, NEW ok \in BOOLEAN
  PROVE  Emitted(open, p, ok) \in Seq(Event)
<1>1. [prompt |-> p, ok |-> ok] \in Event
  OBVIOUS
<1>2. \A S, s, e : s \in Seq(S) /\ e \in S => Append(s, e) \in Seq(S)
  OBVIOUS
<1> QED
  BY <1>1, <1>2 DEF Emitted

Tellings == [end : Fates \cup {"none", "unknown", "aborted"}, files : SUBSET Prompts]

LEMMA TellType ==
  ASSUME TypeOK, NEW p \in Prompts, NEW what \in Tellings, Tell(p, what)
  PROVE  /\ told' \in [Prompts -> Tellings]
         /\ call' \in [Prompts -> CallStates]
  BY DEF TypeOK, Tell, Tellings

LEMMA ToldOfType ==
  ASSUME NEW o \in Outcome
  PROVE  ToldOf(o) \in Tellings
  BY DEF ToldOf, Tellings

LEMMA SilenceType == Unknown \in Tellings /\ Aborted \in Tellings
  BY DEF Unknown, Aborted, Tellings

LEMMA ResolveType ==
  ASSUME TypeOK, NEW o \in Outcome, Resolve(o)
  PROVE  /\ results' \subseteq Outcome /\ inFlight' \subseteq Prompts
         /\ waiters' \in [Prompts -> {"none", "unset", "set"}]
  BY DEF TypeOK, Resolve

LEMMA TypeInit == Init => TypeOK
  BY DEF Init, ServerInit, TypeOK, FreshExecutor, ReaderAt, Untold

LEMMA ServerType == TypeOK /\ Server => TypeOK'
<1> SUFFICES ASSUME TypeOK, UNCHANGED <<clientVars, reader, faults>>, NEW p \in Prompts,
                    Start(p) \/ Execute(p, Connected) \/ FrameworkFault(p, Connected) \/ TaskDone(p)
             PROVE  TypeOK'
  BY DEF Server
<1> USE DEF TypeOK, clientVars
<1>1. CASE Start(p)
  BY <1>1 DEF Start
<1>2. CASE Execute(p, Connected)
  <2>1. PICK ok \in BOOLEAN :
          /\ executor' = [success |-> ok, hasResult |-> TRUE, result |-> {p}]
          /\ fate' = [fate EXCEPT ![p] = IF ok THEN "ok" ELSE "failed"]
          /\ socket' = Emitted(Connected, p, ok)
    BY <1>2 DEF Execute
  <2>2. socket' \in Seq(Event)
    <3>1. Connected \in BOOLEAN
      BY DEF Connected
    <3>2. Emitted(Connected, p, ok) \in Seq(Event)
      BY <3>1, EmittedType
    <3> QED
      BY <2>1, <3>2
  <2>3. executor' \in [success : BOOLEAN, hasResult : BOOLEAN, result : SUBSET Prompts]
    BY <2>1
  <2> QED
    BY <1>2, <2>1, <2>2, <2>3 DEF Execute
<1>3. CASE FrameworkFault(p, Connected)
  <2>1. \A sent \in BOOLEAN : Emitted(Connected /\ sent, p, FALSE) \in Seq(Event)
    BY EmittedType DEF Connected
  <2> QED
    <3>1. socket' \in Seq(Event)
      BY <1>3, <2>1 DEF FrameworkFault
    <3>2. executor' \in [success : BOOLEAN, hasResult : BOOLEAN, result : SUBSET Prompts]
      <4>1. MarkedFailed(executor) \in [success : BOOLEAN, hasResult : BOOLEAN, result : SUBSET Prompts]
        BY DEF MarkedFailed
      <4> QED
        BY <1>3, <4>1 DEF FrameworkFault
    <3> QED
      BY <1>3, <3>1, <3>2 DEF FrameworkFault
<1>4. CASE TaskDone(p)
  BY <1>4 DEF TaskDone
<1> QED
  BY <1>1, <1>2, <1>3, <1>4

LEMMA CallerType == TypeOK /\ (\E p \in Prompts : Caller(p)) => TypeOK'
<1> SUFFICES ASSUME TypeOK, NEW p \in Prompts, Caller(p)
             PROVE  TypeOK'
  OBVIOUS
<1> USE DEF TypeOK, serverVars, ReaderStarted, ReaderAt, DropBookkeeping, ResultOf, Fault
<1>1. CASE Post(p)
  BY <1>1 DEF Post, Enqueue
<1>2. CASE PostRepeated(p)
  BY <1>2 DEF PostRepeated, Enqueue
<1>3. CASE Replied(p)
  BY <1>3 DEF Replied
<1>4. CASE NotAwaited(p)
  BY <1>4 DEF NotAwaited
<1>5. CASE AwaitCached(p)
  <2>1. PICK r \in ResultOf(p) : Tell(p, ToldOf(r))
    BY <1>5 DEF AwaitCached
  <2>2. ToldOf(r) \in Tellings
    BY ToldOfType
  <2> QED
    BY <1>5, <2>1, <2>2, TellType DEF AwaitCached, Tellings
<1>6. CASE AwaitBegins(p)
  BY <1>6 DEF AwaitBegins
<1>7. CASE Wake(p)
  <2>1. PICK what \in Tellings : Tell(p, what)
    <3>1. \A r \in ResultOf(p) : ToldOf(r) \in Tellings
      BY ToldOfType
    <3> QED
      BY <1>7, <3>1, SilenceType DEF Wake
  <2> QED
    BY <1>7, <2>1, TellType DEF Wake, Tellings
<1>8. CASE Timeout(p)
  BY <1>8 DEF Timeout
<1>9. CASE Asked(p)
  <2>1. PICK what \in Tellings : Tell(p, what)
    <3>1. \A e \in EntryOf(p) : ToldOf(e) \in Tellings
      BY ToldOfType DEF EntryOf
    <3> QED
      BY <1>9, <3>1, SilenceType DEF Asked, LastLook
  <2> QED
    BY <1>9, <2>1, TellType DEF Asked, Tellings
<1>10. CASE AwaitAborted(p)
  BY <1>10, TellType, SilenceType DEF AwaitAborted, Tellings
<1> QED
  BY <1>1, <1>2, <1>3, <1>4, <1>5, <1>6, <1>7, <1>8, <1>9, <1>10 DEF Caller

LEMMA ReaderType == TypeOK /\ Reader => TypeOK'
<1> SUFFICES ASSUME TypeOK, Reader
             PROVE  TypeOK'
  OBVIOUS
<1> USE DEF TypeOK, serverVars, clientVars, ReaderAt, Fault
<1>1. CASE Connect
  BY <1>1 DEF Connect
<1>2. CASE \E p \in Prompts : Check(p)
  BY <1>2, ResolveType DEF Check, EntryOf
<1>3. CASE BeginReading
  BY <1>3 DEF BeginReading
<1>4. CASE Dispatch
  <2>1. Head(socket) \in Event /\ Tail(socket) \in Seq(Event)
    BY <1>4, HeadOfSocket DEF Dispatch
  <2>2. [prompt |-> Head(socket).prompt, ok |-> FALSE, files |-> {}] \in Outcome
    BY <2>1
  <2>3. CASE Head(socket).ok
    BY <1>4, <2>1, <2>3 DEF Dispatch
  <2>4. CASE ~Head(socket).ok
    BY <1>4, <2>1, <2>2, <2>4, ResolveType DEF Dispatch
  <2> QED
    BY <2>3, <2>4
<1>5. CASE Fetched
  <2>1. PICK p \in reader.todo :
          Resolve([prompt |-> p, ok |-> TRUE,
                   files |-> UNION {e.files : e \in EntryOf(p)}])
    BY <1>5 DEF Fetched
  <2>2. [prompt |-> p, ok |-> TRUE, files |-> UNION {e.files : e \in EntryOf(p)}] \in Outcome
    <3>1. UNION {e.files : e \in EntryOf(p)} \in SUBSET Prompts
      BY DEF EntryOf
    <3> QED
      BY <3>1
  <2> QED
    BY <1>5, <2>1, <2>2, ResolveType DEF Fetched
<1>6. CASE Dropped
  BY <1>6 DEF Dropped
<1>7. CASE Close
  BY <1>7 DEF Close
<1> QED
  BY <1>1, <1>2, <1>3, <1>4, <1>5, <1>6, <1>7 DEF Reader

LEMMA RestartType == TypeOK /\ ServerRestarts => TypeOK'
  BY DEF ServerRestarts, Restart, TypeOK, FreshExecutor, clientVars, ReaderAt, Fault

LEMMA TypeStep == TypeOK /\ [Next]_vars => TypeOK'
<1>1. TypeOK /\ UNCHANGED vars => TypeOK'
  BY DEF TypeOK, vars
<1> QED
  BY <1>1, ServerType, CallerType, ReaderType, RestartType DEF Next

\* The client's and the server's state keep their types.
THEOREM ClientTypeCorrect == Spec => []TypeOK
<1> QED
  BY TypeInit, TypeStep, PTL DEF Spec

-----------------------------------------------------------------------------
(* What every part of the path from the executor to the caller says of a   *)
(* prompt is what became of its execution.                                 *)

Verdict(ok) == IF ok THEN "ok" ELSE "failed"
True(o) == fate[o.prompt] = Verdict(o.ok) /\ o.files \subseteq {o.prompt}

OneAtATime ==
  \A p, q \in Prompts :
    job[p] \in {"running", "returned"} /\ job[q] \in {"running", "returned"} => p = q

Undecided ==
  \A p \in Prompts :
    (job[p] \in {"unknown", "queued"} \/ (job[p] = "running" /\ worker = "alive"))
      => fate[p] = "none"

Handover ==
  \A p \in Prompts :
    job[p] = "returned" =>
      /\ fate[p] = Verdict(executor.success)
      /\ executor.result \subseteq {p}

Records == \A o \in history \cup results : True(o)
Events == \A i \in 1 .. Len(socket) : fate[socket[i].prompt] = Verdict(socket[i].ok)
Fetching == reader.pc = "fetching" => \A p \in reader.todo : fate[p] = "ok"
NotYetTold == \A p \in Prompts : call[p] # "over" => told[p].end = "none"

Truth ==
  /\ OneAtATime /\ Undecided /\ Handover
  /\ Records /\ Events /\ Fetching
  /\ ToldTheTruth /\ NotYetTold

\* A fate that is decided stays, so what was true of a prompt stays true.
LEMMA TruthStays ==
  ASSUME TypeOK, Truth,
         \A p \in Prompts : fate[p] \in Fates => fate'[p] = fate[p]
  PROVE  /\ \A o \in Outcome : True(o) => True(o)'
         /\ \A o \in history \cup results : True(o)'
         /\ \A i \in 1 .. Len(socket) : fate'[socket[i].prompt] = Verdict(socket[i].ok)
         /\ reader.pc = "fetching" => \A p \in reader.todo : fate'[p] = "ok"
         /\ \A p \in Prompts : told[p].end \in Fates => told[p].end = fate'[p]
<1>1. \A ok : Verdict(ok) \in Fates
  BY DEF Verdict
<1>2. \A o \in Outcome : True(o) => True(o)'
  BY <1>1 DEF True, TypeOK
<1>3. \A o \in history \cup results : True(o)'
  BY <1>2 DEF Truth, Records, TypeOK
<1>4. \A i \in 1 .. Len(socket) : fate'[socket[i].prompt] = Verdict(socket[i].ok)
  <2> TAKE i \in 1 .. Len(socket)
  <2>1. socket[i] \in Event
    <3>1. \A S, s : s \in Seq(S) => \A k \in 1 .. Len(s) : s[k] \in S
      OBVIOUS
    <3> QED
      BY <3>1 DEF TypeOK
  <2>2. fate[socket[i].prompt] = Verdict(socket[i].ok)
    BY DEF Truth, Events
  <2> QED
    BY <1>1, <2>1, <2>2
<1>5. reader.pc = "fetching" => \A p \in reader.todo : fate'[p] = "ok"
  BY DEF Truth, Fetching, TypeOK
<1>6. \A p \in Prompts : told[p].end \in Fates => told[p].end = fate'[p]
  BY DEF Truth, ToldTheTruth
<1> QED
  BY <1>2, <1>3, <1>4, <1>5, <1>6

LEMMA TruthInit == Init => Truth
  BY DEF Init, ServerInit, Truth, OneAtATime, Undecided, Handover, Records, Events, Fetching,
         ToldTheTruth, NotYetTold, ReaderAt, Untold

\* The server decides a fate once and reports it as it is.
LEMMA EmittedTruth ==
  ASSUME TypeOK, NEW p \in Prompts, NEW open \in BOOLEAN, NEW ok \in BOOLEAN,
         socket' = Emitted(open, p, ok),
         fate'[p] = Verdict(ok),
         \A i \in 1 .. Len(socket) : fate'[socket[i].prompt] = Verdict(socket[i].ok)
  PROVE  Events'
<1>1. CASE ~open
  BY <1>1 DEF Emitted, Events
<1>2. CASE open
  <2> DEFINE e == [prompt |-> p, ok |-> ok]
  <2>1. socket' = Append(socket, e)
    BY <1>2 DEF Emitted
  <2>2. \A S, s, x : s \in Seq(S) =>
          /\ Len(Append(s, x)) = Len(s) + 1
          /\ \A i \in 1 .. Len(s) + 1 : Append(s, x)[i] = IF i \in 1 .. Len(s) THEN s[i] ELSE x
    OBVIOUS
  <2>3. /\ Len(socket') = Len(socket) + 1
        /\ \A i \in 1 .. Len(socket) + 1 : socket'[i] = IF i \in 1 .. Len(socket) THEN socket[i] ELSE e
    BY <2>1, <2>2 DEF TypeOK
  <2>4. SUFFICES ASSUME NEW i \in 1 .. Len(socket')
                 PROVE  fate'[socket'[i].prompt] = Verdict(socket'[i].ok)
    BY DEF Events
  <2>5. CASE i \in 1 .. Len(socket)
    BY <2>3, <2>5
  <2>6. CASE i \notin 1 .. Len(socket)
    BY <2>3, <2>6
  <2> QED
    BY <2>5, <2>6
<1> QED
  BY <1>1, <1>2

LEMMA DecidedOnce ==
  ASSUME TypeOK, Truth, NEW p \in Prompts, worker = "alive", job[p] = "running",
         NEW f, fate' = [fate EXCEPT ![p] = f]
  PROVE  /\ \A q \in Prompts : fate[q] \in Fates => fate'[q] = fate[q]
         /\ fate'[p] = f
  BY DEF TypeOK, Truth, Undecided

LEMMA ServerTruth == TypeOK /\ Truth /\ Server => Truth'
<1> SUFFICES ASSUME TypeOK, Truth, UNCHANGED <<clientVars, reader, faults>>, NEW p \in Prompts,
                    Start(p) \/ Execute(p, Connected) \/ FrameworkFault(p, Connected) \/ TaskDone(p)
             PROVE  Truth'
  BY DEF Server
<1>0. results' = results /\ reader' = reader /\ told' = told /\ call' = call
  BY DEF clientVars
<1>c. Connected \in BOOLEAN
  BY DEF Connected
<1>1. CASE Start(p)
  <2>1. /\ worker = "alive" /\ Idle /\ job[p] = "queued"
        /\ job' = [job EXCEPT ![p] = "running"]
        /\ UNCHANGED <<worker, history, socket, fate>>
    BY <1>1 DEF Start
  <2>2. OneAtATime'
    BY <2>1 DEF Idle, TypeOK, OneAtATime
  <2>3. Undecided'
    BY <2>1 DEF Truth, TypeOK, Undecided
  <2>4. Handover'
    BY <2>1 DEF Idle, TypeOK, Handover
  <2>5. Records' /\ Events' /\ Fetching' /\ ToldTheTruth' /\ NotYetTold'
    BY <1>0, <2>1 DEF Truth, Records, True, Events, Fetching, ToldTheTruth, NotYetTold
  <2> QED
    BY <2>2, <2>3, <2>4, <2>5 DEF Truth
<1>2. CASE Execute(p, Connected)
  <2>1. PICK ok \in BOOLEAN :
          /\ executor' = [success |-> ok, hasResult |-> TRUE, result |-> {p}]
          /\ fate' = [fate EXCEPT ![p] = IF ok THEN "ok" ELSE "failed"]
          /\ socket' = Emitted(Connected, p, ok)
    BY <1>2 DEF Execute
  <2>2. worker = "alive" /\ job[p] = "running" /\ worker' = worker /\ history' = history
        /\ job' = [job EXCEPT ![p] = "returned"]
    BY <1>2 DEF Execute
  <2>3. /\ \A q \in Prompts : fate[q] \in Fates => fate'[q] = fate[q]
        /\ fate'[p] = Verdict(ok)
    BY <2>1, <2>2, DecidedOnce DEF Verdict
  <2>4. OneAtATime' /\ Undecided' /\ Handover'
    BY <2>1, <2>2, <2>3 DEF Truth, TypeOK, OneAtATime, Undecided, Handover
  <2>5. Events'
    BY <1>c, <2>1, <2>3, TruthStays, EmittedTruth
  <2>6. Records' /\ Fetching' /\ ToldTheTruth' /\ NotYetTold'
    BY <1>0, <2>2, <2>3, TruthStays DEF Truth, Records, True, Fetching, ToldTheTruth, NotYetTold
  <2> QED
    BY <2>4, <2>5, <2>6 DEF Truth
<1>3. CASE FrameworkFault(p, Connected)
  <2>2. worker = "alive" /\ job[p] = "running" /\ history' = history
        /\ fate' = [fate EXCEPT ![p] = "failed"]
    BY <1>3 DEF FrameworkFault
  <2>3. /\ \A q \in Prompts : fate[q] \in Fates => fate'[q] = fate[q]
        /\ fate'[p] = Verdict(FALSE)
    BY <2>2, DecidedOnce DEF Verdict
  <2>4. Records' /\ Fetching' /\ ToldTheTruth' /\ NotYetTold'
    BY <1>0, <2>2, <2>3, TruthStays DEF Truth, Records, True, Fetching, ToldTheTruth, NotYetTold
  <2>5. CASE Guarded
    <3>1. /\ executor' = [success |-> FALSE, hasResult |-> TRUE, result |-> {}]
          /\ job' = [job EXCEPT ![p] = "returned"]
          /\ worker' = worker
      BY <1>3, <2>5 DEF FrameworkFault, MarkedFailed
    <3>2. PICK sent \in BOOLEAN : socket' = Emitted(Connected /\ sent, p, FALSE)
      BY <1>3, <2>5 DEF FrameworkFault
    <3>3. OneAtATime' /\ Undecided' /\ Handover'
      <4>1. OneAtATime' /\ Undecided'
        BY <2>2, <3>1 DEF Truth, TypeOK, OneAtATime, Undecided
      <4>2. Handover'
        <5>1. executor'.success = FALSE /\ executor'.result = {}
          BY <3>1
        <5>2. \A q \in Prompts : job'[q] = "returned" => q = p
          BY <2>2, <3>1 DEF Truth, TypeOK, OneAtATime
        <5> QED
          BY <2>3, <5>1, <5>2 DEF Handover
      <4> QED
        BY <4>1, <4>2
    <3>4. Events'
      <4>1. (Connected /\ sent) \in BOOLEAN
        BY <1>c
      <4> QED
        BY <1>c, <2>3, <3>2, <4>1, TruthStays, EmittedTruth
    <3> QED
      BY <2>4, <3>3, <3>4 DEF Truth
  <2>6. CASE ~Guarded
    <3>1. worker' = "dead" /\ UNCHANGED <<job, executor, socket>>
      BY <1>3, <2>6 DEF FrameworkFault
    <3>2. OneAtATime' /\ Undecided' /\ Handover'
      <4>1. OneAtATime'
        BY <3>1 DEF Truth, OneAtATime
      <4>2. Undecided'
        BY <2>2, <3>1 DEF Truth, TypeOK, Undecided, OneAtATime
      <4>3. Handover'
        BY <2>2, <3>1 DEF Truth, TypeOK, Handover, OneAtATime
      <4> QED
        BY <4>1, <4>2, <4>3
    <3>3. Events'
      BY <2>3, <3>1, TruthStays DEF Events
    <3> QED
      BY <2>4, <3>2, <3>3 DEF Truth
  <2> QED
    BY <2>5, <2>6
<1>4. CASE TaskDone(p)
  <2>1. UNCHANGED <<executor, socket, fate>> /\ job[p] = "returned"
    BY <1>4 DEF TaskDone
  <2>2. \/ /\ job' = [job EXCEPT ![p] = "finished"] /\ worker' = worker
           /\ history' = history \cup
                {[prompt |-> p, ok |-> executor.success, files |-> executor.result]}
        \/ /\ worker' = "dead" /\ job' = job /\ history' = history
    BY <1>4 DEF TaskDone
  <2>3. OneAtATime' /\ Undecided' /\ Handover'
    BY <2>1, <2>2 DEF Truth, TypeOK, OneAtATime, Undecided, Handover
  <2>4. True([prompt |-> p, ok |-> executor.success, files |-> executor.result])
    BY <2>1 DEF Truth, Handover, True
  <2>5. Records'
    BY <1>0, <2>1, <2>2, <2>4 DEF Truth, Records, True
  <2>6. Events' /\ Fetching' /\ ToldTheTruth' /\ NotYetTold'
    BY <1>0, <2>1 DEF Truth, Events, Fetching, ToldTheTruth, NotYetTold
  <2> QED
    BY <2>3, <2>5, <2>6 DEF Truth
<1> QED
  BY <1>1, <1>2, <1>3, <1>4

LEMMA ResultsOfOthers ==
  ASSUME TypeOK, Truth, NEW p \in Prompts, results' = results \ ResultOf(p),
         UNCHANGED <<fate, history>>
  PROVE  Records'
  BY DEF Truth, Records, True

\* A caller is told the truth, and only when it leaves.
LEMMA TellTruth ==
  ASSUME TypeOK, Truth, UNCHANGED fate, NEW p \in Prompts, NEW what \in Tellings,
         Tell(p, what), what.files \subseteq {p},
         what.end \in Fates => what.end = fate[p]
  PROVE  ToldTheTruth' /\ NotYetTold'
<1>1. ToldTheTruth'
  BY DEF Truth, TypeOK, Tell, ToldTheTruth
<1>2. NotYetTold'
  BY DEF Truth, TypeOK, Tell, NotYetTold
<1> QED
  BY <1>1, <1>2

LEMMA ToldOfIsTrue ==
  ASSUME TypeOK, Truth, NEW p \in Prompts, NEW o \in history \cup results, o.prompt = p
  PROVE  /\ ToldOf(o) \in Tellings
         /\ ToldOf(o).files \subseteq {p} /\ ToldOf(o).end = fate[p]
<1>1. o \in Outcome /\ True(o)
  BY DEF TypeOK, Truth, Records
<1> QED
  BY <1>1, ToldOfType DEF True, Verdict, ToldOf

LEMMA SilenceIsTrue ==
  /\ Unknown.files = {} /\ Unknown.end \notin Fates
  /\ Aborted.files = {} /\ Aborted.end \notin Fates
  BY DEF Unknown, Aborted

LEMMA CallerTruth == TypeOK /\ Truth /\ (\E p \in Prompts : Caller(p)) => Truth'
<1> SUFFICES ASSUME TypeOK, Truth, NEW p \in Prompts, Caller(p)
             PROVE  Truth'
  OBVIOUS
<1>1. ASSUME Post(p) \/ PostRepeated(p)
      PROVE  Truth'
  <2>1. /\ job[p] = "unknown" /\ job' = [job EXCEPT ![p] = "queued"]
        /\ \E c \in {"posted", "orphan"} : call' = [call EXCEPT ![p] = c]
        /\ call[p] = "none"
        /\ reader' = reader \/ reader'.pc = "down"
        /\ UNCHANGED <<executor, worker, history, socket, fate, results, told>>
    BY <1>1 DEF Post, PostRepeated, Enqueue, ReaderStarted, ReaderAt
  <2>2. OneAtATime' /\ Undecided' /\ Handover'
    BY <2>1 DEF Truth, TypeOK, OneAtATime, Undecided, Handover
  <2>3. Records' /\ Events' /\ Fetching' /\ ToldTheTruth' /\ NotYetTold'
    BY <2>1 DEF Truth, TypeOK, Records, True, Events, Fetching, ToldTheTruth, NotYetTold
  <2> QED
    BY <2>2, <2>3 DEF Truth
<1>2. ASSUME UNCHANGED serverVars,
             reader' = reader \/ reader'.pc = "down",
             Records', ToldTheTruth' /\ NotYetTold'
      PROVE  Truth'
  BY <1>2 DEF serverVars, Truth, OneAtATime, Undecided, Handover, Events, Fetching
<1>3. ASSUME UNCHANGED <<serverVars, results, told>>,
             reader' = reader \/ reader'.pc = "down",
             \E c \in CallStates \ {"over"} : call' = [call EXCEPT ![p] = c],
             call[p] # "over"
      PROVE  Truth'
  <2>1. Records' /\ ToldTheTruth' /\ NotYetTold'
    BY <1>3 DEF serverVars, Truth, TypeOK, Records, True, ToldTheTruth, NotYetTold
  <2> QED
    BY <1>2, <1>3, <2>1
<1>4. CASE Replied(p) \/ NotAwaited(p) \/ AwaitBegins(p) \/ Timeout(p)
  BY <1>3, <1>4 DEF Replied, NotAwaited, AwaitBegins, Timeout, ReaderStarted, ReaderAt
<1>5. CASE AwaitCached(p) \/ Wake(p)
  <2>1. /\ results' = results \ ResultOf(p) /\ UNCHANGED serverVars /\ reader' = reader
        /\ Tell(p, Unknown) \/ \E r \in ResultOf(p) : Tell(p, ToldOf(r))
    BY <1>5 DEF AwaitCached, Wake
  <2>2. ToldTheTruth' /\ NotYetTold'
    <3>1. CASE Tell(p, Unknown)
      BY <2>1, <3>1, TellTruth, SilenceType, SilenceIsTrue DEF serverVars
    <3>2. CASE \E r \in ResultOf(p) : Tell(p, ToldOf(r))
      <4>1. PICK r \in ResultOf(p) : Tell(p, ToldOf(r))
        BY <3>2
      <4>2. r \in history \cup results /\ r.prompt = p
        BY DEF ResultOf
      <4> QED
        BY <2>1, <4>1, <4>2, ToldOfIsTrue, TellTruth DEF serverVars
    <3> QED
      BY <2>1, <3>1, <3>2
  <2>3. Records'
    BY <2>1, ResultsOfOthers DEF serverVars
  <2> QED
    BY <1>2, <2>1, <2>2, <2>3
<1>6. CASE Asked(p) \/ AwaitAborted(p)
  <2>1. /\ UNCHANGED serverVars /\ reader' = reader /\ results' = results
        /\ \/ Tell(p, Unknown) \/ Tell(p, Aborted)
           \/ \E e \in EntryOf(p) : Tell(p, ToldOf(e))
    BY <1>6 DEF Asked, AwaitAborted, LastLook
  <2>2. ToldTheTruth' /\ NotYetTold'
    <3>1. CASE Tell(p, Unknown) \/ Tell(p, Aborted)
      BY <2>1, <3>1, TellTruth, SilenceType, SilenceIsTrue DEF serverVars
    <3>2. CASE \E e \in EntryOf(p) : Tell(p, ToldOf(e))
      <4>1. PICK e \in EntryOf(p) : Tell(p, ToldOf(e))
        BY <3>2
      <4>2. e \in history \cup results /\ e.prompt = p
        BY DEF EntryOf
      <4> QED
        BY <2>1, <4>1, <4>2, ToldOfIsTrue, TellTruth DEF serverVars
    <3> QED
      BY <2>1, <3>1, <3>2
  <2>3. Records'
    BY <2>1 DEF serverVars, Truth, Records, True
  <2> QED
    BY <1>2, <2>1, <2>2, <2>3
<1> QED
  BY <1>1, <1>4, <1>5, <1>6 DEF Caller

LEMMA ResolveTruth ==
  ASSUME TypeOK, Truth, NEW o \in Outcome, True(o), Resolve(o), UNCHANGED <<fate, history>>
  PROVE  Records'
  BY DEF Resolve, Truth, Records, True

LEMMA ReaderTruth == TypeOK /\ Truth /\ Reader => Truth'
<1> SUFFICES ASSUME TypeOK, Truth, Reader
             PROVE  Truth'
  OBVIOUS
<1>1. ASSUME UNCHANGED <<job, executor, worker, history, fate, call, told>>,
             Records', Events', Fetching'
      PROVE  Truth'
  BY <1>1 DEF Truth, OneAtATime, Undecided, Handover, ToldTheTruth, NotYetTold
<1>2. CASE Connect \/ BeginReading \/ Dropped \/ Close
  <2>1. /\ UNCHANGED <<job, executor, worker, history, fate, call, told, results>>
        /\ socket' = socket \/ socket' = <<>>
        /\ reader'.pc # "fetching"
    BY <1>2 DEF Connect, BeginReading, Dropped, Close, serverVars, clientVars, ReaderAt
  <2>2. Records' /\ Events' /\ Fetching'
    BY <2>1 DEF Truth, Records, True, Events, Fetching
  <2> QED
    BY <1>1, <2>1, <2>2
<1>3. CASE \E p \in Prompts : Check(p)
  <2>1. PICK p \in Prompts : Check(p)
    BY <1>3
  <2>2. /\ UNCHANGED <<job, executor, worker, history, fate, call, told, socket>>
        /\ reader'.pc = "checking"
    BY <2>1 DEF Check, serverVars, ReaderAt
  <2>3. Records'
    <3>1. CASE EntryOf(p) = {}
      BY <2>1, <2>2, <3>1 DEF Check, Truth, Records, True
    <3>2. CASE EntryOf(p) # {}
      <4>1. PICK e \in EntryOf(p) : Resolve(e)
        BY <2>1, <3>2 DEF Check
      <4>2. e \in Outcome /\ True(e)
        BY DEF EntryOf, TypeOK, Truth, Records
      <4> QED
        BY <2>2, <4>1, <4>2, ResolveTruth
    <3> QED
      BY <3>1, <3>2
  <2>4. Events' /\ Fetching'
    BY <2>2 DEF Truth, Events, Fetching
  <2> QED
    BY <1>1, <2>2, <2>3, <2>4
<1>4. CASE Dispatch
  <2>1. /\ reader.pc = "reading" /\ socket # <<>> /\ socket' = Tail(socket)
        /\ UNCHANGED <<job, executor, worker, history, fate, call, told>>
    BY <1>4 DEF Dispatch
  <2>2. \A S, s : s \in Seq(S) /\ s # <<>> =>
          /\ Head(s) = s[1] /\ Len(s) \in Nat /\ Len(s) >= 1
          /\ Len(Tail(s)) = Len(s) - 1
          /\ \A i \in 1 .. Len(s) - 1 : Tail(s)[i] = s[i + 1]
    OBVIOUS
  <2>3. Head(socket) \in Event
    BY <2>1, HeadOfSocket DEF TypeOK
  <2>4. fate[Head(socket).prompt] = Verdict(Head(socket).ok)
    BY <2>1, <2>2 DEF Truth, Events, TypeOK
  <2>5. Events'
    BY <2>1, <2>2 DEF Truth, Events, TypeOK
  <2>6. CASE Head(socket).ok
    <3>1. reader' = ReaderAt("fetching", {Head(socket).prompt}) /\ results' = results
      BY <1>4, <2>6 DEF Dispatch
    <3>2. Records' /\ Fetching'
      BY <2>1, <2>4, <2>6, <3>1 DEF Truth, Records, True, Fetching, ReaderAt, Verdict
    <3> QED
      BY <1>1, <2>1, <2>5, <3>2
  <2>7. CASE ~Head(socket).ok
    <3> DEFINE o == [prompt |-> Head(socket).prompt, ok |-> FALSE, files |-> {}]
    <3>1. Resolve(o) /\ reader' = reader
      BY <1>4, <2>7 DEF Dispatch
    <3>2. o \in Outcome /\ True(o)
      BY <2>3, <2>4, <2>7 DEF True, Verdict
    <3>3. Records'
      BY <2>1, <3>1, <3>2, ResolveTruth
    <3>4. Fetching'
      BY <2>1, <3>1 DEF Fetching
    <3> QED
      BY <1>1, <2>1, <2>5, <3>3, <3>4
  <2> QED
    BY <2>6, <2>7
<1>5. CASE Fetched
  <2>1. PICK p \in reader.todo :
          Resolve([prompt |-> p, ok |-> TRUE, files |-> UNION {e.files : e \in EntryOf(p)}])
    BY <1>5 DEF Fetched
  <2> DEFINE o == [prompt |-> p, ok |-> TRUE, files |-> UNION {e.files : e \in EntryOf(p)}]
  <2>2. /\ UNCHANGED <<job, executor, worker, history, fate, call, told, socket>>
        /\ reader.pc = "fetching" /\ reader'.pc = "reading"
    BY <1>5 DEF Fetched, serverVars, ReaderAt
  <2>3. \A e \in EntryOf(p) : e.files \subseteq {p}
    BY DEF EntryOf, Truth, Records, True
  <2>4. p \in Prompts /\ UNION {e.files : e \in EntryOf(p)} \subseteq {p}
    BY <2>3 DEF TypeOK
  <2>5. o \in Outcome /\ True(o)
    BY <2>2, <2>4 DEF True, Truth, Fetching, Verdict
  <2>6. Records'
    BY <2>1, <2>2, <2>5, ResolveTruth
  <2>7. Events' /\ Fetching'
    BY <2>2 DEF Truth, Events, Fetching
  <2> QED
    BY <1>1, <2>2, <2>6, <2>7
<1> QED
  BY <1>2, <1>3, <1>4, <1>5 DEF Reader

LEMMA RestartTruth == TypeOK /\ Truth /\ ServerRestarts => Truth'
<1> SUFFICES ASSUME TypeOK, Truth, ServerRestarts
             PROVE  Truth'
  OBVIOUS
<1>1. /\ job' = [p \in Prompts |-> IF job[p] = "unknown" THEN "unknown" ELSE "lost"]
      /\ history' = {} /\ socket' = <<>>
      /\ UNCHANGED <<fate, results, told, call>>
      /\ reader'.pc # "fetching"
  BY DEF ServerRestarts, Restart, clientVars, ReaderAt, Connected
<1>2. OneAtATime' /\ Undecided' /\ Handover'
  BY <1>1 DEF Truth, TypeOK, OneAtATime, Undecided, Handover
<1>3. Records' /\ Events' /\ Fetching' /\ ToldTheTruth' /\ NotYetTold'
  BY <1>1 DEF Truth, Records, True, Events, Fetching, ToldTheTruth, NotYetTold
<1> QED
  BY <1>2, <1>3 DEF Truth

LEMMA TruthStep == TypeOK /\ Truth /\ [Next]_vars => Truth'
<1>1. Truth /\ UNCHANGED vars => Truth'
  BY DEF Truth, vars, OneAtATime, Undecided, Handover, Records, True, Events, Fetching,
         ToldTheTruth, NotYetTold
<1> QED
  BY <1>1, ServerTruth, CallerTruth, ReaderTruth, RestartTruth DEF Next

LEMMA TruthAlways == Spec => [](TypeOK /\ Truth)
<1> QED
  BY TypeInit, TypeStep, TruthInit, TruthStep, PTL DEF Spec

\* What a caller is told of a prompt is its own fate and names no other
\* prompt's images, with or without the guard installed.
THEOREM CallersAreToldTheTruth == Spec => []ToldTheTruth
<1>1. Truth => ToldTheTruth
  BY DEF Truth
<1> QED
  BY <1>1, TruthAlways, PTL

-----------------------------------------------------------------------------
(* A waiter that is set has its outcome beside it.                         *)

\* Also before the caller is there: _resolve may come first.
Supplied ==
  \A p \in Prompts :
    call[p] \in {"none", "posted", "submitted", "waiting"} /\ waiters[p] = "set"
      => \E r \in results : r.prompt = p

LEMMA ResolveSupplies ==
  ASSUME TypeOK, Supplied, NEW o \in Outcome, Resolve(o), UNCHANGED call
  PROVE  Supplied'
  BY DEF TypeOK, Supplied, Resolve

LEMMA SuppliedStep == TypeOK /\ Supplied /\ [Next]_vars => Supplied'
<1> SUFFICES ASSUME TypeOK, Supplied, [Next]_vars
             PROVE  Supplied'
  OBVIOUS
<1>1. ASSUME UNCHANGED <<call, waiters, results>>
      PROVE  Supplied'
  BY <1>1 DEF Supplied
<1>2. CASE UNCHANGED vars \/ Server \/ ServerRestarts
  BY <1>1, <1>2 DEF vars, Server, ServerRestarts, clientVars
<1>3. CASE \E p \in Prompts : Caller(p)
  <2>1. PICK p \in Prompts : Caller(p)
    BY <1>3
  <2>2. CASE \/ Post(p) \/ PostRepeated(p) \/ Replied(p) \/ NotAwaited(p) \/ Timeout(p)
    <3>1. /\ UNCHANGED <<waiters, results>>
          /\ \E c \in CallStates : call' = [call EXCEPT ![p] = c]
          /\ call[p] \notin {"none", "posted", "submitted"} => waiters[p] # "set"
          /\ \/ call[p] \in {"none", "posted", "submitted"} \/ waiters[p] # "set"
      BY <2>2 DEF Post, PostRepeated, Replied, NotAwaited, Timeout
    <3> QED
      BY <3>1 DEF TypeOK, Supplied
  <2>3. CASE AwaitBegins(p)
    BY <2>3 DEF AwaitBegins, TypeOK, Supplied
  <2>4. CASE AwaitCached(p) \/ Wake(p) \/ Asked(p) \/ AwaitAborted(p)
    <3>1. /\ waiters' = [waiters EXCEPT ![p] = "none"]
          /\ results' = results \/ results' = results \ ResultOf(p)
      BY <2>4 DEF AwaitCached, Wake, Asked, AwaitAborted, DropBookkeeping
    <3>2. call' = [call EXCEPT ![p] = "over"]
      BY <2>4 DEF AwaitCached, Wake, Asked, AwaitAborted, LastLook, Tell
    <3> QED
      BY <3>1, <3>2 DEF TypeOK, Supplied, ResultOf
  <2> QED
    BY <2>1, <2>2, <2>3, <2>4 DEF Caller
<1>4. CASE Reader
  <2>1. CASE Connect \/ BeginReading \/ Dropped \/ Close
    BY <1>1, <2>1 DEF Connect, BeginReading, Dropped, Close, clientVars
  <2>2. CASE \E p \in Prompts : Check(p)
    <3>1. PICK p \in Prompts : Check(p)
      BY <2>2
    <3>2. CASE EntryOf(p) = {}
      BY <1>1, <3>1, <3>2 DEF Check
    <3>3. CASE EntryOf(p) # {}
      <4>1. PICK e \in EntryOf(p) : Resolve(e)
        BY <3>1, <3>3 DEF Check
      <4>2. e \in Outcome
        BY DEF EntryOf, TypeOK
      <4> QED
        BY <3>1, <4>1, <4>2, ResolveSupplies DEF Check
    <3> QED
      BY <3>2, <3>3
  <2>3. CASE Dispatch
    <3>1. Head(socket) \in Event
      BY <2>3, HeadOfSocket DEF TypeOK, Dispatch
    <3>2. [prompt |-> Head(socket).prompt, ok |-> FALSE, files |-> {}] \in Outcome
      BY <3>1
    <3>3. CASE Head(socket).ok
      BY <1>1, <2>3, <3>3 DEF Dispatch
    <3>4. CASE ~Head(socket).ok
      BY <2>3, <3>2, <3>4, ResolveSupplies DEF Dispatch
    <3> QED
      BY <3>3, <3>4
  <2>4. CASE Fetched
    <3>1. PICK p \in reader.todo :
            Resolve([prompt |-> p, ok |-> TRUE, files |-> UNION {e.files : e \in EntryOf(p)}])
      BY <2>4 DEF Fetched
    <3>2. UNION {e.files : e \in EntryOf(p)} \in SUBSET Prompts /\ p \in Prompts
      BY DEF EntryOf, TypeOK
    <3>3. [prompt |-> p, ok |-> TRUE, files |-> UNION {e.files : e \in EntryOf(p)}] \in Outcome
      BY <3>2
    <3> QED
      BY <2>4, <3>1, <3>3, ResolveSupplies DEF Fetched
  <2> QED
    BY <1>4, <2>1, <2>2, <2>3, <2>4 DEF Reader
<1> QED
  BY <1>2, <1>3, <1>4 DEF Next

\* The RuntimeError of await_outcome is unreachable.
THEOREM NoWaiterFiresEmpty == Spec => []NeverWokenForNothing
<1>1. Init => Supplied
  BY DEF Init, Supplied
<1>2. Supplied => NeverWokenForNothing
  BY DEF Supplied, NeverWokenForNothing, ResultOf
<1> QED
  BY <1>1, <1>2, TypeInit, TypeStep, SuppliedStep, PTL DEF Spec

-----------------------------------------------------------------------------
(* The refinement of PromptOutcome.                                        *)

LEMMA MappedTell ==
  ASSUME TypeOK, Truth, UNCHANGED fate, NEW p \in Prompts, call[p] # "over",
         NEW what \in Tellings, told' = [told EXCEPT ![p] = what],
         what.end \in Fates => what.end = fate[p],
         what.end # "none"
  PROVE  Promise!Next
<1>1. told[p].end = "none"
  BY DEF Truth, NotYetTold
<1>2. CASE what.end \in Fates
  <2>1. Promise!Tell(p)
    BY <1>1, <1>2 DEF Promise!Tell, Promise!Fates, TypeOK, Tellings
  <2> QED
    BY <2>1 DEF Promise!Next
<1>3. CASE what.end \notin Fates
  <2>1. what.end \in {"unknown", "aborted"}
    BY <1>3 DEF Tellings
  <2>2. Promise!GiveUp(p)
    BY <1>1, <2>1 DEF Promise!GiveUp, TypeOK, Tellings
  <2> QED
    BY <2>2 DEF Promise!Next
<1> QED
  BY <1>2, <1>3

LEMMA RefinementStep == TypeOK /\ Truth /\ [Next]_vars => [Promise!Next]_(Promise!vars)
<1> SUFFICES ASSUME TypeOK, Truth, [Next]_vars
             PROVE  Promise!Next \/ UNCHANGED Promise!vars
  OBVIOUS
<1>1. ASSUME UNCHANGED <<fate, told>>
      PROVE  UNCHANGED Promise!vars
  BY <1>1 DEF Promise!vars
<1>2. CASE UNCHANGED vars
  BY <1>1, <1>2 DEF vars
<1>3. CASE Server
  <2>1. PICK p \in Prompts :
          Start(p) \/ Execute(p, Connected) \/ FrameworkFault(p, Connected) \/ TaskDone(p)
    BY <1>3 DEF Server
  <2>2. told' = told
    BY <1>3 DEF Server, clientVars
  <2>3. CASE Start(p) \/ TaskDone(p)
    BY <1>1, <2>2, <2>3 DEF Start, TaskDone
  <2>4. CASE Execute(p, Connected) \/ FrameworkFault(p, Connected)
    <3>1. /\ worker = "alive" /\ job[p] = "running"
          /\ \E f \in Fates : fate' = [fate EXCEPT ![p] = f]
      BY <2>4 DEF Execute, FrameworkFault
    <3>2. fate[p] = "none"
      BY <3>1 DEF Truth, Undecided
    <3>3. Promise!Execute(p)
      BY <2>2, <3>1, <3>2 DEF Promise!Execute, Promise!Fates
    <3> QED
      BY <3>3 DEF Promise!Next
  <2> QED
    BY <2>1, <2>3, <2>4
<1>4. CASE ServerRestarts
  BY <1>1, <1>4 DEF ServerRestarts, Restart, clientVars
<1>5. CASE Reader
  BY <1>1, <1>5 DEF Reader, Connect, Check, BeginReading, Dispatch, Fetched, Dropped, Close,
       serverVars, clientVars
<1>6. CASE \E p \in Prompts : Caller(p)
  <2>1. PICK p \in Prompts : Caller(p)
    BY <1>6
  <2>2. CASE \/ Post(p) \/ PostRepeated(p) \/ Replied(p) \/ NotAwaited(p)
             \/ AwaitBegins(p) \/ Timeout(p)
    BY <1>1, <2>2 DEF Post, PostRepeated, Replied, NotAwaited, AwaitBegins, Timeout, serverVars
  <2>3. CASE AwaitCached(p) \/ Wake(p) \/ Asked(p) \/ AwaitAborted(p)
    <3>1. /\ fate' = fate /\ call[p] # "over"
          /\ \/ Tell(p, Unknown) \/ Tell(p, Aborted)
             \/ \E o \in ResultOf(p) \cup EntryOf(p) : Tell(p, ToldOf(o))
      BY <2>3 DEF AwaitCached, Wake, Asked, AwaitAborted, LastLook, serverVars
    <3>2. CASE Tell(p, Unknown) \/ Tell(p, Aborted)
      <4>1. Unknown.end # "none" /\ Aborted.end # "none"
        BY DEF Unknown, Aborted
      <4> QED
        BY <3>1, <3>2, <4>1, MappedTell, SilenceType, SilenceIsTrue DEF Tell
    <3>3. CASE \E o \in ResultOf(p) \cup EntryOf(p) : Tell(p, ToldOf(o))
      <4>1. PICK o \in ResultOf(p) \cup EntryOf(p) : Tell(p, ToldOf(o))
        BY <3>3
      <4>2. o \in history \cup results /\ o.prompt = p
        BY DEF ResultOf, EntryOf
      <4>3. ToldOf(o) \in Tellings /\ ToldOf(o).end = fate[p]
        BY <4>2, ToldOfIsTrue
      <4>4. ToldOf(o).end # "none"
        BY DEF ToldOf
      <4> QED
        BY <3>1, <4>1, <4>3, <4>4, MappedTell DEF Tell
    <3> QED
      BY <3>1, <3>2, <3>3
  <2> QED
    BY <2>1, <2>2, <2>3 DEF Caller
<1> QED
  BY <1>2, <1>3, <1>4, <1>5, <1>6 DEF Next

\* The client implements PromptOutcome: a fate is told once, as it is, and not
\* before it was decided, whatever is lost, late, repeated or restarted.
THEOREM ClientKeepsItsPromise == Spec => ImplementsPromptOutcome
<1>1. Init => Promise!Init
  BY DEF Init, ServerInit, Promise!Init, Untold
<1> QED
  BY <1>1, RefinementStep, TruthAlways, PTL DEF Spec, ImplementsPromptOutcome, Promise!Spec
=============================================================================
