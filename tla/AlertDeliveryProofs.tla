------------------------ MODULE AlertDeliveryProofs ------------------------
(***************************************************************************)
(* No alert is lost or sent twice between the buffer, the timers and the   *)
(* teardown, and the teardown leaves nothing it found in the buffer, for   *)
(* any number of titles, alerts and threads of the pool.                   *)
(***************************************************************************)
EXTENDS AlertDelivery, FiniteSetTheorems, TLAPS

-----------------------------------------------------------------------------
(* Types.                                                                  *)

Job == [title : Titles, what : Seq(Details), by : {"timer", "close"},
        state : JobStates]

\* What TypeOK says, and that `jobs' is a sequence.
TypeInv ==
  /\ sink \in {"slack", "console"}
  /\ stage \in Stages
  /\ raised \in 0 .. MaxAlerts
  /\ pending \in [Titles -> Seq(Details)]
  /\ timers \subseteq Titles
  /\ jobs \in Seq(Job)
  /\ closing \in [todo : SUBSET Titles, awaits : Nat]
  /\ closing.awaits \in 0 .. Len(jobs)

LEMMA TypesAreRight ==
  ASSUME TypeInv
  PROVE  TypeOK
<1>1. \A j \in DOMAIN jobs : jobs[j] \in Job
  BY DEF TypeInv
<1>2. closing.todo \subseteq Titles
  BY DEF TypeInv
<1> QED
  BY <1>1, <1>2 DEF TypeInv, TypeOK, Job

\* One message's state changes.
LEMMA StateType ==
  ASSUME NEW msgs \in Seq(Job), NEW j \in DOMAIN msgs, NEW state \in JobStates
  PROVE  /\ [msgs EXCEPT ![j].state = state] \in Seq(Job)
         /\ Len([msgs EXCEPT ![j].state = state]) = Len(msgs)
         /\ DOMAIN [msgs EXCEPT ![j].state = state] = DOMAIN msgs
         /\ \A i \in DOMAIN msgs :
              /\ [msgs EXCEPT ![j].state = state][i].what = msgs[i].what
              /\ [msgs EXCEPT ![j].state = state][i].by = msgs[i].by
              /\ [msgs EXCEPT ![j].state = state][i].state =
                   IF i = j THEN state ELSE msgs[i].state
<1>1. msgs[j] \in Job
  OBVIOUS
<1>2. [msgs[j] EXCEPT !.state = state] \in Job
  BY <1>1 DEF Job
<1>3. [msgs EXCEPT ![j].state = state] = [msgs EXCEPT ![j] = [msgs[j] EXCEPT !.state = state]]
  OBVIOUS
<1>4. /\ [msgs[j] EXCEPT !.state = state].what = msgs[j].what
      /\ [msgs[j] EXCEPT !.state = state].by = msgs[j].by
      /\ [msgs[j] EXCEPT !.state = state].state = state
  BY <1>1 DEF Job
<1> DEFINE next == [msgs[j] EXCEPT !.state = state]
<1>5. [msgs EXCEPT ![j].state = state] = [msgs EXCEPT ![j] = next]
  BY <1>3
<1>6. next \in Job /\ next.what = msgs[j].what /\ next.by = msgs[j].by /\ next.state = state
  BY <1>2, <1>4
<1> HIDE DEF next
<1> QED
  BY <1>5, <1>6

\* One message is handed to the sink.
LEMMA FlushType ==
  ASSUME TypeInv, NEW t \in Titles, NEW by \in {"timer", "close"}, FlushOne(t, by)
  PROVE  /\ pending' \in [Titles -> Seq(Details)]
         /\ jobs' \in Seq(Job)
         /\ Len(jobs') = Len(jobs) + 1 /\ DOMAIN jobs' = DOMAIN jobs \cup {Len(jobs')}
         /\ Len(jobs') \notin DOMAIN jobs
         /\ jobs'[Len(jobs')].what = pending[t] /\ jobs'[Len(jobs')].by = by
         /\ jobs'[Len(jobs')].state \in {"queued", "sent"}
         /\ \A i \in DOMAIN jobs : jobs'[i] = jobs[i]
         /\ pending'[t] = <<>>
         /\ \A u \in Titles \ {t} : pending'[u] = pending[u]
<1> DEFINE msg == Message(t, pending[t], by, IF sink = "slack" THEN "queued" ELSE "sent")
<1>1. /\ jobs \in Seq(Job) /\ pending \in [Titles -> Seq(Details)]
      /\ pending[t] \in Seq(Details)
  BY DEF TypeInv
<1>2. /\ msg \in Job /\ msg.what = pending[t] /\ msg.by = by
      /\ msg.state \in {"queued", "sent"}
  BY <1>1 DEF Message, Job, JobStates
<1>3. jobs' = Append(jobs, msg) /\ pending' = [pending EXCEPT ![t] = <<>>]
  BY DEF FlushOne, Taken
<1> HIDE DEF msg
<1>4. jobs' \in Seq(Job) /\ Len(jobs') = Len(jobs) + 1 /\ Len(jobs) \in Nat
      /\ DOMAIN jobs = 1 .. Len(jobs) /\ DOMAIN jobs' = 1 .. Len(jobs) + 1
      /\ jobs'[Len(jobs) + 1] = msg
      /\ \A i \in DOMAIN jobs : jobs'[i] = jobs[i]
  BY <1>1, <1>2, <1>3
<1>5. DOMAIN jobs' = DOMAIN jobs \cup {Len(jobs')} /\ Len(jobs') \notin DOMAIN jobs
  BY <1>4
<1>6. <<>> \in Seq(Details)
  OBVIOUS
<1> QED
  BY <1>1, <1>2, <1>3, <1>4, <1>5, <1>6

LEMMA TypeStep ==
  ASSUME TypeInv, [Next]_vars
  PROVE  TypeInv'
<1>1. /\ jobs \in Seq(Job) /\ Len(jobs) \in Nat /\ sink \in {"slack", "console"}
      /\ stage \in Stages /\ raised \in 0 .. MaxAlerts /\ MaxAlerts \in Nat
      /\ pending \in [Titles -> Seq(Details)] /\ timers \subseteq Titles
      /\ closing \in [todo : SUBSET Titles, awaits : Nat]
      /\ closing.awaits \in 0 .. Len(jobs)
  BY AlertAssumption DEF TypeInv
<1>2. ASSUME NEW t \in Titles, Submit(t)
      PROVE  TypeInv'
  <2>1. raised' \in Details /\ raised' \in 0 .. MaxAlerts
    BY <1>1, <1>2 DEF Submit, Details
  <2>2. Append(pending[t], raised') \in Seq(Details)
    BY <1>1, <2>1
  <2>3. pending' \in [Titles -> Seq(Details)] /\ timers' \subseteq Titles
    BY <1>1, <1>2, <2>2 DEF Submit
  <2> QED
    BY <1>1, <1>2, <2>1, <2>3 DEF TypeInv, Submit
<1>3. ASSUME NEW t \in Titles, TimerExpires(t)
      PROVE  TypeInv'
  <2>1. /\ pending' \in [Titles -> Seq(Details)]
        /\ jobs' \in Seq(Job) /\ closing'.awaits \in 0 .. Len(jobs')
    <3>1. CASE Buffered(t)
      BY <1>1, <1>3, <3>1, FlushType DEF TimerExpires
    <3>2. CASE ~Buffered(t)
      BY <1>1, <1>3, <3>2 DEF TimerExpires
    <3> QED
      BY <3>1, <3>2
  <2> QED
    BY <1>1, <1>3, <2>1 DEF TypeInv, TimerExpires
<1>4. ASSUME NEW t \in Titles, CloseFlushes(t)
      PROVE  TypeInv'
  <2>1. /\ pending' \in [Titles -> Seq(Details)]
        /\ jobs' \in Seq(Job) /\ Len(jobs') = Len(jobs) + 1
    BY <1>4, FlushType DEF CloseFlushes
  <2>2. /\ closing' \in [todo : SUBSET Titles, awaits : Nat]
        /\ closing'.awaits \in 0 .. Len(jobs')
    BY <1>1, <1>4, <2>1 DEF CloseFlushes
  <2> QED
    BY <1>1, <1>4, <2>1, <2>2 DEF TypeInv, CloseFlushes
<1>5. ASSUME NEW j \in DOMAIN jobs, SendBegins(j) \/ SendEnds(j)
      PROVE  TypeInv'
  <2>1. PICK state \in JobStates : jobs' = [jobs EXCEPT ![j].state = state]
    BY <1>5 DEF SendBegins, SendEnds, JobStates
  <2>2. jobs' \in Seq(Job) /\ Len(jobs') = Len(jobs)
    BY <1>1, <2>1, StateType
  <2> QED
    BY <1>1, <1>5, <2>2 DEF TypeInv, SendBegins, SendEnds
<1>6. CASE CloseBegins
  <2>1. LeftToFlush \subseteq Titles
    BY DEF LeftToFlush
  <2>2. /\ closing' \in [todo : SUBSET Titles, awaits : Nat]
        /\ closing'.awaits \in 0 .. Len(jobs') /\ stage' \in Stages
    BY <1>1, <1>6, <2>1 DEF CloseBegins, NoJob, Stages
  <2> QED
    BY <1>1, <1>6, <2>2 DEF TypeInv, CloseBegins
<1>7. CASE Exit
  <2>1. ASSUME NEW j \in DOMAIN jobs
        PROVE  (IF jobs[j].state = "queued" THEN [jobs[j] EXCEPT !.state = "dropped"]
                ELSE jobs[j]) \in Job
    <3>1. jobs[j] \in Job
      BY <1>1
    <3> QED
      BY <3>1 DEF Job, JobStates
  <2>2. jobs' \in Seq(Job) /\ Len(jobs') = Len(jobs)
    BY <1>1, <1>7, <2>1 DEF Exit
  <2> QED
    BY <1>1, <1>7, <2>2 DEF TypeInv, Exit, Stages
<1>8. CASE Killed
  BY <1>1, <1>8 DEF TypeInv, Killed, Stages
<1>9. CASE UNCHANGED vars
  BY <1>1, <1>9 DEF TypeInv, vars
<1> QED
  BY <1>2, <1>3, <1>4, <1>5, <1>6, <1>7, <1>8, <1>9 DEF Next

LEMMA TypeInit ==
  ASSUME Init
  PROVE  TypeInv
<1>1. <<>> \in Seq(Details) /\ <<>> \in Seq(Job) /\ Len(<<>>) = 0
  OBVIOUS
<1> QED
  BY <1>1, AlertAssumption DEF Init, TypeInv, Stages, NoJob

\* Types, for any number of titles, alerts and threads.
THEOREM AlertTypeCorrect == Spec => []TypeOK
<1>1. TypeInv => TypeOK
  BY TypesAreRight
<1> QED
  BY <1>1, TypeInit, TypeStep, PTL DEF Spec

-----------------------------------------------------------------------------
(* One place.                                                              *)

\* An alert that has been raised lies under one title of the buffer or in one
\* message; one that has not lies nowhere.
Placed(d) ==
  \/ \E t \in Titles : InBuffer(d) = {t} /\ InJob(d) = {}
  \/ \E j \in DOMAIN jobs : InJob(d) = {j} /\ InBuffer(d) = {}

Nowhere(d) == InBuffer(d) = {} /\ InJob(d) = {}

Places ==
  /\ \A d \in 1 .. raised : Placed(d)
  /\ \A d \in Details : d > raised => Nowhere(d)

LEMMA AppendedSet ==
  ASSUME NEW S, NEW s \in Seq(S), NEW x \in S
  PROVE  ToSet(Append(s, x)) = ToSet(s) \cup {x}
<1>1. Len(s) \in Nat /\ DOMAIN s = 1 .. Len(s)
  OBVIOUS
<1>2. /\ DOMAIN Append(s, x) = 1 .. Len(s) + 1
      /\ \A i \in 1 .. Len(s) : Append(s, x)[i] = s[i]
      /\ Append(s, x)[Len(s) + 1] = x
  OBVIOUS
<1>3. ASSUME NEW y \in ToSet(Append(s, x))
      PROVE  y \in ToSet(s) \cup {x}
  <2>1. PICK i \in 1 .. Len(s) + 1 : y = Append(s, x)[i]
    BY <1>2, <1>3 DEF ToSet
  <2> QED
    BY <1>1, <1>2, <2>1 DEF ToSet
<1>4. ASSUME NEW y \in ToSet(s) \cup {x}
      PROVE  y \in ToSet(Append(s, x))
  <2>1. CASE y = x
    BY <1>1, <1>2, <2>1 DEF ToSet
  <2>2. CASE y \in ToSet(s)
    <3>1. PICK i \in 1 .. Len(s) : y = s[i]
      BY <1>1, <2>2 DEF ToSet
    <3>2. i \in DOMAIN Append(s, x) /\ Append(s, x)[i] = y
      BY <1>1, <1>2, <3>1
    <3> QED
      BY <3>2 DEF ToSet
  <2> QED
    BY <1>4, <2>1, <2>2
<1> QED
  BY <1>3, <1>4

LEMMA EmptySet == ToSet(<<>>) = {}
BY DEF ToSet

\* Nothing moves when every title and every message keeps its alerts.
LEMMA Unmoved ==
  ASSUME Places, raised' = raised, pending' = pending, DOMAIN jobs' = DOMAIN jobs,
         \A j \in DOMAIN jobs : jobs'[j].what = jobs[j].what
  PROVE  Places'
<1>1. \A d : InJob(d)' = InJob(d) /\ InBuffer(d)' = InBuffer(d)
  BY DEF InJob, InBuffer
<1> QED
  BY <1>1 DEF Places, Placed, Nowhere

\* A flush moves what was buffered under its title into one message.
LEMMA FlushMoves ==
  ASSUME TypeInv, Places, NEW t \in Titles, NEW by \in {"timer", "close"},
         FlushOne(t, by), raised' = raised
  PROVE  Places'
<1> DEFINE new == Len(jobs')
<1>1. /\ DOMAIN jobs' = DOMAIN jobs \cup {new} /\ new \notin DOMAIN jobs
      /\ jobs'[new].what = pending[t]
      /\ \A i \in DOMAIN jobs : jobs'[i] = jobs[i]
      /\ pending'[t] = <<>>
      /\ \A u \in Titles \ {t} : pending'[u] = pending[u]
  BY FlushType
<1> HIDE DEF new
<1>2. ASSUME NEW d
      PROVE  /\ InBuffer(d)' = InBuffer(d) \ {t}
             /\ InJob(d)' = InJob(d) \cup (IF t \in InBuffer(d) THEN {new} ELSE {})
  <2>1. \A u \in Titles : u \in InBuffer(d)' <=> u \in InBuffer(d) /\ u # t
    BY <1>1, EmptySet DEF InBuffer
  <2>2. \A j \in DOMAIN jobs' :
          j \in InJob(d)' <=> j \in InJob(d) \/ (j = new /\ t \in InBuffer(d))
    BY <1>1 DEF InJob, InBuffer
  <2> QED
    BY <1>1, <2>1, <2>2 DEF InJob, InBuffer
<1>3. ASSUME NEW d \in 1 .. raised
      PROVE  Placed(d)'
  <2>1. Placed(d)
    BY DEF Places
  <2>2. CASE \E j \in DOMAIN jobs : InJob(d) = {j} /\ InBuffer(d) = {}
    <3>1. PICK j \in DOMAIN jobs : InJob(d) = {j} /\ InBuffer(d) = {}
      BY <2>2
    <3>2. InJob(d)' = {j} /\ InBuffer(d)' = {} /\ j \in DOMAIN jobs'
      BY <1>1, <1>2, <3>1
    <3> QED
      BY <3>2 DEF Placed
  <2>3. ASSUME NEW u \in Titles, InBuffer(d) = {u}, InJob(d) = {}
        PROVE  Placed(d)'
    <3>1. CASE u = t
      <4>1. InJob(d)' = {new} /\ InBuffer(d)' = {} /\ new \in DOMAIN jobs'
        BY <1>1, <1>2, <2>3, <3>1
      <4> QED
        BY <4>1 DEF Placed
    <3>2. CASE u # t
      <4>1. InJob(d)' = {} /\ InBuffer(d)' = {u}
        BY <1>2, <2>3, <3>2
      <4> QED
        BY <4>1 DEF Placed
    <3> QED
      BY <3>1, <3>2
  <2> QED
    BY <2>1, <2>2, <2>3 DEF Placed
<1>4. ASSUME NEW d \in Details, d > raised
      PROVE  Nowhere(d)'
  <2>1. Nowhere(d)
    BY <1>4 DEF Places
  <2> QED
    BY <1>2, <2>1 DEF Nowhere
<1> QED
  BY <1>3, <1>4 DEF Places

\* A new alert goes where its title is buffered, and nowhere else.
LEMMA SubmitPlaces ==
  ASSUME TypeInv, Places, NEW t \in Titles, Submit(t)
  PROVE  Places'
<1>1. /\ pending \in [Titles -> Seq(Details)] /\ raised \in Nat /\ MaxAlerts \in Nat
      /\ raised' = raised + 1 /\ raised' \in Details
      /\ pending' = [pending EXCEPT ![t] = Append(@, raised')] /\ jobs' = jobs
  BY AlertAssumption DEF TypeInv, Submit, Details
<1>2. ToSet(pending'[t]) = ToSet(pending[t]) \cup {raised'}
  BY <1>1, AppendedSet
<1>3. \A u \in Titles \ {t} : pending'[u] = pending[u]
  BY <1>1
<1>4. ASSUME NEW d
      PROVE  /\ InJob(d)' = InJob(d)
             /\ InBuffer(d)' = InBuffer(d) \cup (IF d = raised' THEN {t} ELSE {})
  BY <1>1, <1>2, <1>3 DEF InJob, InBuffer
<1>5. ASSUME NEW d \in 1 .. raised'
      PROVE  Placed(d)'
  <2>1. CASE d = raised'
    <3>1. Nowhere(d)
      BY <1>1, <2>1 DEF Places
    <3>2. InBuffer(d)' = {t} /\ InJob(d)' = {}
      BY <1>4, <2>1, <3>1 DEF Nowhere
    <3> QED
      BY <3>2 DEF Placed
  <2>2. CASE d # raised'
    <3>1. d \in 1 .. raised
      BY <1>1, <2>2
    <3>2. Placed(d) /\ InJob(d)' = InJob(d) /\ InBuffer(d)' = InBuffer(d)
      BY <1>4, <2>2, <3>1 DEF Places
    <3> QED
      BY <1>1, <3>2 DEF Placed
  <2> QED
    BY <2>1, <2>2
<1>6. ASSUME NEW d \in Details, d > raised'
      PROVE  Nowhere(d)'
  <2>1. d > raised /\ d # raised'
    BY <1>1, <1>6 DEF Details
  <2>2. Nowhere(d)
    BY <2>1 DEF Places
  <2> QED
    BY <1>4, <2>1, <2>2 DEF Nowhere
<1> QED
  BY <1>5, <1>6 DEF Places

LEMMA PlacesStep ==
  ASSUME TypeInv, Places, [Next]_vars
  PROVE  Places'
<1>1. jobs \in Seq(Job)
  BY DEF TypeInv
<1>2. ASSUME NEW t \in Titles, TimerExpires(t)
      PROVE  Places'
  <2>1. CASE Buffered(t)
    BY <1>2, <2>1, FlushMoves DEF TimerExpires
  <2>2. CASE ~Buffered(t)
    BY <1>2, <2>2, Unmoved DEF TimerExpires
  <2> QED
    BY <2>1, <2>2
<1>3. ASSUME NEW t \in Titles, CloseFlushes(t)
      PROVE  Places'
  BY <1>3, FlushMoves DEF CloseFlushes
<1>4. ASSUME NEW j \in DOMAIN jobs, SendBegins(j) \/ SendEnds(j)
      PROVE  Places'
  <2>1. PICK state \in JobStates : jobs' = [jobs EXCEPT ![j].state = state]
    BY <1>4 DEF SendBegins, SendEnds, JobStates
  <2>2. DOMAIN jobs' = DOMAIN jobs /\ \A i \in DOMAIN jobs : jobs'[i].what = jobs[i].what
    BY <1>1, <2>1, StateType
  <2> QED
    BY <1>4, <2>2, Unmoved DEF SendBegins, SendEnds
<1>5. CASE Exit
  <2>1. ASSUME NEW i \in DOMAIN jobs
        PROVE  jobs'[i].what = jobs[i].what
    <3>1. jobs[i] \in Job
      BY <1>1
    <3> QED
      BY <1>5, <3>1 DEF Exit, Job
  <2>2. DOMAIN jobs' = DOMAIN jobs /\ raised' = raised /\ pending' = pending
    BY <1>5 DEF Exit
  <2> QED
    BY <2>1, <2>2, Unmoved
<1>6. CASE CloseBegins \/ Killed \/ UNCHANGED vars
  BY <1>6, Unmoved DEF CloseBegins, Killed, vars
<1> QED
  BY <1>2, <1>3, <1>4, <1>5, <1>6, SubmitPlaces DEF Next

\* A raised alert is in the buffer or in one message, never in both, in two, or
\* in none: whatever timer, later alert or teardown comes in between, and also
\* when the process is killed (AlertCoalescer.submit, _flush_one, aclose).
THEOREM NoAlertIsLostOrDoubled == Spec => []EveryAlertIsInOnePlace
<1>1. Init => Places
  <2>1. SUFFICES ASSUME Init PROVE Places
    OBVIOUS
  <2>2. \A d : InBuffer(d) = {} /\ InJob(d) = {}
    BY <2>1, EmptySet DEF Init, InBuffer, InJob
  <2> QED
    BY <2>1, <2>2 DEF Init, Places, Nowhere
<1>2. Places => EveryAlertIsInOnePlace
  <2> SUFFICES ASSUME Places, NEW d \in 1 .. raised
               PROVE  Cardinality(InJob(d)) + Cardinality(InBuffer(d)) = 1
    BY DEF EveryAlertIsInOnePlace
  <2>1. Placed(d)
    BY DEF Places
  <2>2. \A x : Cardinality({x}) = 1
    BY FS_Singleton
  <2>3. Cardinality({}) = 0
    BY FS_EmptySet
  <2>4. CASE \E t \in Titles : InBuffer(d) = {t} /\ InJob(d) = {}
    <3>1. Cardinality(InBuffer(d)) = 1 /\ Cardinality(InJob(d)) = 0
      BY <2>2, <2>3, <2>4
    <3> QED
      BY <3>1
  <2>5. CASE \E j \in DOMAIN jobs : InJob(d) = {j} /\ InBuffer(d) = {}
    <3>1. Cardinality(InJob(d)) = 1 /\ Cardinality(InBuffer(d)) = 0
      BY <2>2, <2>3, <2>5
    <3> QED
      BY <3>1
  <2> QED
    BY <2>1, <2>4, <2>5 DEF Placed
<1> QED
  BY <1>1, <1>2, TypeInit, TypeStep, PlacesStep, PTL DEF Spec

-----------------------------------------------------------------------------
(* The teardown.                                                           *)

\* Before the teardown nothing is sent by it; during it the timers are gone,
\* what is buffered is on its list, and all it has flushed but the last was
\* sent or tried; after it nothing is left.
Teardown ==
  /\ stage = "running" => \A j \in DOMAIN jobs : jobs[j].by # "close"
  /\ stage = "closing" =>
       /\ timers = {}
       /\ \A t \in Titles : Buffered(t) => t \in closing.todo
       /\ \A j \in DOMAIN jobs : jobs[j].by = "close" =>
            \/ jobs[j].state \in {"sent", "failed"}
            \/ jobs[j].state \in Busy /\ closing.awaits = j
  /\ stage = "closed" =>
       /\ \A t \in Titles : ~Buffered(t)
       /\ \A j \in DOMAIN jobs : jobs[j].by = "close" => jobs[j].state \in {"sent", "failed"}

LEMMA TeardownStep ==
  ASSUME TypeInv, Teardown, [Next]_vars
  PROVE  Teardown'
<1>1. /\ jobs \in Seq(Job) /\ DOMAIN jobs = 1 .. Len(jobs)
      /\ pending \in [Titles -> Seq(Details)]
      /\ closing \in [todo : SUBSET Titles, awaits : Nat]
  BY DEF TypeInv
<1>2. ASSUME NEW t \in Titles, Submit(t)
      PROVE  Teardown'
  BY <1>2 DEF Submit, Teardown
<1>3. ASSUME NEW t \in Titles, TimerExpires(t)
      PROVE  Teardown'
  <2>1. stage = "running" /\ stage' = stage
    BY <1>3 DEF TimerExpires, Alive, Teardown
  <2>2. CASE Buffered(t)
    <3>1. FlushOne(t, "timer")
      BY <1>3, <2>2 DEF TimerExpires
    <3>2. \A j \in DOMAIN jobs' :
            \/ jobs'[j].by = "timer"
            \/ j \in DOMAIN jobs /\ jobs'[j] = jobs[j]
      BY <3>1, FlushType
    <3> QED
      BY <2>1, <3>2 DEF Teardown
  <2>3. CASE ~Buffered(t)
    BY <1>3, <2>1, <2>3 DEF TimerExpires, Teardown
  <2> QED
    BY <2>2, <2>3
<1>4. ASSUME NEW t \in Titles, CloseFlushes(t)
      PROVE  Teardown'
  <2> DEFINE new == Len(jobs')
  <2>1. /\ stage = "closing" /\ stage' = "closing" /\ ~Awaited /\ timers' = timers
        /\ FlushOne(t, "close")
        /\ closing' = [todo |-> closing.todo \ {t}, awaits |-> new]
    BY <1>4 DEF CloseFlushes
  <2>2. /\ DOMAIN jobs' = DOMAIN jobs \cup {new}
        /\ jobs'[new].state \in {"queued", "sent"}
        /\ \A i \in DOMAIN jobs : jobs'[i] = jobs[i]
        /\ pending'[t] = <<>>
        /\ \A u \in Titles \ {t} : pending'[u] = pending[u]
    BY <2>1, FlushType
  <2> HIDE DEF new
  <2>3. \A u \in Titles : Buffered(u)' => u \in closing'.todo
    BY <2>1, <2>2 DEF Buffered, Teardown
  <2>4. ASSUME NEW j \in DOMAIN jobs, jobs[j].by = "close"
        PROVE  jobs[j].state \in {"sent", "failed"}
    <3>1. \/ jobs[j].state \in {"sent", "failed"}
          \/ jobs[j].state \in Busy /\ closing.awaits = j
      BY <2>1, <2>4 DEF Teardown
    <3>2. j # NoJob
      BY <1>1 DEF NoJob
    <3> QED
      BY <2>1, <3>1, <3>2 DEF Awaited
  <2>5. \A j \in DOMAIN jobs' : jobs'[j].by = "close" =>
          \/ jobs'[j].state \in {"sent", "failed"}
          \/ jobs'[j].state \in Busy /\ closing'.awaits = j
    BY <2>1, <2>2, <2>4 DEF Busy
  <2> QED
    BY <2>1, <2>3, <2>5 DEF Teardown
<1>5. ASSUME NEW j \in DOMAIN jobs, SendBegins(j) \/ SendEnds(j)
      PROVE  Teardown'
  <2>1. PICK state \in {"sending", "sent", "failed"} :
          /\ jobs' = [jobs EXCEPT ![j].state = state]
          /\ state = "sending" => jobs[j].state = "queued" /\ Alive
    BY <1>5 DEF SendBegins, SendEnds
  <2>2. /\ DOMAIN jobs' = DOMAIN jobs
        /\ \A i \in DOMAIN jobs :
             /\ jobs'[i].by = jobs[i].by
             /\ jobs'[i].state = IF i = j THEN state ELSE jobs[i].state
    BY <1>1, <2>1, StateType DEF JobStates
  <2>3. UNCHANGED <<stage, timers, pending, closing>>
    BY <1>5 DEF SendBegins, SendEnds
  <2>4. stage = "closed" => ~Alive
    BY DEF Alive
  <2> QED
    BY <2>1, <2>2, <2>3, <2>4 DEF Teardown, Buffered, Busy
<1>6. CASE CloseBegins
  <2>1. /\ stage = "running" /\ stage' = "closing" /\ timers' = {} /\ jobs' = jobs
        /\ pending' = pending /\ closing'.todo = LeftToFlush
    BY <1>6 DEF CloseBegins
  <2>2. \A t \in Titles : Buffered(t)' => t \in closing'.todo
    BY <2>1 DEF LeftToFlush, Buffered
  <2> QED
    BY <2>1, <2>2 DEF Teardown
<1>7. CASE Exit
  <2>1. /\ stage = "closing" /\ stage' = "closed" /\ ~Awaited /\ closing.todo = {}
        /\ pending' = pending
        /\ jobs' = [j \in DOMAIN jobs |->
                      IF jobs[j].state = "queued"
                      THEN [jobs[j] EXCEPT !.state = "dropped"] ELSE jobs[j]]
    BY <1>7 DEF Exit
  <2>2. ASSUME NEW j \in DOMAIN jobs, jobs'[j].by = "close"
        PROVE  jobs'[j].state \in {"sent", "failed"}
    <3>1. jobs[j] \in Job /\ j # NoJob
      BY <1>1 DEF NoJob
    <3>2. jobs[j].by = "close"
      BY <2>1, <2>2, <3>1 DEF Job
    <3>3. jobs[j].state \in {"sent", "failed"}
      BY <2>1, <3>1, <3>2 DEF Teardown, Awaited
    <3> QED
      BY <2>1, <3>3
  <2>3. DOMAIN jobs' = DOMAIN jobs /\ \A t \in Titles : ~Buffered(t)'
    BY <2>1 DEF Teardown, Buffered
  <2> QED
    BY <2>1, <2>2, <2>3 DEF Teardown
<1>8. CASE Killed
  BY <1>8 DEF Killed, Teardown
<1>9. CASE UNCHANGED vars
  BY <1>9 DEF vars, Teardown, Buffered, Busy
<1> QED
  BY <1>2, <1>3, <1>4, <1>5, <1>6, <1>7, <1>8, <1>9 DEF Next

\* When the teardown is over nothing is buffered, and every message of its own
\* was sent or tried, however many the timers had put before it in the pool
\* (aclose, and cli._run_batch that awaits it before the loop ends).
THEOREM TeardownEmptiesTheBuffer == Spec => []BufferedIsSentBeforeExit
<1>1. Init => Teardown
  BY DEF Init, Teardown
<1>2. Teardown => BufferedIsSentBeforeExit
  BY EmptySet DEF Teardown, BufferedIsSentBeforeExit, InBuffer, Buffered
<1> QED
  BY <1>1, <1>2, TypeInit, TypeStep, TeardownStep, PTL DEF Spec
=============================================================================
