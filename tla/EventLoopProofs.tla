--------------------------- MODULE EventLoopProofs ---------------------------
(***************************************************************************)
(* Proofs about EventLoop: a loop that blocks is woken for every transfer, *)
(* for every set of transfers, whatever callbacks enqueue and dequeue.     *)
(***************************************************************************)
EXTENDS EventLoop, TLAPS, FiniteSetTheorems, WellFoundedInduction

-----------------------------------------------------------------------------
(* The nearest timeout.                                                    *)

Smaller == {p \in Nat \X Nat : p[1] < p[2]}

\* A set of numbers that is not empty has a least one, which is its Min.
LEMMA MinIsLeast ==
  ASSUME NEW S, S \subseteq Nat, S # {}
  PROVE  Min(S) \in S /\ \A k \in S : Min(S) <= k
<1>1. IsWellFoundedOn(Smaller, Nat)
  BY NatLessThanWellFounded DEF OpToRel, Smaller
<1>2. \A x, y \in Nat : y < x => <<y, x>> \in Smaller
  BY DEF Smaller
<1>3. PICK m \in S : \A y \in S : ~(<<y, m>> \in Smaller)
  BY <1>1, WFMin
<1>4. ASSUME NEW k \in S PROVE m <= k
  <2>1. k \in Nat /\ m \in Nat
    OBVIOUS
  <2>2. ~(k < m)
    BY <1>2, <1>3, <2>1
  <2> QED BY <2>1, <2>2
<1> QED BY <1>4 DEF Min

Dues == Nat \cup {Never}

Timeouts(d) == {d[t] : t \in Transfer} \ {Never}

\* The nearest timeout is one of those that transfers have.
LEMMA WantIsNearest ==
  ASSUME NEW d \in [Transfer -> Dues]
  PROVE  /\ Timeouts(d) \subseteq Nat
         /\ Timeouts(d) = {} => Want(d) = Never
         /\ Timeouts(d) # {} => /\ Want(d) \in Timeouts(d) /\ Want(d) \in Nat
                                /\ \A k \in Timeouts(d) : Want(d) <= k
         /\ Want(d) \in Dues
         /\ Want(d) = Never <=> \A t \in Transfer : d[t] = Never
<1>1. Timeouts(d) \subseteq Nat
  BY DEF Timeouts, Dues
<1>2. Want(d) = IF Timeouts(d) = {} THEN Never ELSE Min(Timeouts(d))
  BY DEF Want, Timeouts
<1>3. Timeouts(d) = {} <=> \A t \in Transfer : d[t] = Never
  BY DEF Timeouts
<1>4. Never \notin Nat
  BY DEF Never
<1>5. CASE Timeouts(d) = {}
  BY <1>1, <1>2, <1>3, <1>5 DEF Dues
<1>6. CASE Timeouts(d) # {}
  BY <1>1, <1>2, <1>3, <1>4, <1>6, MinIsLeast DEF Dues
<1> QED BY <1>5, <1>6

\* A tick brings the nearest timeout nearer.
LEMMA WantTicks ==
  ASSUME NEW d \in [Transfer -> Dues]
  PROVE  LET e == [t \in Transfer |-> Less(d[t])]
         IN  e \in [Transfer -> Dues] /\ Want(e) = Less(Want(d))
<1> DEFINE e == [t \in Transfer |-> Less(d[t])]
<1>1. \A n \in Dues : /\ Less(n) \in Dues
                      /\ Less(n) = Never <=> n = Never
                      /\ n # Never => n \in Nat /\ Less(n) \in Nat
  BY DEF Dues, Less, Never
<1>2. e \in [Transfer -> Dues] /\ \A t \in Transfer : e[t] = Less(d[t]) /\ d[t] \in Dues
  BY <1>1
<1> HIDE DEF e
<1>3. CASE \A t \in Transfer : d[t] = Never
  <2>1. \A t \in Transfer : e[t] = Never
    BY <1>1, <1>2, <1>3
  <2>2. Want(e) = Never /\ Want(d) = Never
    BY <1>2, <1>3, <2>1, WantIsNearest
  <2> QED BY <1>2, <2>2 DEF Less, Never, e
<1>4. CASE \E t \in Transfer : d[t] # Never
  <2>1. Timeouts(d) # {} /\ Timeouts(e) # {}
    BY <1>1, <1>2, <1>4 DEF Timeouts
  <2>2. /\ Want(d) \in Timeouts(d) /\ Want(d) \in Nat
        /\ \A k \in Timeouts(d) : k \in Nat /\ Want(d) <= k
        /\ Want(e) \in Timeouts(e) /\ Want(e) \in Nat
        /\ \A k \in Timeouts(e) : Want(e) <= k
    BY <1>2, <2>1, WantIsNearest
  <2>3. Less(Want(d)) \in Timeouts(e) /\ Less(Want(d)) \in Nat
    BY <1>1, <1>2, <2>2 DEF Timeouts
  <2>4. PICK k \in Timeouts(d) : Want(e) = Less(k)
    BY <1>1, <1>2, <2>2 DEF Timeouts
  <2>5. \A i, j \in Nat : i <= j => Less(i) <= Less(j)
    BY DEF Less
  <2>6. Less(Want(d)) <= Want(e)
    BY <2>2, <2>4, <2>5
  <2>7. Want(e) <= Less(Want(d))
    BY <2>2, <2>3
  <2>8. Want(e) = Less(Want(d))
    BY <2>2, <2>3, <2>6, <2>7
  <2> QED BY <1>2, <2>8 DEF e
<1> QED BY <1>3, <1>4

-----------------------------------------------------------------------------
(* The inductive invariant.                                                *)

LoopTypes ==
  /\ kind \in {"event", "user"}
  /\ phase \in [Transfer -> Phases]
  /\ due \in [Transfer -> Dues]
  /\ timer \in Nat \cup {Off, Ready, Unset}
  /\ unfinished \in Nat

\* A transfer that is not running has no timeout.
OverIsSilent == \A t \in Transfer : t \notin Running => due[t] = Never

\* libevent's timer is pending when a transfer has a timeout.  libcurl does not
\* tell a timeout twice, so it matters that the last one told is the nearest.
TimerSet ==
  /\ lastcall = Want(due)
  /\ kind = "event" /\ Want(due) # Never => IsPending(timer)

\* The number that lets a socket event delete the timer covers the transfers.
RunningCounted == Cardinality(Running) <= unfinished

LoopInv ==
  /\ LoopTypes
  /\ watch = {t \in Transfer : phase[t] = "io"}
  /\ OverIsSilent
  /\ TimerSet
  /\ RunningCounted

\* Every set of transfers is finite.
LEMMA TransfersFinite ==
  ASSUME NEW S, S \subseteq Transfer
  PROVE  IsFiniteSet(S) /\ Cardinality(S) \in Nat
BY EventLoopAssumption, FS_Subset, FS_CardinalityType

\* Telling libevent's loop or the script's a timeout.
LEMMA TimerToldOK ==
  ASSUME LoopTypes, NEW want \in Dues, NEW told \in Int,
         NEW tm \in Nat \cup {Off, Ready, Unset}, TimerTold(told, want, tm),
         kind = "event" /\ want # Never /\ want = told => IsPending(tm)
  PROVE  /\ lastcall' = want
         /\ timer' \in Nat \cup {Off, Ready, Unset}
         /\ kind = "event" /\ want # Never => IsPending(timer')
<1>1. /\ event_timer(want, tm) \in Nat \cup {Off, Ready, Unset}
      /\ user_timer(want, tm) \in Nat \cup {Off, Ready, Unset}
      /\ want # Never => IsPending(event_timer(want, tm))
  <2>1. CASE want = Never
    BY <2>1 DEF event_timer, user_timer, Dues
  <2>2. CASE want # Never
    <3>1. want \in Nat
      BY <2>2 DEF Dues
    <3>2. event_timer(want, tm) = IF IsPending(tm) THEN tm ELSE want
      BY <2>2 DEF event_timer
    <3> QED BY <2>2, <3>1, <3>2 DEF user_timer, IsPending, Off, Ready, Unset
  <2> QED BY <2>1, <2>2
<1> QED BY <1>1 DEF TimerTold

\* One transfer enters or leaves the multi handle.
LEMMA MovedOK ==
  ASSUME LoopInv, NEW t \in Transfer, NEW ph \in {"idle", "timed"}, NEW want \in Dues,
         ph = "idle" => want = Never, Moved(t, ph, want), UNCHANGED kind,
         unfinished' \in Nat,
         unfinished' = IF ph = "idle" THEN unfinished ELSE unfinished + 1
  PROVE  LoopInv'
<1> USE DEF LoopInv
<1>1. /\ phase' = [phase EXCEPT ![t] = ph] /\ due' = [due EXCEPT ![t] = want]
      /\ watch' = {s \in Transfer : phase'[s] = "io"}
      /\ TimerTold(lastcall, Want(due'), timer)
  BY DEF Moved, SocketTold
<1>2. phase' \in [Transfer -> Phases] /\ due' \in [Transfer -> Dues]
  BY <1>1 DEF LoopTypes, Phases
<1>3. Want(due) \in Dues /\ Want(due') \in Dues /\ lastcall = Want(due)
  BY <1>2, WantIsNearest DEF LoopTypes, TimerSet
<1>4. /\ lastcall' = Want(due') /\ timer' \in Nat \cup {Off, Ready, Unset}
      /\ kind = "event" /\ Want(due') # Never => IsPending(timer')
  <2>1. lastcall \in Int
    BY <1>3 DEF Dues, Never
  <2>2. timer \in Nat \cup {Off, Ready, Unset}
    BY DEF LoopTypes
  <2>3. kind = "event" /\ Want(due') # Never /\ Want(due') = lastcall => IsPending(timer)
    BY <1>3 DEF TimerSet
  <2> QED BY <1>1, <1>3, <2>1, <2>2, <2>3, TimerToldOK
<1>5. OverIsSilent'
  BY <1>1, <1>2 DEF OverIsSilent, Running, RunningOf, LoopTypes
<1>6. RunningCounted'
  <2>1. Running \subseteq Transfer /\ Running' \subseteq Transfer
    BY DEF Running, RunningOf
  <2>2. IsFiniteSet(Running) /\ Cardinality(Running) \in Nat /\ Cardinality(Running') \in Nat
    BY <2>1, TransfersFinite
  <2>3. CASE ph = "idle"
    <3>1. Running' \subseteq Running
      BY <1>1, <2>3 DEF Running, RunningOf, LoopTypes
    <3>2. Cardinality(Running') <= Cardinality(Running)
      BY <2>2, <3>1, FS_Subset
    <3> QED BY <2>2, <2>3, <3>2 DEF RunningCounted
  <2>4. CASE ph = "timed"
    <3>1. Running' = Running \cup {t}
      BY <1>1, <2>4 DEF Running, RunningOf, LoopTypes
    <3>2. Cardinality(Running') <= Cardinality(Running) + 1
      <4>1. CASE t \in Running
        <5>1. Running' = Running
          BY <3>1, <4>1
        <5> QED BY <2>2, <5>1
      <4>2. CASE t \notin Running
        <5>1. Cardinality(Running \cup {t}) = Cardinality(Running) + 1
          BY <2>2, <4>2, FS_AddElement
        <5> QED BY <2>2, <3>1, <5>1
      <4> QED BY <4>1, <4>2
    <3> QED BY <2>2, <2>4, <3>2 DEF RunningCounted, LoopTypes
  <2> QED BY <2>3, <2>4
<1> QED BY <1>1, <1>2, <1>4, <1>5, <1>6 DEF LoopTypes, TimerSet

\* libcurl is called for sockets or a timeout.
LEMMA HandlerOK ==
  ASSUME LoopInv, NEW ts, NEW who, NEW tm \in Nat \cup {Off, Ready, Unset}, NEW act,
         Handler(ts, who, tm, act), ts = {} \/ tm = timer
  PROVE  LoopInv'
<1> USE DEF LoopInv
<1>1. PICK outcome \in [Touched(ts) -> UNION {Outcomes(t) : t \in Touched(ts)}] :
        /\ \A t \in Touched(ts) : outcome[t] \in Outcomes(t)
        /\ phase' = [t \in Transfer |-> IF t \in Touched(ts) THEN outcome[t][1] ELSE phase[t]]
        /\ due' = [t \in Transfer |-> IF t \in Touched(ts) THEN outcome[t][2] ELSE due[t]]
  BY DEF Handler
<1>2. /\ watch' = {t \in Transfer : phase'[t] = "io"}
      /\ TimerTold(IF ts = {} THEN Cleared ELSE lastcall, Want(due'), tm)
      /\ unfinished' = Cardinality(RunningOf(phase'))
      /\ kind' = kind
  BY DEF Handler, SocketTold
<1>3. ASSUME NEW t \in Touched(ts)
      PROVE  /\ outcome[t][1] \in Phases /\ outcome[t][2] \in Dues
             /\ outcome[t][1] \notin {"timed", "io"} => outcome[t][2] = Never
  <2>1. outcome[t] \in Outcomes(t)
    BY <1>1
  <2>2. 1 .. MaxDue \subseteq Dues
    BY EventLoopAssumption DEF Dues
  <2> QED BY <2>1, <2>2 DEF Outcomes, Phases, Dues
<1>4. phase' \in [Transfer -> Phases] /\ due' \in [Transfer -> Dues]
  BY <1>1, <1>3 DEF LoopTypes
<1>5. Want(due) \in Dues /\ Want(due') \in Dues /\ lastcall = Want(due)
  BY <1>4, WantIsNearest DEF LoopTypes, TimerSet
<1>6. /\ lastcall' = Want(due') /\ timer' \in Nat \cup {Off, Ready, Unset}
      /\ kind = "event" /\ Want(due') # Never => IsPending(timer')
  <2> DEFINE told == IF ts = {} THEN Cleared ELSE lastcall
  <2>1. told \in Int
    BY <1>5 DEF Dues, Never, Cleared
  <2>2. kind = "event" /\ Want(due') # Never /\ Want(due') = told => IsPending(tm)
    <3>1. CASE ts = {}
      BY <1>5, <3>1 DEF Dues, Never, Cleared
    <3>2. CASE ts # {}
      BY <1>5, <3>2 DEF TimerSet
    <3> QED BY <3>1, <3>2
  <2>3. TimerTold(told, Want(due'), tm)
    BY <1>2
  <2> HIDE DEF told
  <2> QED BY <1>5, <2>1, <2>2, <2>3, TimerToldOK
<1>7. OverIsSilent'
  <2> SUFFICES ASSUME NEW t \in Transfer, t \notin Running' PROVE due'[t] = Never
    BY DEF OverIsSilent
  <2>1. phase'[t] \notin {"timed", "io"}
    BY DEF Running, RunningOf
  <2>2. CASE t \in Touched(ts)
    BY <1>1, <1>3, <2>1, <2>2
  <2>3. CASE t \notin Touched(ts)
    BY <1>1, <2>1, <2>3 DEF OverIsSilent, Running, RunningOf
  <2> QED BY <2>2, <2>3
<1>8. RunningCounted' /\ unfinished' \in Nat
  <2>1. RunningOf(phase') \subseteq Transfer /\ Running' = RunningOf(phase')
    BY DEF Running, RunningOf
  <2>2. Cardinality(RunningOf(phase')) \in Nat
    BY <2>1, TransfersFinite
  <2> QED BY <1>2, <2>1, <2>2 DEF RunningCounted
<1> QED BY <1>2, <1>4, <1>6, <1>7, <1>8 DEF LoopTypes, TimerSet

-----------------------------------------------------------------------------
(* The steps.                                                              *)

\* A step that leaves libcurl, the events and the kind of loop alone, and the
\* timer or lets it be pending.
LEMMA TimerStep ==
  ASSUME LoopInv, UNCHANGED <<kind, curl, watch>>,
         timer' \in Nat \cup {Off, Ready, Unset},
         IsPending(timer) => IsPending(timer')
  PROVE  LoopInv'
BY DEF LoopInv, LoopTypes, OverIsSilent, TimerSet, RunningCounted, Running, RunningOf, curl

\* wait() sets a timer that is pending, or makes one when no timeout was told.
LEMMA WaitStep ==
  ASSUME LoopInv, NEW custom \in 0 .. MaxDue, timer' = Waits(custom),
         UNCHANGED <<kind, curl, watch>>
  PROVE  LoopInv'
<1>1. /\ Want(due) \in Dues /\ timer \in Nat \cup {Off, Ready, Unset}
      /\ kind \in {"event", "user"} /\ custom \in Nat
  BY WantIsNearest, EventLoopAssumption DEF LoopInv, LoopTypes
<1>2. get_timeout \in Nat
  BY <1>1 DEF get_timeout, Dues
<1>3. timer' \in Nat \cup {Off, Ready, Unset}
  <2>1. CASE timer = Unset
    BY <1>1, <1>2, <2>1 DEF Waits, event_wait, user_wait
  <2>2. CASE timer # Unset
    BY <1>1, <1>2, <2>2 DEF Waits, event_wait, user_wait
  <2> QED BY <2>1, <2>2
<1>4. IsPending(timer) => IsPending(timer')
  <2> SUFFICES ASSUME IsPending(timer) PROVE IsPending(timer')
    OBVIOUS
  <2>1. timer # Unset
    BY <1>1 DEF IsPending, Unset, Ready
  <2>2. timer' \in Nat \cup {timer}
    BY <1>1, <1>2, <2>1 DEF Waits, event_wait, user_wait
  <2> QED BY <2>2 DEF IsPending
<1> QED BY <1>3, <1>4, TimerStep

\* What the script and its callbacks call.
LEMMA ScriptStep ==
  ASSUME LoopInv, Script
  PROVE  LoopInv'
<1>0. /\ unfinished \in Nat
      /\ timer \in Nat \cup {Off, Ready, Unset}
      /\ phase \in [Transfer -> Phases] /\ due \in [Transfer -> Dues]
  BY DEF LoopInv, LoopTypes
<1>1. ASSUME NEW t \in Transfer, Enqueue(t) PROVE LoopInv'
  <2>1. Moved(t, "timed", 0) /\ unfinished' = unfinished + 1 /\ kind' = kind
    BY <1>1 DEF Enqueue
  <2>2. 0 \in Dues /\ unfinished + 1 \in Nat
    BY <1>0 DEF Dues
  <2> QED BY <2>1, <2>2, MovedOK
<1>2. ASSUME NEW t \in Transfer, Dequeue(t) PROVE LoopInv'
  <2>1. Moved(t, "idle", Never) /\ unfinished' = unfinished /\ kind' = kind
    BY <1>2 DEF Dequeue
  <2>2. Never \in Dues
    BY DEF Dues
  <2> QED BY <1>0, <2>1, <2>2, MovedOK
<1>3. ASSUME NEW k \in Kinds, use_eventloop(k) PROVE LoopInv'
  <2>1. /\ \A t \in Transfer : phase[t] = "idle"
        /\ kind' = k /\ timer' = Unset /\ watch' = {}
        /\ UNCHANGED curl
    BY <1>3 DEF use_eventloop
  <2>2. \A t \in Transfer : due[t] = Never
    BY <2>1 DEF LoopInv, OverIsSilent, Running, RunningOf
  <2>3. Want(due) = Never
    BY <1>0, <2>2, WantIsNearest
  <2>4. k \in {"event", "user"}
    BY EventLoopAssumption
  <2> QED BY <2>1, <2>3, <2>4 DEF LoopInv, LoopTypes, OverIsSilent, TimerSet, RunningCounted,
       Running, RunningOf, curl
<1>4. ASSUME NEW custom \in 0 .. MaxDue, Wait(custom) \/ WaitRefused(custom) \/ WaitNested(custom)
      PROVE  LoopInv'
  <2>1. timer' = Waits(custom) /\ UNCHANGED <<kind, curl, watch>>
    BY <1>4 DEF Wait, WaitRefused, WaitNested
  <2> QED BY <2>1, WaitStep
<1>5. CASE Once
  <2>1. UNCHANGED <<kind, curl, watch>> /\ timer' = timer
    BY <1>5 DEF Once, loop
  <2> QED BY <1>0, <2>1, TimerStep
<1>6. CASE Exec
  BY <1>0, <1>6, HandlerOK DEF Exec
<1> QED BY <1>1, <1>2, <1>3, <1>4, <1>5, <1>6 DEF Script

\* Time passes: the timer comes nearer, and so do the timeouts.
LEMMA TickStep ==
  ASSUME LoopInv, Tick
  PROVE  LoopInv'
<1> DEFINE e == [t \in Transfer |-> Less(due[t])]
<1>1. /\ timer \in Nat \cup {Off, Ready, Unset} /\ due \in [Transfer -> Dues]
      /\ lastcall = Want(due) /\ \A t \in Transfer : t \notin Running => due[t] = Never
  BY DEF LoopInv, LoopTypes, TimerSet, OverIsSilent
<1>2. /\ timer > 0 /\ timer' = timer - 1 /\ lastcall' = Less(lastcall) /\ due' = e
      /\ UNCHANGED <<kind, phase, unfinished, watch>>
  BY DEF Tick
<1>3. e \in [Transfer -> Dues] /\ Want(e) = Less(Want(due))
  BY <1>1, WantTicks
<1>4. timer' \in Nat /\ IsPending(timer')
  BY <1>1, <1>2 DEF IsPending, Off, Ready, Unset
<1>5. Running' = Running
  BY <1>2 DEF Running, RunningOf
<1>6. OverIsSilent'
  BY <1>1, <1>2, <1>5 DEF OverIsSilent, Less, Never
<1> HIDE DEF e
<1> QED BY <1>1, <1>2, <1>3, <1>4, <1>5, <1>6 DEF LoopInv, LoopTypes, TimerSet, RunningCounted

\* What the loops do.
LEMMA LoopStep ==
  ASSUME LoopInv, Loop
  PROVE  LoopInv'
<1>0. /\ unfinished \in Nat
      /\ timer \in Nat \cup {Off, Ready, Unset}
      /\ phase \in [Transfer -> Phases] /\ due \in [Transfer -> Dues]
  BY DEF LoopInv, LoopTypes
<1>1. ASSUME NEW t \in Transfer, Return(t) PROVE LoopInv'
  <2>1. CASE UNCHANGED <<phase, due, lastcall, loop>>
    <3>1. UNCHANGED <<kind, curl, watch>> /\ timer' = timer
      BY <1>1, <2>1 DEF Return, loop, curl
    <3> QED BY <1>0, <3>1, TimerStep
  <2>2. CASE Moved(t, "idle", Never)
    <3>1. unfinished' = unfinished /\ kind' = kind /\ Never \in Dues
      BY <1>1 DEF Return, Dues
    <3> QED BY <1>0, <2>2, <3>1, MovedOK
  <2> QED BY <1>1, <2>1, <2>2 DEF Return
<1>2. ASSUME NEW t \in Transfer, RunSocket(t) PROVE LoopInv'
  BY <1>0, <1>2, HandlerOK DEF RunSocket
<1>3. ASSUME NEW t \in Transfer, ReadMessage(t) PROVE LoopInv'
  <2>1. /\ phase[t] = "done" /\ phase' = [phase EXCEPT ![t] = "read"]
        /\ UNCHANGED <<kind, due, lastcall, unfinished, timer, watch>>
    BY <1>3 DEF ReadMessage, loop
  <2>2. phase' \in [Transfer -> Phases]
    BY <1>0, <2>1 DEF Phases
  <2>3. Running' = Running /\ {s \in Transfer : phase'[s] = "io"} = {s \in Transfer : phase[s] = "io"}
    BY <1>0, <2>1 DEF Running, RunningOf
  <2> QED BY <2>1, <2>2, <2>3 DEF LoopInv, LoopTypes, OverIsSilent, TimerSet, RunningCounted
<1>4. ASSUME NEW ts \in SUBSET Transfer, Poll(ts) PROVE LoopInv'
  <2>1. timer' \in {Ready, timer} /\ UNCHANGED <<kind, curl, watch>>
    BY <1>4 DEF Poll
  <2>2. IsPending(Ready)
    BY DEF IsPending
  <2> QED BY <1>0, <2>1, <2>2, TimerStep
<1>5. CASE Tick
  BY <1>5, TickStep
<1>6. CASE LoopEnds \/ RunEnds
  <2>1. UNCHANGED <<kind, curl, watch>> /\ timer' = timer
    BY <1>6 DEF LoopEnds, RunEnds, loop
  <2> QED BY <1>0, <2>1, TimerStep
<1>7. CASE RunTimer
  BY <1>7, HandlerOK DEF RunTimer
<1>8. CASE ResponsesRead
  <2>1. UNCHANGED <<kind, curl, watch>>
    BY <1>8 DEF ResponsesRead
  <2>2. CASE timer' = timer
    BY <1>0, <2>1, <2>2, TimerStep
  <2>3. CASE timer' # timer
    <3>1. timer' = Off /\ unfinished = 0
      BY <1>8, <2>3 DEF ResponsesRead, AfterSocket
    <3>2. Running \subseteq Transfer
      BY DEF Running, RunningOf
    <3>3. IsFiniteSet(Running) /\ Cardinality(Running) \in Nat
      BY <3>2, TransfersFinite
    <3>4. Running = {}
      BY <3>1, <3>3, FS_EmptySet DEF LoopInv, RunningCounted
    <3>5. Want(due) = Never
      BY <1>0, <3>4, WantIsNearest DEF LoopInv, OverIsSilent
    <3> QED BY <2>1, <3>1, <3>5 DEF LoopInv, LoopTypes, OverIsSilent, TimerSet, RunningCounted,
         Running, RunningOf, curl
  <2> QED BY <2>2, <2>3
<1> QED BY <1>1, <1>2, <1>3, <1>4, <1>5, <1>6, <1>7, <1>8 DEF Loop

-----------------------------------------------------------------------------
(* The theorem.                                                            *)

\* Initially nothing runs.
LEMMA InitLoop == Init => LoopInv
<1> SUFFICES ASSUME Init PROVE LoopInv
  OBVIOUS
<1>1. phase \in [Transfer -> Phases] /\ due \in [Transfer -> Dues]
  BY DEF Init, Phases, Dues
<1>2. Want(due) = Never
  BY <1>1, WantIsNearest DEF Init
<1>3. Running = {}
  BY DEF Init, Running, RunningOf
<1>4. RunningCounted
  BY <1>3, FS_EmptySet DEF Init, RunningCounted
<1>5. kind \in {"event", "user"}
  BY EventLoopAssumption DEF Init
<1> QED BY <1>1, <1>2, <1>4, <1>5 DEF Init, LoopInv, LoopTypes, OverIsSilent, TimerSet

\* The inductive invariant holds in every reachable state.
THEOREM LoopInvariance == Spec => []LoopInv
<1>1. LoopInv /\ [Next]_vars => LoopInv'
  <2> SUFFICES ASSUME LoopInv, [Next]_vars PROVE LoopInv'
    OBVIOUS
  <2>1. CASE Script \/ Loop
    BY <2>1, ScriptStep, LoopStep
  <2>2. CASE UNCHANGED vars
    <3>1. UNCHANGED <<kind, curl, watch>> /\ timer' = timer
      BY <2>2 DEF vars, loop
    <3> QED BY <3>1, TimerStep DEF LoopInv, LoopTypes
  <2> QED BY <2>1, <2>2 DEF Next
<1> QED BY <1>1, InitLoop, PTL DEF Spec

\* A loop that blocks watches the socket of every transfer that waits for one,
\* and libevent's timer is pending while any transfer has a timeout.
THEOREM SleeperAlwaysWakes == Spec => []SleeperWakes
<1>1. LoopInv => SleeperWakes
  <2> SUFFICES ASSUME LoopInv PROVE SleeperWakes
    OBVIOUS
  <2>1. watch = {t \in Running : phase[t] = "io"}
    BY DEF LoopInv, Running, RunningOf
  <2>2. ASSUME NEW t \in Running, due[t] # Never PROVE IsPending(timer) \/ kind = "user"
    <3>1. due \in [Transfer -> Dues] /\ t \in Transfer
      BY DEF LoopInv, LoopTypes, Running, RunningOf
    <3>2. Want(due) # Never
      BY <2>2, <3>1, WantIsNearest
    <3> QED BY <3>2 DEF LoopInv, LoopTypes, TimerSet
  <2> QED BY <2>1, <2>2 DEF SleeperWakes
<1> QED BY <1>1, LoopInvariance, PTL
=============================================================================
