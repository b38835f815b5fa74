------------------------------ MODULE EventLoop ------------------------------
(***************************************************************************)
(* The event loops that may run the client's transfers instead of          *)
(* curl_multi_perform(): libevent's (php_http_client_curl_event.c) and one *)
(* that a script provides (php_http_client_curl_user.c).  libcurl tells a  *)
(* loop by callbacks which sockets to watch and when to wake it; the loop  *)
(* calls libcurl when that happens, and the response handler after it.     *)
(*                                                                         *)
(* libcurl, libevent and the loop of the script are external; a transfer   *)
(* has a socket of its own.  Time is in ticks.                             *)
(***************************************************************************)
EXTENDS Integers, FiniteSets, FiniteSetsExt

CONSTANTS
  Transfer,     \* requests, with their easy handle and socket
  Kinds,        \* loops that may be used: "event", "user"
  MaxRounds,    \* bound: times a transfer waits before it is done
  MaxDue,       \* bound: ticks until libcurl wants to be called again
  MaxCalls      \* bound: calls of enqueue(), requeue(), and wait() in a callback

ASSUME EventLoopAssumption ==
  /\ IsFiniteSet(Transfer)
  /\ Kinds \subseteq {"event", "user"}
  /\ MaxRounds \in Nat /\ MaxDue \in Nat \ {0} /\ MaxCalls \in Nat

VARIABLES
  kind,         \* curl->ev_ops
  phase,        \* where libcurl is with a transfer
  rounds, due,  \* waits it has left, ticks until its timeout or Never
  lastcall,     \* the timeout libcurl has told last, or Cleared
  timer,        \* ctx->timeout: ticks until it fires, or Unset (it is not
                \* initialized), Off (not pending) or Ready (about to run)
  watch,        \* sockets with an event
  active,       \* sockets whose events are about to run
  unfinished,   \* curl->unfinished
  pc, call,     \* place, and the method of the client that is running
  from,         \* who called the response handler
  reading,      \* the transfer whose response it reads
  outer,        \* the response callback that has called wait(), if one has
  exception,    \* EG(exception)
  calls

curl == <<phase, rounds, due, lastcall, unfinished>>
loop == <<timer, watch, active>>
caller == <<call, from, reading>>
place == <<pc, caller, outer, exception>>
vars == <<kind, curl, loop, place, calls>>

\* A transfer waits for its timeout, or for its socket and its timeout if it has
\* one; when it is done a message can be read.
Phases == {"idle", "timed", "io", "done", "read"}
Never == -1
Cleared == -2
Off == -1
Ready == -2
Unset == -3
RunningOf(ph) == {t \in Transfer : ph[t] \in {"timed", "io"}}
Running == RunningOf(phase)

Init ==
  /\ kind \in Kinds
  /\ phase = [t \in Transfer |-> "idle"] /\ rounds = [t \in Transfer |-> 0]
  /\ due = [t \in Transfer |-> Never] /\ lastcall = Never /\ unfinished = 0
  /\ timer = Unset /\ watch = {} /\ active = {}
  /\ pc = "script" /\ call = "none" /\ from = "none" /\ reading \in Transfer
  /\ outer = <<>> /\ exception = FALSE
  /\ calls = 0
-----------------------------------------------------------------------------
(* What libcurl calls back.                                                *)

\* event_pending(): also while the timer is about to run.
IsPending(tm) == tm = Ready \/ tm >= 0

\* Mutant: no timer is made for a timeout of zero.
event_timer_nonzero(ms, tm) ==
  CASE ms \in {0, Never} -> IF tm = Unset THEN tm ELSE Off
    [] ms > 0 -> IF IsPending(tm) THEN tm ELSE ms

\* php_http_client_curl_event_timer(): a timer that is pending is left alone.
event_timer(ms, tm) ==
  CASE ms = Never -> IF tm = Unset THEN tm ELSE Off
    [] ms # Never -> IF IsPending(tm) THEN tm ELSE ms

\* php_http_client_curl_user_timer(): the script never hears of Never.
user_timer(ms, tm) == IF ms = Never THEN tm ELSE ms

\* The nearest timeout.
Want(d) == LET set == {d[t] : t \in Transfer} \ {Never}
           IN  IF set = {} THEN Never ELSE Min(set)

\* libcurl tells a timeout that is not the one it told last.
TimerTold(told, want, tm) ==
  /\ lastcall' = want
  /\ \/ want = told /\ timer' = tm
     \/ want # told /\ timer' = IF kind = "event" THEN event_timer(want, tm)
                                ELSE user_timer(want, tm)

\* php_http_client_curl_event_socket(), php_http_client_curl_user_socket(): an
\* event replaces the one before; POLL_REMOVE deletes it.
SocketTold(ph, act) ==
  /\ watch' = {t \in Transfer : ph[t] = "io"}
  /\ active' = act \cap watch'

\* curl_multi_socket_action(): transfers whose socket is ready, or whose timeout
\* has come, wait again or are done.
Touched(ts) == {t \in Running : t \in ts \/ due[t] = 0}
Outcomes(t) ==
  {<<"done", Never>>} \cup
  IF rounds[t] = 0 THEN {} ELSE ({"io"} \X ({Never} \cup 1..MaxDue)) \cup ({"timed"} \X (1..MaxDue))

\* php_http_client_curl_event_handler(), php_http_client_curl_loop(): libcurl
\* forgets the timeout it told when it is called for one (no socket in ts).
\* tm and act are the timer and the events, the caller's own taken off.
Handler(ts, who, tm, act) ==
  /\ \E outcome \in [Touched(ts) -> UNION {Outcomes(t) : t \in Touched(ts)}] :
       /\ \A t \in Touched(ts) : outcome[t] \in Outcomes(t)
       /\ phase' = [t \in Transfer |-> IF t \in Touched(ts) THEN outcome[t][1] ELSE phase[t]]
       /\ due' = [t \in Transfer |-> IF t \in Touched(ts) THEN outcome[t][2] ELSE due[t]]
  /\ rounds' = [t \in Transfer |-> IF t \in Touched(ts) THEN Max({0, rounds[t] - 1}) ELSE rounds[t]]
  /\ SocketTold(phase', act)
  /\ TimerTold(IF ts = {} THEN Cleared ELSE lastcall, Want(due'), tm)
  /\ unfinished' = Cardinality(RunningOf(phase'))
  /\ pc' = "responses" /\ from' = who
  /\ UNCHANGED <<kind, reading, outer>>

\* curl_multi_add_handle() with want = 0, and curl_multi_remove_handle().
Moved(t, ph, want) ==
  /\ phase' = [phase EXCEPT ![t] = ph] /\ due' = [due EXCEPT ![t] = want]
  /\ SocketTold(phase', active) /\ TimerTold(lastcall, Want(due'), timer)
-----------------------------------------------------------------------------
(* The script and its response callbacks.                                  *)

\* enqueue(), and requeue() which takes the handle out and puts it in again.
Enqueue(t) ==
  /\ pc \in {"script", "callback"} /\ calls < MaxCalls
  /\ Moved(t, "timed", 0)
  /\ rounds' = [rounds EXCEPT ![t] = MaxRounds]
  /\ unfinished' = unfinished + 1 /\ calls' = calls + 1
  /\ UNCHANGED <<kind, place>>

\* dequeue(), refused in callbacks, does not count.
Dequeue(t) ==
  /\ pc = "script" /\ phase[t] # "idle"
  /\ Moved(t, "idle", Never)
  /\ UNCHANGED <<kind, rounds, unfinished, place, calls>>

\* configure() with "use_eventloop" makes a new loop.
use_eventloop(k) ==
  /\ pc = "script" /\ \A t \in Transfer : phase[t] = "idle"
  /\ kind' = k /\ timer' = Unset /\ watch' = {} /\ active' = {}
  /\ UNCHANGED <<curl, place, calls>>

\* php_http_client_curl_get_timeout(): a default if libcurl has none.
get_timeout == IF Want(due) = Never THEN 1 ELSE Want(due)

\* wait() sets the timer before it blocks, with a timeout of the script or 0 for
\* none: a first use only initializes it.
event_wait(custom) ==
  CASE timer = Unset -> Off
    [] timer # Unset /\ custom # 0 -> custom
    [] timer # Unset /\ custom = 0 -> IF IsPending(timer) THEN timer ELSE get_timeout
user_wait(custom) == IF custom # 0 THEN custom ELSE get_timeout
Waits(custom) == IF kind = "event" THEN event_wait(custom) ELSE user_wait(custom)

Wait(custom) ==
  /\ pc = "script"
  /\ timer' = Waits(custom)
  /\ pc' = "loop" /\ call' = "wait" /\ exception' = FALSE
  /\ UNCHANGED <<kind, curl, watch, active, from, reading, outer, calls>>

\* In a callback of an event libevent refuses to be entered again, with the timer set;
\* the loop of a script does, too.
WaitRefused(custom) ==
  /\ pc = "callback" /\ from \in {"timer", "socket"} /\ kind = "event"
  /\ timer' = Waits(custom)
  /\ UNCHANGED <<kind, curl, watch, active, place, calls>>

\* In one that send() calls before it enters the loop, or once() after that has
\* returned, the loop runs, and the callback goes on after it.
WaitNested(custom) ==
  /\ pc = "callback" /\ from \in {"kick", "once"} /\ ~exception /\ calls < MaxCalls
  /\ timer' = Waits(custom)
  /\ pc' = "loop" /\ call' = "wait" /\ outer' = <<caller>>
  /\ calls' = calls + 1
  /\ UNCHANGED <<kind, curl, watch, active, from, reading, exception>>

\* wait() returns.
WaitReturns ==
  /\ outer' = <<>>
  /\ \/ outer = <<>> /\ pc' = "script" /\ UNCHANGED caller
     \/ outer # <<>> /\ pc' = "callback"
        /\ call' = outer[1][1] /\ from' = outer[1][2] /\ reading' = outer[1][3]

Once ==
  /\ pc = "script"
  /\ pc' = "loop" /\ call' = "once" /\ exception' = FALSE
  /\ UNCHANGED <<kind, curl, loop, from, reading, outer, calls>>

\* send(): "kickstart".
Exec ==
  /\ pc = "script" /\ call' = "exec" /\ exception' = FALSE
  /\ Handler({}, "kick", timer, active)
  /\ UNCHANGED calls

\* A response callback returns or throws.  TRUE asks for the request to be
\* dequeued, wherever a transfer of it is that the callback has started again.
Return(t) ==
  /\ pc = "callback" /\ t = reading
  /\ pc' = "responses" /\ exception' \in {exception, TRUE}
  /\ \/ UNCHANGED <<phase, due, lastcall, loop>>
     \/ phase[t] # "idle" /\ Moved(t, "idle", Never)
  /\ UNCHANGED <<kind, rounds, unfinished, caller, outer, calls>>
-----------------------------------------------------------------------------
(* The loops.                                                              *)

\* Time passes while nothing runs.
Less(n) == IF n > 0 THEN n - 1 ELSE n
Tick ==
  /\ pc \in {"script", "loop"} /\ active = {} /\ timer > 0
  /\ timer' = timer - 1 /\ lastcall' = Less(lastcall)
  /\ due' = [t \in Transfer |-> Less(due[t])]
  /\ UNCHANGED <<kind, phase, rounds, unfinished, watch, active, place, calls>>

\* The loop of a script polls with a timeout of its own when it was told none.
Expired == timer = 0 \/ (kind = "user" /\ ~IsPending(timer))

\* event_base_loop() blocks for events if it may and any are pending.
Poll(ts) ==
  /\ pc = "loop" /\ ts \subseteq watch
  /\ call = "once" \/ ts # {} \/ Expired
  /\ active' = ts /\ timer' = IF Expired THEN Ready ELSE timer
  /\ pc' = "run"
  /\ UNCHANGED <<kind, curl, watch, caller, outer, exception, calls>>

\* "while (curl->unfinished && !EG(exception))"
Finished == unfinished = 0 \/ exception

\* event_base_loop() returns as nothing is pending; send() calls it again.
LoopEnds ==
  /\ pc = "loop" /\ kind = "event" /\ call # "once"
  /\ watch = {} /\ ~IsPending(timer)
  /\ \/ call = "wait" /\ WaitReturns
     \/ /\ call = "exec" /\ UNCHANGED <<caller, outer>>
        /\ pc' = IF Finished THEN "script" ELSE "loop"
  /\ UNCHANGED <<kind, curl, loop, exception, calls>>

\* Events run in any order; one that is deleted meanwhile does not run.
RunTimer ==
  /\ pc = "run" /\ timer = Ready
  /\ Handler({}, "timer", Off, active)
  /\ UNCHANGED <<call, exception, calls>>

RunSocket(t) ==
  /\ pc = "run" /\ t \in active
  /\ Handler({t}, "socket", timer, active \ {t})
  /\ UNCHANGED <<call, exception, calls>>

\* The events have run: the next batch, or the end.  once() reads responses
\* again; a script's loop is asked for one batch at a time.
RunEnds ==
  /\ pc = "run" /\ active = {} /\ timer # Ready
  /\ \/ /\ call = "once" /\ UNCHANGED <<call, reading, outer>>
        /\ pc' = "responses" /\ from' = "once"
     \/ call = "wait" /\ WaitReturns
     \/ /\ call = "exec" /\ UNCHANGED <<caller, outer>>
        /\ pc' = IF kind = "user" /\ Finished THEN "script" ELSE "loop"
  /\ UNCHANGED <<kind, curl, loop, exception, calls>>
-----------------------------------------------------------------------------
(* php_http_client_curl_responsehandler().                                 *)
ReadMessage(t) ==
  /\ pc = "responses" /\ phase[t] = "done"
  /\ phase' = [phase EXCEPT ![t] = "read"] /\ pc' = "callback" /\ reading' = t
  /\ UNCHANGED <<kind, rounds, due, lastcall, unfinished, loop, call, from, outer, exception, calls>>

\* Mutant: the timer is deleted after every socket event.
AfterSocketAlways(tm) == IF IsPending(tm) THEN Off ELSE tm

\* php_http_client_curl_event_callback(): "remove timeout if there are no
\* transfers left".
AfterSocket(tm) == IF unfinished = 0 /\ IsPending(tm) THEN Off ELSE tm

ResponsesRead ==
  /\ pc = "responses" /\ \A t \in Transfer : phase[t] # "done"
  /\ timer' = IF kind = "event" /\ from = "socket" THEN AfterSocket(timer) ELSE timer
  /\ pc' = CASE from \in {"timer", "socket"} -> "run"
             [] from = "kick" -> "loop"
             [] from = "once" -> "script"
  /\ UNCHANGED <<kind, curl, watch, active, caller, outer, exception, calls>>
-----------------------------------------------------------------------------
Script ==
  \/ \E t \in Transfer : Enqueue(t) \/ Dequeue(t)
  \/ \E k \in Kinds : use_eventloop(k)
  \/ \E custom \in 0..MaxDue : Wait(custom) \/ WaitRefused(custom) \/ WaitNested(custom)
  \/ Once \/ Exec

Loop ==
  \/ \E t \in Transfer : Return(t) \/ RunSocket(t) \/ ReadMessage(t)
  \/ \E ts \in SUBSET Transfer : Poll(ts)
  \/ Tick \/ LoopEnds \/ RunTimer \/ RunEnds \/ ResponsesRead

Next == Script \/ Loop
Spec == Init /\ [][Next]_vars

\* Peers answer, or libcurl's own timeouts end the transfer.
FairSpec ==
  /\ Spec /\ WF_vars(Loop)
  /\ \A t \in Transfer : SF_vars(\E ts \in SUBSET Transfer : t \in ts /\ Poll(ts))
-----------------------------------------------------------------------------
\* While a loop blocks, every running transfer can wake it: its socket is watched
\* if it waits for one, and a timer is pending if it has a timeout, whatever
\* callbacks enqueued, requeued and dequeued when the last events ran.  No event
\* is left of a transfer that is over.
SleeperWakes ==
  pc = "loop" =>
    /\ watch = {t \in Running : phase[t] = "io"}
    /\ \A t \in Running : due[t] # Never => (IsPending(timer) \/ kind = "user")

\* send() on libevent spins when the last transfer was dequeued and is still
\* counted: a response callback requeued its request and returned TRUE.
Spins ==
  /\ pc = "loop" /\ call = "exec" /\ kind = "event"
  /\ Running = {} /\ unfinished > 0 /\ ~IsPending(timer)

\* wait(), once() and send() return, and send() with an exception or with nothing
\* left to transfer, unless it spins.
CallsReturn ==
  pc # "script" ~>
    \/ pc = "script" /\ (call = "exec" => Running = {} \/ exception)
    \/ Spins
=============================================================================
