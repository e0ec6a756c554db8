--------------------------- MODULE AutoDispatcher ---------------------------
(***************************************************************************)
(* The auto-dispatcher of one Connection (AutoDispatcher.cpp,              *)
(* Dispatcher.cpp): startAutoDispatch() creates a DispatchShared object    *)
(* and a thread that runs it, stopAutoDispatch() clears the object's       *)
(* `running` flag and waits for the thread on a latch, disconnect() stops  *)
(* it and the destructor frees what its thread works on.                   *)
(*                                                                         *)
(* Each object has a number, in the order they are created.  The read      *)
(* ticket is a lock; its FIFO order (TicketMutex) is what makes the        *)
(* fairness of the steps that take it strong.                              *)
(***************************************************************************)
EXTENDS Integers

CONSTANTS Thread,    \* application threads
          None,      \* no call
          MaxRuns,   \* bound: dispatchers created
          Waits,     \* values of waitForCompletion
          MeetAgain  \* bound: if FALSE, one call begins during another, no more

Run == 1 .. MaxRuns

Call == [step : {"create", "launch", "await_start", "tickets", "shutdown", "await", "reset", "close"},
         wait : BOOLEAN, tries : 0 .. 3, tmp : 0 .. MaxRuns, was : BOOLEAN, closing : BOOLEAN]

ASSUME DispatchAssumption ==
  /\ MaxRuns \in Nat \ {0} /\ Waits \subseteq BOOLEAN /\ MeetAgain \in BOOLEAN
  /\ None \notin Call /\ 0 \notin Thread /\ Thread \cap Run = {}

VARIABLES
  connected,   \* m_state = CONNECTED
  destroyed,   \* the destructor has freed the Connection
  isRunning,   \* m_dispatcherRunning
  shared,      \* m_dispatchShared: the number of an object, or 0
  created,     \* objects created
  running,     \* DispatchShared::running
  startup, shutdown,  \* latches: counted down
  disp,        \* where the thread of each object is
  ticket,      \* the object whose thread holds the read ticket, or 0
  call,        \* the call each application thread is in
  \* history
  answers,     \* what the last completed stop() found and answered
  lapses       \* how waits on a latch ended that was not counted down, and how calls met

dispatcher == <<running, startup, shutdown, disp, ticket>>
handle == <<isRunning, shared, created>>
link == <<connected, destroyed>>
history == <<answers, lapses>>
vars == <<link, handle, dispatcher, call, history>>

TypeOK ==
  /\ connected \in BOOLEAN /\ destroyed \in BOOLEAN /\ isRunning \in BOOLEAN
  /\ shared \in 0 .. MaxRuns /\ created \in 0 .. MaxRuns /\ ticket \in 0 .. MaxRuns
  /\ running \in [Run -> BOOLEAN] /\ startup \in [Run -> BOOLEAN] /\ shutdown \in [Run -> BOOLEAN]
  /\ disp \in [Run -> {"none", "begin", "began", "loop", "auto", "round", "callback", "ended"}]
  /\ call \in [Thread -> Call \cup {None}]
  /\ answers \subseteq [was : BOOLEAN, over : BOOLEAN, answer : BOOLEAN]
  /\ lapses \subseteq {"timeout", "spurious", "overlap", "race"}

Init ==
  /\ connected = TRUE /\ destroyed = FALSE
  /\ isRunning = FALSE /\ shared = 0 /\ created = 0
  /\ running = [k \in Run |-> FALSE]
  /\ startup = [k \in Run |-> FALSE] /\ shutdown = [k \in Run |-> FALSE]
  /\ disp = [k \in Run |-> "none"] /\ ticket = 0
  /\ call = [th \in Thread |-> None]
  /\ answers = {} /\ lapses = {}

Alive(k) == disp[k] \notin {"none", "ended"}

Idle(th) == call[th] = None /\ ~destroyed

At(th, step) == call[th] # None /\ call[th].step = step

NoCalls == \A th \in Thread : call[th] = None

Begins(th) == Idle(th) /\ (MeetAgain \/ "overlap" \notin lapses \/ NoCalls)

NewCall(step, wait, closing) ==
  [step |-> step, wait |-> wait, tries |-> IF wait THEN 3 ELSE 1, tmp |-> 0,
   was |-> isRunning, closing |-> closing]

\* History: a call begins while another one is under way,
Overlap == IF \E th \in Thread : call[th] # None THEN {"overlap"} ELSE {}

\* and a start() finds no object while another one is about to create it.
StartRace == IF \E th \in Thread : At(th, "create") THEN {"race"} ELSE {}
-----------------------------------------------------------------------------
\* Mutant: start() does not look for an object that is there.
StartCheck_NoTest(th) ==
  /\ Begins(th) /\ connected /\ created < MaxRuns
  /\ call' = [call EXCEPT ![th] = NewCall("create", TRUE, FALSE)]
  /\ lapses' = lapses \cup Overlap \cup StartRace
  /\ UNCHANGED <<link, handle, dispatcher, answers>>

\* start(): nothing protects the look at m_dispatchShared and what follows.
StartCheck(th) ==
  /\ Begins(th) /\ connected /\ shared = 0 /\ created < MaxRuns
  /\ call' = [call EXCEPT ![th] = NewCall("create", TRUE, FALSE)]
  /\ lapses' = lapses \cup Overlap \cup StartRace
  /\ UNCHANGED <<link, handle, dispatcher, answers>>

StartCreate(th) ==
  /\ At(th, "create") /\ created < MaxRuns
  /\ created' = created + 1
  /\ shared' = created + 1
  /\ call' = [call EXCEPT ![th].step = "launch"]
  /\ UNCHANGED <<link, isRunning, dispatcher, history>>

\* m_dispatcher->start(): a thread that has been started is not started again.
StartLaunch(th) ==
  /\ At(th, "launch") /\ shared # 0
  /\ isRunning' = TRUE
  /\ disp' = IF disp[shared] = "none" THEN [disp EXCEPT ![shared] = "begin"] ELSE disp
  /\ call' = [call EXCEPT ![th].step = "await_start", ![th].tmp = shared]
  /\ UNCHANGED <<link, shared, created, running, startup, shutdown, ticket, history>>

StartReturns(th) ==
  /\ At(th, "await_start") /\ startup[call[th].tmp]
  /\ call' = [call EXCEPT ![th] = None]
  /\ UNCHANGED <<link, handle, dispatcher, history>>

\* After 10 s without the new thread, start() gives up, but not the object.
StartTimesOut(th) ==
  /\ At(th, "await_start")
  /\ isRunning' = FALSE
  /\ call' = [call EXCEPT ![th] = None]
  /\ lapses' = lapses \cup {"timeout"}
  /\ UNCHANGED <<link, shared, created, dispatcher, answers>>

\* CountDownLatch::await() waits once, not in a loop: a spurious wakeup passes for
\* the latch.
StartWakesEarly(th) ==
  /\ At(th, "await_start") /\ ~startup[call[th].tmp]
  /\ lapses' = lapses \cup {"spurious"}
  /\ call' = [call EXCEPT ![th] = None]
  /\ UNCHANGED <<link, handle, dispatcher, answers>>
-----------------------------------------------------------------------------
Stop(th, wait) ==
  /\ Begins(th) /\ connected
  /\ call' = [call EXCEPT ![th] = NewCall("tickets", wait, FALSE)]
  /\ lapses' = lapses \cup Overlap
  /\ UNCHANGED <<link, handle, dispatcher, answers>>

\* The end of stop(); disconnect() goes on whatever the answer is.
Returns(th, answer) ==
  IF call[th].closing
  THEN call' = [call EXCEPT ![th].step = "close"] /\ UNCHANGED answers
  ELSE /\ call' = [call EXCEPT ![th] = None]
       /\ answers' =
            {[was |-> call[th].was, answer |-> answer,
              over |-> call[th].tmp # 0 /\ disp[call[th].tmp] = "ended"]}

\* stop() takes both tickets, which it waits for until the round under way is
\* over, looks for the object, and leaves them again.
StopTickets(th) ==
  /\ At(th, "tickets") /\ ticket = 0
  /\ IF shared = 0
     THEN Returns(th, FALSE)
     ELSE /\ call' = [call EXCEPT ![th].step = "shutdown", ![th].tmp = shared]
          /\ UNCHANGED answers
  /\ UNCHANGED <<link, handle, dispatcher, lapses>>

\* An attempt has failed; there are three of them if stop() is to wait.
Retry(th) ==
  IF isRunning /\ call[th].tries > 1
  THEN /\ call' = [call EXCEPT ![th].tries = @ - 1, ![th].step = "shutdown"]
       /\ UNCHANGED answers
  ELSE Returns(th, ~isRunning)

\* DispatchShared::shutdown().
Shutdown(th) ==
  /\ At(th, "shutdown") /\ running[call[th].tmp]
  /\ running' = [running EXCEPT ![call[th].tmp] = FALSE]
  /\ call' = [call EXCEPT ![th].step = "await"]
  /\ UNCHANGED <<link, handle, startup, shutdown, disp, ticket, history>>

\* A `running` that is FALSE already, whoever cleared it, is a failed attempt,
\* and an immediate one.
ShutdownRefused(th) ==
  /\ At(th, "shutdown") /\ ~running[call[th].tmp]
  /\ Retry(th)
  /\ UNCHANGED <<link, handle, dispatcher, lapses>>

\* Mutant: the latch is not waited for.
Completed_Always(k) == TRUE

\* CountDownLatch::await().
Completed(k) == shutdown[k]

StopAwaited(th) ==
  /\ At(th, "await") /\ Completed(call[th].tmp)
  /\ call' = [call EXCEPT ![th].step = "reset"]
  /\ UNCHANGED <<link, handle, dispatcher, history>>

\* Mutant: the result of the wait is not looked at.
StopTimesOut_Done(th) ==
  /\ At(th, "await")
  /\ call' = [call EXCEPT ![th].step = "reset"]
  /\ lapses' = lapses \cup {"timeout"}
  /\ UNCHANGED <<link, handle, dispatcher, answers>>

\* The wait times out after 3 s, or 1 ms if stop() is not to wait; the latch may
\* be counted down before the mutex is taken again, and TIMEOUT be returned yet.
StopTimesOut(th) ==
  /\ At(th, "await")
  /\ Retry(th)
  /\ lapses' = lapses \cup {"timeout"}
  /\ UNCHANGED <<link, handle, dispatcher>>

\* A spurious wakeup passes for the end of the dispatcher.
StopWakesEarly(th) ==
  /\ At(th, "await") /\ ~shutdown[call[th].tmp]
  /\ lapses' = lapses \cup {"spurious"}
  /\ call' = [call EXCEPT ![th].step = "reset"]
  /\ UNCHANGED <<link, handle, dispatcher, answers>>

\* Mutant: the flag isRunning() returns is not cleared.
StopReset_KeepsFlag(th) ==
  /\ At(th, "reset") /\ ticket = 0
  /\ shared' = 0
  /\ Returns(th, TRUE)
  /\ UNCHANGED <<link, created, dispatcher, isRunning, lapses>>

\* Under both tickets, the object and its thread are let go.
StopReset(th) ==
  /\ At(th, "reset") /\ ticket = 0
  /\ shared' = 0
  /\ isRunning' = FALSE
  /\ Returns(th, TRUE)
  /\ UNCHANGED <<link, created, dispatcher, lapses>>
-----------------------------------------------------------------------------
\* Mutant: the dispatcher is left to find out by itself.
Disconnect_NoStop(th) ==
  /\ Begins(th) /\ connected
  /\ call' = [call EXCEPT ![th] = NewCall("close", TRUE, TRUE)]
  /\ lapses' = lapses \cup Overlap
  /\ UNCHANGED <<link, handle, dispatcher, answers>>

\* disconnect() stops the auto-dispatcher before anything else.
Disconnect(th) ==
  /\ Begins(th) /\ connected
  /\ call' = [call EXCEPT ![th] = NewCall(IF isRunning THEN "tickets" ELSE "close", TRUE, TRUE)]
  /\ lapses' = lapses \cup Overlap
  /\ UNCHANGED <<link, handle, dispatcher, answers>>

Close(th) ==
  /\ At(th, "close")
  /\ connected' = FALSE
  /\ call' = [call EXCEPT ![th] = None]
  /\ UNCHANGED <<destroyed, handle, dispatcher, history>>

Connect(th) ==
  /\ Idle(th) /\ ~connected
  /\ connected' = TRUE
  /\ UNCHANGED <<destroyed, handle, dispatcher, call, history>>

\* The destructor, after its disconnect(), when no other call is under way.
Destroy ==
  /\ ~connected /\ ~destroyed /\ \A th \in Thread : Idle(th)
  /\ destroyed' = TRUE
  /\ UNCHANGED <<connected, handle, dispatcher, call, history>>
-----------------------------------------------------------------------------
\* Mutant: the latch start() waits for is counted down before `running` is set.
Begin_LatchFirst(k) ==
  /\ \/ /\ disp[k] = "begin"
        /\ startup' = [startup EXCEPT ![k] = TRUE]
        /\ disp' = [disp EXCEPT ![k] = "began"]
        /\ UNCHANGED running
     \/ /\ disp[k] = "began"
        /\ running' = [running EXCEPT ![k] = TRUE]
        /\ disp' = [disp EXCEPT ![k] = "loop"]
        /\ UNCHANGED startup
  /\ UNCHANGED <<link, handle, shutdown, ticket, call, history>>

\* DispatchShared::run(): `running` is set before the latch is counted down.
Begin(k) ==
  /\ \/ /\ disp[k] = "begin"
        /\ running' = [running EXCEPT ![k] = TRUE]
        /\ disp' = [disp EXCEPT ![k] = "began"]
        /\ UNCHANGED startup
     \/ /\ disp[k] = "began"
        /\ startup' = [startup EXCEPT ![k] = TRUE]
        /\ disp' = [disp EXCEPT ![k] = "loop"]
        /\ UNCHANGED running
  /\ UNCHANGED <<link, handle, shutdown, ticket, call, history>>

Loop(k) ==
  /\ disp[k] = "loop" /\ running[k]
  /\ disp' = [disp EXCEPT ![k] = "auto"]
  /\ UNCHANGED <<link, handle, running, startup, shutdown, ticket, call, history>>

\* Mutant: the end is not announced.
LoopEnds_NoCountDown(k) ==
  /\ disp[k] = "loop" /\ ~running[k]
  /\ disp' = [disp EXCEPT ![k] = "ended"]
  /\ UNCHANGED <<link, handle, running, startup, ticket, call, history, shutdown>>

LoopEnds(k) ==
  /\ disp[k] = "loop" /\ ~running[k]
  /\ shutdown' = [shutdown EXCEPT ![k] = TRUE]
  /\ disp' = [disp EXCEPT ![k] = "ended"]
  /\ UNCHANGED <<link, handle, running, startup, ticket, call, history>>

\* autoDispatch() throws if the auto-dispatcher is not said to be running, and
\* the thread ends without counting down.
AutoThrows(k) ==
  /\ disp[k] = "auto" /\ ~isRunning
  /\ disp' = [disp EXCEPT ![k] = "ended"]
  /\ UNCHANGED <<link, handle, running, startup, shutdown, ticket, call, history>>

AutoDispatch(k) ==
  /\ disp[k] = "auto" /\ isRunning /\ ticket = 0
  /\ ticket' = k
  /\ disp' = [disp EXCEPT ![k] = "round"]
  /\ UNCHANGED <<link, handle, running, startup, shutdown, call, history>>

\* A message that has arrived within 250 ms goes to its callbacks.
Deliver(k) ==
  /\ disp[k] = "round" /\ connected
  /\ disp' = [disp EXCEPT ![k] = "callback"]
  /\ UNCHANGED <<link, handle, running, startup, shutdown, ticket, call, history>>

RoundEnds(k) ==
  /\ disp[k] \in {"round", "callback"}
  /\ disp' = [disp EXCEPT ![k] = "loop"]
  /\ ticket' = 0
  /\ UNCHANGED <<link, handle, running, startup, shutdown, call, history>>
-----------------------------------------------------------------------------
StartSteps(th) == \/ StartCheck(th) \/ StartCreate(th) \/ StartLaunch(th)
                  \/ StartReturns(th) \/ StartTimesOut(th) \/ StartWakesEarly(th)

StopSteps(th) == \/ StopTickets(th) \/ Shutdown(th) \/ ShutdownRefused(th)
                 \/ StopAwaited(th) \/ StopReset(th)

DispatcherSteps(k) == Begin(k) \/ Loop(k) \/ LoopEnds(k) \/ AutoThrows(k)
                      \/ AutoDispatch(k) \/ Deliver(k) \/ RoundEnds(k)

Next == \/ \E th \in Thread : \/ StartSteps(th)
                              \/ \E wait \in Waits : Stop(th, wait)
                              \/ StopSteps(th) \/ StopTimesOut(th) \/ StopWakesEarly(th)
                              \/ Disconnect(th) \/ Close(th) \/ Connect(th)
        \/ \E k \in Run : DispatcherSteps(k)
        \/ Destroy

\* Threads run, callbacks return, and the read ticket is handed out in order; no
\* timer is relied on.
Fairness ==
  /\ \A th \in Thread : SF_vars(StopSteps(th))
  /\ \A k \in Run : SF_vars(DispatcherSteps(k))

Spec == Init /\ [][Next]_vars

FairSpec == Spec /\ Fairness
-----------------------------------------------------------------------------
\* No wait has timed out or ended for nothing, and no calls have overlapped.
Undisturbed == lapses = {}

\* Messages are dispatched by one thread at a time, in the order they arrive,
\* whatever timed out before and however start(), stop() and disconnect() overlap
\* (start() refuses while m_dispatchShared is set, AutoDispatcher.cpp:53), unless
\* two start()s find it unset at once, or a wait ended for nothing.
OneDispatcher ==
  lapses \cap {"spurious", "race"} = {} => \A j, k \in Run : Alive(j) /\ Alive(k) => j = k

\* Between calls, a dispatcher that is not said to be running has ended: no
\* callback runs after a stop() that returned true.
StoppedIsQuiet == Undisturbed /\ NoCalls /\ ~isRunning => \A k \in Run : ~Alive(k)

\* Between calls, receive() and dispatch() are refused (isRunning()) only if
\* there is a dispatcher.  InternalConnection.cpp:860-861: "This method cannot be
\* called when the Auto-Dispatcher is in use".
RefusedOnlyInUse == NoCalls /\ isRunning => \E k \in Run : Alive(k)

\* They are not refused for nothing as long as nothing has timed out.
RefusalsJustified == Undisturbed => RefusedOnlyInUse

\* Connection.h:359: "A value of true is returned if the auto-dispatcher was
\* running and has been stopped".  A stop() that answers true has stopped the
\* auto-dispatcher it found running, whatever timed out before, as long as no calls
\* overlap.
TrueMeansStopped == lapses \cap {"spurious", "overlap"} = {} => \A a \in answers : a.was /\ a.answer => a.over

\* A stop() of a running auto-dispatcher, with or without waiting, succeeds
\* unless its time is up or another call comes between.
StopSucceeds == Undisturbed => \A a \in answers : a.was => a.answer

\* The thread of a dispatcher never works on a Connection that has been freed.
NothingOutlives == Undisturbed /\ destroyed => \A k \in Run : ~Alive(k)

\* Every stop() returns, and so does the one in disconnect(), although no timer
\* goes off: the dispatcher's thread ends within one round and says so.
StopReturns ==
  \A th \in Thread : At(th, "shutdown") ~> call[th] = None \/ At(th, "close") \/ ~Undisturbed
-----------------------------------------------------------------------------
\* In stop(), from the moment that `running` is cleared.
Stopping(th) == call[th] # None /\ call[th].step \in {"await", "reset"}

\* One start() at a time gets past its check, and nobody else makes an object.
OneStarter ==
  "race" \notin lapses =>
    \A th \in Thread : At(th, "create") =>
      shared = 0 /\ \A u \in Thread : At(u, "create") => u = th

\* What keeps a second dispatcher away, whatever calls overlap: a thread that works
\* or may be told to end is that of the object m_dispatchShared, only one stop() gets
\* to tell it, and lets the object go when it has ended.
OneObject ==
  lapses \cap {"spurious", "race"} = {} =>
    /\ \A k \in Run : Alive(k) \/ running[k] => k = shared
    /\ \A th \in Thread : Stopping(th) =>
         /\ shared # 0 /\ call[th].tmp = shared
         /\ ~running[shared] /\ disp[shared] \notin {"none", "begin"}
         /\ \A u \in Thread : Stopping(u) => u = th
         /\ call[th].step = "reset" => disp[shared] = "ended"

\* How far the thread of an object has come.
ThreadsFit ==
  \A k \in Run : /\ shutdown[k] => disp[k] = "ended"
                 /\ running[k] => disp[k] \notin {"none", "begin"}

\* stop() goes on with an object it has found.
Holds ==
  \A th \in Thread :
    call[th] # None /\ call[th].step \in {"shutdown", "await", "reset"} => call[th].tmp # 0

\* The inductive invariant of all behaviours, calls that overlap included.
ObjectInv == TypeOK /\ OneStarter /\ OneObject /\ ThreadsFit /\ Holds

\* No call is made while another one is under way.
Serial == \A t, u \in Thread : call[t] # None /\ call[u] # None => t = u

Within(steps) == \E th \in Thread : call[th] # None /\ call[th].step \in steps

\* An object that was not created has no thread, and a latch that is counted down
\* tells how far its thread has come.
ObjectsFit ==
  /\ shared <= created
  /\ \A k \in Run :
       /\ k > created => disp[k] = "none"
       /\ startup[k] => disp[k] \notin {"none", "begin", "began"}
       /\ shutdown[k] => disp[k] = "ended"

\* What a call under way can rely on.
CallsFit ==
  \A th \in Thread : call[th] # None =>
    /\ connected
    /\ call[th].step = "create" => shared = 0
    /\ call[th].step = "launch" => shared # 0 /\ disp[shared] = "none"
    /\ call[th].step \in {"await_start", "shutdown", "await", "reset"} =>
         shared # 0 /\ call[th].tmp = shared
    /\ call[th].step \in {"tickets", "shutdown", "await", "reset"} => call[th].was = isRunning

\* Only the thread of the object that is there has not ended, and it has when stop()
\* lets go of the object.
OnlyShared ==
  "spurious" \notin lapses =>
    /\ \A k \in Run : Alive(k) => k = shared
    /\ Within({"reset"}) => disp[shared] = "ended"

\* As long as no wait was cut short, isRunning() tells whether there is a dispatcher;
\* it has begun when start() returns, and goes on until stop() tells it to end.
InStep ==
  Undisturbed =>
    /\ isRunning <=> shared # 0 /\ ~Within({"launch"})
    /\ ~connected \/ Within({"close"}) => shared = 0
    /\ isRunning /\ ~Within({"await_start"}) => startup[shared]
    /\ isRunning /\ ~Within({"await", "reset"}) =>
         Alive(shared) /\ (disp[shared] # "begin" => running[shared])

\* The answers that have been given.
Answers == TrueMeansStopped /\ StopSucceeds

\* The inductive invariant of the behaviours in which no calls overlap.
DispatchInv ==
  /\ TypeOK /\ (destroyed => ~connected)
  /\ ObjectsFit /\ CallsFit /\ OnlyShared /\ InStep

\* The history tells whether any have.
SerialInv == "overlap" \notin lapses => Serial /\ DispatchInv /\ Answers
=============================================================================
